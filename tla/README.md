# ns-runtime: specification and verification

TLA+ models of `ns-runtime` (the C sources under `src/`), model-checked with
TLC on small instances and proved with TLAPS for all values of the constants.
File names below are relative to the repository, modules to this directory.

## 1. Inventory

`ns-runtime` is a command line program: each invocation is a process that runs
one command and exits. There is no daemon and no lock; what one invocation
knows of another it learns from two shared things, the **state directory** and
the **process table**.

| Component | Code | State it keeps | Operations | What makes it correct |
|---|---|---|---|---|
| State store | `src/common/state.c` | `<state_dir>/<id>/state.json` | save, load, exists, delete | a record is whole or absent when no save is under way; an empty file is about to be written |
| Command flows | `src/main.c` | one in-memory `nk_container_t` per invocation, the pid file | create, start, run, exec (resume), delete, state | one init per container, the record tells the truth about it, every command ends, failures are reported |
| Container process | `src/container/process.c` | the cloned child, the sync pipe | exec (clone and handshake), wait, signal | ready means ready, failures are noticed and reaped, no hang |
| Root filesystem | `src/container/mounts.c` | the mounts of the child | setup_rootfs, pivot_root | no program in the host's root, no mounts leak to the host |
| Namespaces | `src/container/namespaces.c` | clone flags | get_clone_flags; join, set_hostname and the user mapping have no caller | the namespaces listed are the ones made, no more and no fewer |
| OCI bundle | `src/oci/spec.c`, the context loop of `nk_container_start` | parsed spec | load, validate | arrays and their lengths agree; start launches nothing that validation would refuse |
| Arguments | `src/main.c` `nk_parse_args`, `main` | options, exit status | one option at a time, the checks after them, dispatch | a line is executed if and only if it is legal, as the command it means; no failing program is reported with status 0 |
| Logging | `src/common/log.c` | level, enabled, educational, whether the environment was applied | set by options, applied from the environment, the log calls | what is written follows from options and environment, whenever the environment is read |
| Cgroups | `src/container/cgroups.c` | a cgroup directory | setup and add (never reached), cleanup (finds nothing) | dead code |
| VM mode | `include/nk_vm.h` | none | refused by start | not implemented |
| Build, tests, scripts | `Makefile`, `scripts/` | none | | |

Interaction: `main` calls the command functions; these call the state store
(several times, keeping a copy of the record in between), `nk_container_exec`
(which clones a child and waits on a pipe for its readiness), `waitpid` and
`kill`. Two invocations for one id interleave at every system call.

Hard behaviours, each listed under "hazards" in `PROJECT.json` with its line:

- check-then-act on the record without a lock (create, start), and saves that
  truncate in place (readers and other writers get in between);
- records held across long waits (an attached start, an exec session) and then
  written back;
- failures half way: a save after the clone, the flush at `fclose`, the delete
  after a failed start; an `ns-runtime` killed anywhere;
- the handshake: a byte, an error byte, end of file, a child that dies silently,
  a descriptor left open;
- pids that are zombies, orphans, or somebody else's by now; SIGTERM that does
  nothing; SIGKILL that takes its time;
- mounts that propagate;
- a config.json that is edited between create and start, with entries that are
  no objects or types nobody knows, and memory that is short;
- options in any order and several times, some of whose effects overwrite each
  other's; an environment that is applied late, at the first log call;
- wait statuses, exit codes and signals that share one byte.

## 2. Modules

```
StateFile, InitProcess, Commands <- Runtime <- RuntimeProperties <- RuntimeRefinement <- MCRuntime
RuntimeProperties <- RuntimeProofs <- SerialProofs <- LifecycleProofs <- SessionProofs
                                 RuntimeRefinement <- LifecycleProofs
Bundle <- Launch <- LaunchProperties <- MCLaunch
Bundle <- BundleProofs, LaunchProperties <- LaunchProofs <- LaunchSimulation
Commands, Logging <- Cli <- CliProperties <- MCCli
                            CliProperties <- CliProofs
```

`A <- B`: B extends A. RuntimeRefinement instantiates Lifecycle, LaunchProperties
instantiates Runtime. **Commands** is the interface of the two halves: the
jobs (`JobSpace`) that Cli derives from command lines and Runtime executes.

**StateFile** is `state.c` for one container id. `dir` and `file` are what the
file system holds; `linked` says whose open write descriptor still belongs to
the file the name stands for (unlink and re-creation leave old descriptors
writing to a file nobody sees). `OpenTruncate` and `FlushRecord` are two steps,
because `fopen("w")` truncates and the record leaves the stdio buffer at
`fclose`. Two overlapping writers both write from offset 0; depending on the
lengths of the texts the result is the later record or one that does not parse
(`Overlay` allows both). A record is reduced to `state` and `pid`.

**InitProcess** is the process table as the commands see it. A slot runs
through `setup` (before the write to the pipe), `ready`, `running`, `dying` (a
fatal signal is pending), `zombie`; `par` is the invocation that can wait for
it, `Nobody` when that has exited (the init system then reaps). `foreign` is an
unrelated process that got a freed pid. `Visible` is `kill(pid, 0)`: true for
zombies and strangers.

**Runtime** is `main.c`. Each element of `Runtimes` is an invocation: `pc` is
the next system call, `mem` its `nk_container_t`, `child` its cloned pid, `job`
its command line, `"ok"`/`"fail"` its exit status (the program's own exit code
is not kept). After it has ended it may stand for a later invocation. One
action per system call that touches the shared state; purely local code is part
of the action before it. A save is shared by its three users
(`StatDir`, `MakeDir`, `OpenFile`, `WriteFile`), and `AfterSave` says where each
of them goes on: only create looks at the result.

| Action | Code |
|---|---|
| `Issue` | `main` after `nk_parse_args`; the jobs are those of Commands |
| `CheckExists`, `LoadSpec` | `nk_container_create` |
| `StatDir`, `MakeDir`, `OpenFile`, `WriteFile` | `ensure_container_dir`, `nk_state_save` |
| `LoadForStart`, `PrepareFails`, `CloneInit`, `AwaitReady`, `AwaitFailure`, `WaitInit` | `nk_container_start`, `nk_container_exec`, `nk_container_wait` |
| `OpenPidFile`, `WritePidFile` | `write_container_pid_file`, `write_pid_file` |
| `ExecLoad`, `ExecProbe`, `ExecSessionEnds` | `nk_container_resume`, `update_stopped_state_if_dead` |
| `DeleteLoad`, `Sigterm`, `CheckKilled`, `Sigkill`, `Unlink`, `Rmdir` | `nk_container_delete`, `nk_state_delete` |
| `Query` | `nk_container_state` |
| `Crash` | the invocation is killed |

run is create, start and, with `--rm`, delete in one invocation
(`AfterSave`, `AfterStart`, `AfterFailedStart`, `AfterDelete`).

**Lifecycle** is the abstract promise for one container: a record and a first
process that move together. **RuntimeRefinement** maps Runtime to it. The
abstract record changes at the truncation: from then on the old content is gone,
and the record is what the runtime between `fopen` and `fclose` will write
(`Saver`; where several are, they all write `stopped`, see `SessionProofs`).

**Bundle** is what `spec.c` and the loop in `nk_container_start` make of a
`config.json`, as operators: `Load`, `Validate`, `CloneFlags`, `Argv`. A config
is reduced to what decides whether and how a container is launched: does it
parse, is there a root path, is `process.args` an array and which of its
elements are strings, and the list of namespaces with their types, paths and
malformed entries. `ParseNamespaces` keeps the peculiarity of the code: an entry
is stored at its index in the JSON array, the length counts the stored ones.

**Launch** is one launch in detail, from `nk_container_start` loading the bundle
(`LoadBundle`, `BuildContext`) through `nk_container_exec` to the program: the
parent's and the child's calls, the two descriptors each holds, the byte in the
pipe, and the child's root and mounts. Every call that the code allows to fail
may fail; parent and child may be killed at any point. Inputs are chosen in
`Init`: `config` from the constant `Bundles`, and `host`, which says whether the
lists can be allocated, whether the rootfs is a mount point, whether the host's
root mount is shared. `parent = "segv"` is the end of an ns-runtime that reads a
NULL type. `seen` collects the mount changes visible in the caller's namespace;
`Reach` is the kernel's propagation rule (mount_namespaces(7)).
**LaunchProperties** also says that a launch is what Runtime takes it for:
`Coarse` instantiates Runtime with one invocation and one pid, and every step of
Launch is a step of `Runtime!Next` or none. This justifies Runtime's three-step
launch.

| Action | Code |
|---|---|
| `LoadBundle`, `BuildContext` | `nk_container_start` up to the call of `nk_container_exec` |
| `Prepare`, `Clone`, `CloseWriteEnd`, `Read`, `Finish`, `Abandon`, `Reap` | `nk_container_exec` |
| `CloseReadEnd`, `ReportReady`, `ReportError`, `Exec`, `Leave` | `container_child_fn` |
| `MakePrivate`, `BindSelf`, `RetryPrivate`, `MountDefaults` | `nk_container_setup_rootfs` |
| `BindNewRoot`, `PivotRoot`, `ChdirNewRoot`, `DetachOldRoot` | `nk_mount_pivot_root` |
| `Crash`, `End` | a signal ends the parent, the child; the program exits |

**Logging** is `log.c` as operators on the record of its global variables:
`ApplyEnv` (once, at the first call), `Shown` (which calls reach stderr).

**Cli** is one process from `argv` to its exit status. `Option` is one round of
the `getopt_long` loop and sets either a mode or a logging variable or ends the
parsing; `Refused` is the disjunction of the error conditions after the loop,
`Defaulted` the defaults; `Dispatch` and the commands' ends are `main`. While a
command is under way it may make any log call (`Report`) and then return what it
returns: what it does is Runtime's subject. A `last` call and whether it was
shown are kept for the property only. **CliProperties** reads a command line as
a whole (`Legal`, `Meaning`, which option is the later one) and compares.

**RuntimeProofs**, **SerialProofs**, **LifecycleProofs**, **SessionProofs**,
**BundleProofs**, **LaunchProofs**, **LaunchSimulation** and **CliProofs** hold the theorems.
Definitions named `X_Y` next to an `X` are plausible wrong versions of it; each
property of a passing run is violated when one of them replaces its original.

## 3. Runs

All runs of Runtime use one container id and bound the number of commands by
`MaxCommands`. `CHECK_DEADLOCK FALSE` everywhere: the system stops when all
commands have been issued and all programs have ended, a launch when both
processes have, a command line when its process has exited.

| Run | Instance | Shows |
|---|---|---|
| `serial` | 1 runtime, 3 pids, all commands and flags, 6 commands, no overlap, recycled pids | `ImplementsLifecycle`; at most one process (`OneInit`); a live one is on record (`InitIsRecorded`); `stopped` means dead; the directory is clean at rest; exec writes only the truth; the exit status tells what is on record, in the pid file and in the process table (`ExitTellsOutcome`) |
| `sessions` | 3 runtimes, 2 pids, recycled; every command but delete, and run without `--rm`; commands are issued while attached starts and sessions wait; 5 commands; 257,786 distinct states | a container in use keeps all seven properties of `serial`; a file that is found empty is about to be written (`EmptyIsInFlight`) |
| `anything` | 2 runtimes, 2 pids, every interleaving, all faults, 4 commands (each once, and a start with `--pid-file`) | types; a start keeps its child; no pid is recorded, written to a pid file or signalled that has not reported ready (`OnlyReadiedPids`); the read of the sync pipe has or will have its answer (`ReadHasSender`); each step of a command brings it nearer to its end (`CommandsAdvance`) |
| `progress` | 2 runtimes, crashes, fair, 3 commands | every command returns; an attached start returns after the death of its child; a delete that is not killed itself gets rid of the process, and removes the record over a dead one (`DeletedIsDead`); a state file left unreadable stays so (`UnreadableStays`) |
| `launch` | every kind of bundle (below), 8 hosts, every failure, both processes killed anywhere; 223,338 distinct states | no success and no program in the host's root (`ReadyMeansPivoted`); mounts stay inside; only bundles that validate are cloned (`ClonedMeansValid`); with the namespaces they list, an unknown type counting as pid, or with none when memory is short (`IsolationAsListed`); a malformed entry either does not matter or kills start before the clone (`SegvExactlyOnHole`); the parent waits for the child's setup, never for the program (`WaitsForSetupOnly`); both processes only go forward (`LaunchAdvances`); the launch returns; Runtime's view of it is right (`RefinesRuntime`) |
| `cli` | lines of up to three options, environments, wait statuses (below); 248,202 distinct states | a line is executed iff it is legal, and as what it means (`JobsAsMeant`); stderr obeys the settings where the documents do not disagree with the code, see below (`OutputObeysSettings`); no failing program becomes exit status 0 (`StatusTruth`) |

Runs that end in a counterexample check a sentence of the documentation or of a
comment that the code does not keep:

| Run | What happens | Sentence |
|---|---|---|
| `lost_save` | the save after the clone fails, start warns and succeeds: the record says created, the process runs | command-reference: CREATED is "No process running" |
| `double_start` | two starts pass the same check and launch a process each | "Container already running" is an error of start |
| `revived` | an attached start, meanwhile a delete: the start ends by writing `stopped`, which makes the record again | lifecycle diagram: only create makes a record |
| `stale_session` | a session, meanwhile delete and run: its end writes `stopped` over the new record | exec-design: "must not mutate container state" |
| `shared_mounts` | rootfs bind-mounted before it is private, under a shared root | explanation in `mounts.c` |
| `null_entry` | a malformed namespace entry before a good one: start reads a NULL type and is killed by SIGSEGV | "Return Codes: 0 Success, 1 Error" |

Further disagreements, read off the code without a run:

- Commands. Two creates of one id at once both succeed (`main.c:534`; the check and
  the truncating `fopen` are separate) where command-reference.md:120 lists
  "Container ID already exists" as an error. `delete` of an unknown id fails (`main.c:951`) where the flow chart
  says success; it waits 100 ms after SIGTERM and not at all after SIGKILL
  (`main.c:963-969`) where the flow chart waits 5 s and 2 s (command-reference.md:438-443),
  so a program that needs a second to end is killed, and the record goes before
  the process does. `run` without `--rm` keeps the record of a failed start
  (`main.c:789`) where the flow chart says cleanup. When the pid file cannot be
  written it is emptied and start returns 0 (`main.c:484-487`). `state` between another
  command's truncation and flush (`state.c:256`) prints `unknown`, which
  command-reference.md:563 explains as "Not found". `setsid` depends on the
  bundle's `terminal` only (`process.c:164`) where the comment above it includes
  detached workloads.
- Launch. command-reference.md:236 lists "execve() failed" as an error of start,
  but readiness is reported before `execve` (`process.c:175`), so a detached
  start has then returned success. No hostname is ever set
  (command-reference.md:176 "Set hostname (if UTS ns)").
- Bundle. A namespace type that is none of the seven becomes a pid namespace, the
  zero of `calloc` (`main.c:682`); namespaces given by path are not joined; when
  the list cannot be allocated the container runs unisolated (`main.c:672`); an
  argument that is no string cuts off the rest of argv (`spec.c:98-104`). Device
  nodes are made with the number 0600 in place of the computed one
  (`mounts.c:96`).
- Arguments and output. command-reference.md:605-607 knows the statuses 0 and 1;
  a failing command exits with 255. `create -x`, and `exec` with `-a`, `-d` or
  `--rm`, are accepted and mean nothing. The container id is the first argument
  that is no option, where the comment at `main.c:379` says the last.
  README.md:167 says that `--quiet` disables all logging; `NK_LOG_ENABLED=1`
  undoes it and explanations (`-E`) do not ask it; so does the usage text
  (`main.c:121`). `OutputObeysSettings` says nothing of these two cases
  (`Undisputed`). `--version` prints nothing
  when `NK_LOG_LEVEL=error`.

Bounds. Six serial commands reach every record state, from every other, with a
failed or ended process behind it, and a container deleted and made again.
Two runtimes suffice for every race of two invocations, four commands let one
of them act twice around the other; races that need a third party (an attached
start, a delete and a new run) reuse a runtime that has ended. Three pids let a
serial run launch three processes; two in the concurrent runs make recycling
frequent. Symmetry in runtimes and pids is used only for runs without liveness.

`launch`: all lists of at most two of five kinds of entries (two known types, one
of them by path as well, an unknown type, a malformed entry) and all lists of
three with a malformed entry, so that it comes first, in the middle and last;
argument lists up to two with and without strings; every combination of a config
that does not parse, lacks a root or a process. Only `pid` and `mount` change what
a launch does, the other five types are alike. `LaunchProofs` lifts the bound on
the lists. `cli`: every two options in any order with every command and number
of arguments, three modes (the largest conflict that is tested involves two and
a default), three logging options in 27 environments; exit codes 0, 1, 127, 255,
SIGKILL and a core dump. `MCCli` also checks that every job of Runtime is the
meaning of some line. `CliProofs` lifts all of these bounds.

Fairness (`Fairness`, `FairSpec`): each runtime's own step, and a child on its
way to its program or with a pending fatal signal, is eventually scheduled. This
is the operating system's scheduler; nothing in the code waits on anything but
`read`, `waitpid` and 100 ms. No fairness for programs and exec sessions, which
may last for ever, for faults, or for issuing commands. `Launch` assumes the
same of its two processes.

## 4. Proofs

`RuntimeProofs` proves for every `Runtimes`, `Pids`, `Jobs`, `MaxCommands`,
`Overlap` and `Faults`, from the named assumptions on the constants and, in the
last two, without the faults they name:

- `TypeCorrect`: `Spec => []TypeOK`. `TypeOK` is not inductive: a save needs a
  record in memory, and a pid is signalled or entered only out of a running
  record. `LocalsOK` says so and `Typed == TypeOK /\ LocalsOK` is inductive.
  `TypedProceed` reduces each step of a runtime to facts about what it moves on
  with.
- `StartKeepsItsChild`: `[]OwnChild`, inductive relative to `Typed`. Signals
  change a slot's state but not its parent; only the parent frees a zombie; a
  pid is handed out only when its slot is free, so a child that is waited for is
  never recycled.
- `NoFalseRunning`: `[]OnlyReadiedPids`. A pid travels pipe, `mem`, file, `mem`
  of others, `kill`. `ReadiedInv` adds the two places `OnlyReadiedPids` does not
  mention, the unread byte and a running record on its way to the file; the
  step `AwaitReady` needs `OwnChild`, because the byte must be the own child's.
- `CommandsAreFinite`: `CommandsAdvance`. `StepsFrom` ranks the control points, the
  save being ranked by what it saves, because it goes back to its caller; each
  action lowers it (`AdvanceProceed` and one step per action). Every command takes
  at most 24 steps of its own. This is the safety half of `CommandsReturn` and
  `AttachedReturns`; TLC adds the fairness.
- `ReadIsAnswered`: `[]ReadHasSender`. The invariant `SendersInv` says that the
  child of a runtime in `read` is one whose byte is unread (the flag of its slot),
  who can still report, or who is dying or gone. Proved relative to `OwnChild`: a
  child that ends is kept as a zombie for the very runtime that reads. With the
  previous theorem: the one place where a command could wait for what does not
  come has its answer.
- `UnreadableForGood`: `UnreadableStays`. The invariant `Stuck` speaks of commands
  issued later: over an unreadable file a command is at rest or at a point from
  which `nk_state_exists` or `nk_state_load` sends it home (`StuckStep`). There is
  no way back but removing the file by hand.
- `EmptyWillBeWritten`, if nobody is killed and the disk takes the data:
  `[]EmptyIsInFlight`. `Writers` says that a linked descriptor belongs to a runtime
  before its flush; a truncated file has one, since unlink removes the name with
  the descriptors, and a flush fills it. A crash or a full disk refutes the
  statement (that is what `UnreadableStays` is about). The run `sessions` checks it
  for saves that overlap; the theorem includes deletes and every interleaving.
- `DeleteLeavesNoProcess`, if no pid is given out twice: `[]DeletedIsDead`.
  `DeadInv` follows the pid from `dload` to `unlink` through SIGTERM, the wait and
  SIGKILL, and says that a pid on record was used before, so no later clone gets it.
  With recycled pids the record's pid may live again as another start's child,
  which no test of delete can see.

`SerialProofs` proves what users rely on, for commands issued one after the
other (`Serial`: `Overlap = "none"`, no crash and no disk failure, pids recycled
or not), any pids, any jobs and any number of commands: `OneProcess`,
`ProcessOnRecord`, `StoppedIsDead`, `ReadableAtRest`, `ExecNotesDeath`,
`StatusTellsOutcome`. Overlapping commands break them, as the
runs `double_start`, `revived` and `stale_session` show. The properties speak of the
moments when no command is under way and are far from inductive; `SerialInv`
adds that at most one runtime is busy and what it has put in place at each of
its control points (`InPlace`): what the file holds while it truncates, what it
remembers of it, which process may be alive while it waits, probes, signals and
deletes. A step then has to establish `InPlace` for where it goes on
(`SerialProceed`); the end of a process only makes fewer processes live
(`FewerLive`). `StatusTellsOutcome` needs besides which command is at which control
point and that a pid it holds has reported ready (`CourseInv`, which holds
whatever overlaps); its proof goes through the steps that end a command.

`LifecycleProofs` proves `CommandsImplementLifecycle`: under `Serial` every step
of Runtime is a step of Lifecycle or leaves its two variables alone.
`RecordSeen` and `InitSeen` restate the refinement mapping for the one busy
command (`SeenBusy`), and each step is then compared with the abstract
transitions, using `SerialInv` before and after it. The comparison
(`EveryStepSimulates`) asks for `Overlap # "any"` only, in place of `"none"`, so
that `SessionProofs` can use it too.

`SessionProofs` proves the same seven statements for a container in use (`Kept`:
`Overlap` is not `"any"`, no crash, no disk failure, no delete and no `--rm`; pids
recycled or not): any number of runtimes hold sessions or wait for the program while other commands
are issued. `OneProcessInUse`, `ProcessOnRecordInUse`, `StoppedIsDeadInUse`,
`ReadableInUse`, `ExecNotesDeathInUse`, `StatusTellsOutcomeInUse`,
`SessionsImplementLifecycle`. The invariant `SessionInv` has two regimes. Until
running is recorded no command waits, so commands are one at a time and
`SerialInv` holds. From then on `InUse(p)` holds for the recorded process `p` and
is never left, because without delete nothing goes back: every busy runtime
looks and goes, waits for `p`, is in a session of `p` or saves `stopped`
(`AtWork`); as soon as anyone saves, `p` is dead and the start that waited for it
knows (`Over`). Several may save at once, truncating under each other, but they all
write the same record and whoever has truncated is about to write. Each step is
`Onward(p)`: it keeps `InUse(p)`, makes no process live, and changes the file only
when nothing lives. A delete breaks the second regime, and the runs
`revived` and `stale_session` show how.

`BundleProofs`: `NullReadOnlyOnHole` (for lists of any length a NULL type is read
exactly when a malformed entry precedes a good one) and `FlagsAsListed`. The
argument is about cardinalities: the count of the stored entries is the largest
index stored at exactly when they form a prefix.

`LaunchProofs` proves the five invariants of the `launch` run about bundles, namespaces and mounts, for every set of
bundles, with lists of any length: `ReadyOutsideHostRoot`, `MountsContained`,
`OnlyValidCloned`, `DiesOnHoleOnly`, `IsolatedAsListed` (an unknown type counts as pid; all of the
namespaces are made or, without memory for the lists, none). The invariant is
`Given` (inputs), `Resolved` (what the parent knows of the bundle at each point
before the clone), `Handshake` (which byte a child can have written where) and
`Private` (nothing is mounted before the rootfs is private).

`LaunchSimulation` proves `LaunchRefinesRuntime`, without an assumption on
failures: each system call of a launch is one of Runtime's launch steps or is not
seen there. `Pipe` collects what the two processes can infer about each other
from the descriptors and the byte: a parent that reads still holds the read end,
so a report arrives; a parent that reads no byte has a child that is gone. The
lemmas `See...` restate Runtime's actions for the one slot. It also proves
`NeverWaitsForProgram` (the parent never blocks on the program it launched; `Told`
adds to `Pipe` that a child past its setup has written its byte if the parent still
lives, that one that wrote the error byte is on its way out, and that the parent
reads with no write end of its own) and `LaunchEnds` (at most eight steps of the parent
and fourteen of the child, by the ranks `ParentSteps` and `ChildSteps`).

`CliProofs` proves the three properties of Cli for lines of any length, any set
of environments and every wait status. `Settings` says what `log.c` holds before
and after the environment is applied, `Reading` what the loop has collected,
`Origins` where a refusal or a request for help came from. `StatusTold` is about the
arithmetic of wait statuses only: a command's function may return 0 although it
has warned of something it could not do; what it has done then is the subject of
`StatusTellsOutcome`.

No theorem assumes more than the named assumptions on the constants and, where
it says so, `Serial`, `Kept`, or the absence of the faults it names. None of these is
there for the sake of a proof: the counterexamples of section 3, or the mechanism
described with the theorem, show what becomes of the statements without them.

Every invariant and every action property of a passing run is a theorem. Only
model-checked: the liveness properties (`CommandsReturn`, `AttachedReturns`,
`DeleteKills`, `LaunchReturns`), which rest on fairness and `ENABLED`, out of the
prover's reach.

## 5. Abstractions and what is not modelled

- One container id. Different ids share nothing but the parent directory.
- Of a record, `state` and `pid`. All commands name the same bundle; the lengths
  of texts show only in `Overlay`. A record is written by one `write`, which
  holds for records below the stdio buffer size.
- In Runtime a bundle is accepted or refused (`LoadSpec`, `PrepareFails`),
  whatever the reason; Launch has the reasons. VM mode is one of them.
- Mounts, env, annotations, hostname, user, resources and the flags of the bundle
  are parsed by the code and decide nothing in the launch; they are not in
  Bundle. That allocations other than those of the namespace lists fail is not
  modelled.
- `nk_container_mount_custom`, `nk_mount_bind`, `nk_namespace_join`,
  `nk_container_setup_namespaces`, `nk_namespace_set_hostname` and the user
  mapping have no caller. A model of them would describe nothing the program
  does.
- Of a pid file, its first line: the pid of the writer that was last, or nothing.
  Commands share one path. A write that stops half way through the number is not
  modelled.
- A process with a pending SIGKILL counts as dead: no property sees the moment
  between the signal and the death, in which delete removes the record.
- Disk faults: mkdir, fopen, the flush, unlink and the fopen and write of the pid
  file may fail;
  `rmdir` fails only on a directory that is not empty; reads do not fail.
- Cgroups are dead code: `nk_container_setup_cgroups` has no caller,
  `container_id` is never set in the execution context, so no process joins one,
  and cleanup finds no directory.
- In Cli, `--bundle`, `--runtime` with a valid value and `--pid-file`'s argument
  decide nothing; texts, colours and roles of messages are left out. The child of
  clone logs with a copy of the settings that nobody changes any more.
- The default mounts and device nodes are one step that may be seen outside or
  not; capabilities, limits and the working directory warn at most.
- The hostname step is skipped as in the code: `exec_ctx.hostname` is never set.
- Sessions and controlling terminals are not modelled.
- A detached process that outlives its start is reaped by the init system.

## 6. Plan

1. (done) StateFile, InitProcess, Runtime with its properties, the refinement to
   Lifecycle; Launch and its relation to Runtime; the first theorems
   of `RuntimeProofs`.
2. (done) The bundle (Bundle, in Launch): parsing, the namespace loop, clone flags.
3. (done) The command line and the exit status (Cli), with JobSpace as the image
   of the accepted lines (Commands).
4. (done) The logging configuration (Logging, in Cli).
5. (done) The serial safety properties, the step simulation of Lifecycle, the
   invariant of Launch and its simulation of Runtime as theorems.
6. (dropped) Cgroups: dead code, see section 5.
7. (done) The serial theorems for attached starts and sessions under way beside
   other commands (SessionProofs); the safety half of termination; what delete, an
   empty and an unreadable state file mean under every interleaving.
8. (open) Several ids in one state directory, if they show anything new. What
   remains true of a record beside a delete that overlaps only with waiting
   commands: who may make a record again, and how often.
