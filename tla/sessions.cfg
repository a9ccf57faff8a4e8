SPECIFICATION Spec
CONSTANTS
  Runtimes = {r1, r2, r3}
  Pids = {p1, p2}
  NoPid = NoPid
  Nobody = Nobody
  Faults = {"recycle"}
  Jobs <- KeptJobs
  MaxCommands = 5
  Overlap = "waiting"
CHECK_DEADLOCK FALSE
INVARIANTS
  OneInit
  InitIsRecorded
  StoppedMeansDead
  RestIsReadable
  EmptyIsInFlight
PROPERTIES
  ImplementsLifecycle
  ExitTellsOutcome
  ExecOnlyNotesDeath
