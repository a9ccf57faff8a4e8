SPECIFICATION Spec
CONSTANTS
  Runtimes = {r1}
  Pids = {p1, p2, p3}
  NoPid = NoPid
  Nobody = Nobody
  Faults = {"recycle"}
  Jobs <- AllJobs
  MaxCommands = 6
  Overlap = "none"
CHECK_DEADLOCK FALSE
INVARIANTS
  OneInit
  InitIsRecorded
  StoppedMeansDead
  RestIsReadable
PROPERTIES
  ImplementsLifecycle
  ExitTellsOutcome
  ExecOnlyNotesDeath
