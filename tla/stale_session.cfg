SPECIFICATION Spec
CONSTANTS
  Runtimes = {r1, r2}
  Pids = {p1, p2}
  NoPid = NoPid
  Nobody = Nobody
  Faults = {}
  Jobs <- RebornJobs
  MaxCommands = 4
  Overlap = "waiting"
CHECK_DEADLOCK FALSE
PROPERTIES
  ExecOnlyNotesDeath
