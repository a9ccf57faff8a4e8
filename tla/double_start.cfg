SPECIFICATION Spec
CONSTANTS
  Runtimes = {r1, r2}
  Pids = {p1, p2}
  NoPid = NoPid
  Nobody = Nobody
  Faults = {}
  Jobs <- MainJobs
  MaxCommands = 3
  Overlap = "any"
CHECK_DEADLOCK FALSE
INVARIANTS
  OneInit
