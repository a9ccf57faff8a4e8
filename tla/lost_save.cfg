SPECIFICATION Spec
CONSTANTS
  Runtimes = {r1}
  Pids = {p1, p2}
  NoPid = NoPid
  Nobody = Nobody
  Faults = {"disk"}
  Jobs <- MainJobs
  MaxCommands = 3
  Overlap = "none"
CHECK_DEADLOCK FALSE
INVARIANTS
  CreatedMeansNoProcess
