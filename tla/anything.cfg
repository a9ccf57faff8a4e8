SPECIFICATION Spec
CONSTANTS
  Runtimes = {r1, r2}
  Pids = {p1, p2}
  NoPid = NoPid
  Nobody = Nobody
  Faults = {"crash", "disk", "recycle"}
  Jobs <- AllMainJobs
  MaxCommands = 4
  Overlap = "any"
SYMMETRY RuntimeSymmetry
CHECK_DEADLOCK FALSE
INVARIANTS
  TypeOK
  OwnChild
  OnlyReadiedPids
  ReadHasSender
PROPERTIES
  CommandsAdvance
