SPECIFICATION FairSpec
CONSTANTS
  Runtimes = {r1, r2}
  Pids = {p1, p2}
  NoPid = NoPid
  Nobody = Nobody
  Faults = {"crash"}
  Jobs <- MainJobs
  MaxCommands = 3
  Overlap = "any"
CHECK_DEADLOCK FALSE
INVARIANTS
  DeletedIsDead
PROPERTIES
  CommandsReturn
  AttachedReturns
  DeleteKills
  UnreadableStays
