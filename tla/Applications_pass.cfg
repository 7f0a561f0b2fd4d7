\* Four requests: an application, a patch of it, its end, and its new start.
SPECIFICATION Spec
CONSTANTS
  r1 = r1
  r2 = r2
  r3 = r3
  r4 = r4
  toApply = toApply
  applied = applied
  Requests = {r1, r2, r3, r4}
  Statuses = {toApply, applied}
  None = None
SYMMETRY Alike
INVARIANTS
  TimelineTellsStatus
  TimelineChains
  NoOrphans
  FailedLeavesNothing
CHECK_DEADLOCK FALSE
