SPECIFICATION Spec
CONSTANTS
  p1 = p1
  p2 = p2
  p3 = p3
  r1 = r1
  r2 = r2
  u1 = u1
  u2 = u2
  s1 = s1
  s2 = s2
  NoJob = NoJob
  Runs = {r1, r2}
  Users = {u1, u2}
  Sources = {s1, s2}
  Procs = {p1, p2, p3}
  RunOf <- MCRunOf3
  PlanRows <- MCTwoSources
  Overlap = FALSE
  Faults = {"crash", "interrupt", "requeue"}
INVARIANTS
  TypeOK
  SourceSerialized
  SucceededFileWhole
  MergedRowsSucceeded
PROPERTY LedgerSpec
CHECK_DEADLOCK FALSE
