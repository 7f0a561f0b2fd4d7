\* Three attempts, for one run id or several, with a fault and a failed call.
SPECIFICATION Spec
CONSTANTS
  Users <- MCUsers
  Postings = {"p1", "p2"}
  Unions <- MCUnions
  Policies <- MCPolicies
  Profiles <- MCProfiles
  Setups = {"gpt"}
  Verdicts <- MCVerdicts
  Locals = {"p2"}
  NoRow = NoRow
  Failed = Failed
  Unread = Unread
  AnyState = AnyState
  Nobody = "nobody"
  Workers = 2
  Batches = {TRUE, FALSE}
  MaxRuns = 3
  MaxFaults = 1
  MaxMisses = 1
INVARIANTS
  ScoredWhole
  ServedRight
PROPERTY
  BoughtOnce
CHECK_DEADLOCK FALSE
