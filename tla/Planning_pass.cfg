\* Two plans of one run id, one at a time, that die anywhere.
SPECIFICATION Spec
CONSTANTS
  NoHome = "nowhere"
  Boards = {"lever", "ashby"}
  Filler = {"labs"}
  NoRow = NoRow
  Users <- MCUsers
  Searches <- MCSearches
  Worlds <- MCWorlds
  Saved <- MCSaved
  Runs = {"r1"}
  Planners = {p1}
  Overlap = FALSE
  None = None
  Torn = Torn
  MaxPlans = 2
  MaxSaves = 1
  MaxChanges = 1
INVARIANTS
  ScrapesVerified
  PlanComplete
  RowsMatchFiles
PROPERTY
  NoRepoint
CHECK_DEADLOCK FALSE
