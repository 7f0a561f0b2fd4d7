SPECIFICATION Spec
CONSTANTS
  None = None
  Unset = Unset
  DefaultAliases <- MCDefaultAliases
  Commands = {"p", "r"}
  PageSize = 2
  Slug <- MCSlug
  LastMinute = 1
  Scenarios <- MCScenarios
INVARIANTS
  PagedWhole
  LandedRouted
CHECK_DEADLOCK FALSE
