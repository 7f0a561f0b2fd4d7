\* Two applications, two connections of the pool, five ticks.
SPECIFICATION UpcomingSpec
CONSTANTS
  j1 = j1
  j2 = j2
  c1 = c1
  c2 = c2
  Jobs = {j1, j2}
  Conns = {c1, c2}
  Horizon = 5
  Default <- MCDefault
  Nothing = Nothing
INVARIANTS
  NudgesDue
  QuietTold
SYMMETRY MCSymmetry
CHECK_DEADLOCK FALSE
