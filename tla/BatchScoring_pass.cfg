SPECIFICATION FairSpec
CONSTANTS
  u1 = u1
  u2 = u2
  u3 = u3
  UserRows <- MCThreeUsers
  Signals = 2
  Faults = {"gate", "submit", "poll", "collect", "telemetry", "stamp", "record"}
INVARIANTS
  RecordedOnce
  SummaryTrue
  FailureIsolated
  TrackersExited
  DrainReachesRegistered
PROPERTY ScoringEnds
CHECK_DEADLOCK FALSE
