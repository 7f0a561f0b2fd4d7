SPECIFICATION EmailSpec
CONSTANTS
  Runs = {"n1", "e1", "e2"}
  Users = {"ann", "bob"}
  Sources = {"companies", "linkedin", "ziprecruiter_email"}
  Emails = {1, 2}
  Links <- MCLinks
  Unlimited = Unlimited
  Unset = Unset
  NoFile = NoFile
  Similarity <- MCSimilarity
  HashRank <- MCHashRank
  Planned <- MCPlanned
  NightRun = "n1"
  EmailUser = "ann"
  EmailRuns = {"e1"}
  UserRank <- MCUserRank
  SourceRank <- MCSourceRank
  Offers <- MCOffers
  Lengths <- MCLengths
  Scenarios <- MCScenarios
  EmailOptions <- MCEmailOptions
  Together = FALSE
  MaxFaults = 1
INVARIANTS FannedIn VetoRatified VisitedOnce
CHECK_DEADLOCK FALSE
