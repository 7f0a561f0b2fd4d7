SPECIFICATION FairSpec
CONSTANTS
  ann = ann
  bob = bob
  eve = eve
  h1 = h1
  h2 = h2
  Users = {ann, bob, eve}
  KnownUsers = {ann, bob}
  Hashes = {h1, h2}
  Content <- MCTwoRuns
  MaxFaults = 3
INVARIANTS
  ProcessedStands
  AllOrNothing
PROPERTIES
  NothingLost
  BlobsSettle
CHECK_DEADLOCK FALSE
