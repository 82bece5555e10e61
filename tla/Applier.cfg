CONSTANTS
  MaxIndex = 3
  MaxCommits = 4
SPECIFICATION FairSpec
CHECK_DEADLOCK FALSE
INVARIANTS TypeOK CaughtUp ClosedWhenApplied
PROPERTIES NothingPassedOver EntriesAreTaken
