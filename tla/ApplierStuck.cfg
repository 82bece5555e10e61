CONSTANTS
  MaxIndex = 3
  MaxCommits = 3
SPECIFICATION FairSpec
CHECK_DEADLOCK FALSE
PROPERTY AllEntriesAreTaken
