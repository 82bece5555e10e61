CONSTANTS
  Follower = {f1}
  MaxRestored = 1
  MaxIndex = 2
  MaxInTransit = 2
SPECIFICATION Spec
CHECK_DEADLOCK FALSE
PROPERTIES EntriesReachFollowers
