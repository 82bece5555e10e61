CONSTANTS
  s1 = s1
  s2 = s2
  s3 = s3
  s4 = s4
  NoServer = NoServer
  Server = {s1, s2, s3}
  Value = {v1}
  Candidacies <- SplitThenRetry
  Links <- FullyConnected
  MaxLogLength = 0
  MaxRestarts = 1
SPECIFICATION Spec
CHECK_DEADLOCK FALSE
INVARIANTS ElectionSafety PersistedBeforeSent
PROPERTY StoredVoteKept
