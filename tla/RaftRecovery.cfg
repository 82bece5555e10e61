CONSTANTS
  s1 = s1
  s2 = s2
  s3 = s3
  s4 = s4
  NoServer = NoServer
  Server = {s1, s2}
  Value = {v1, v2}
  Candidacies <- Handover
  Links <- FullyConnected
  MaxLogLength = 2
  MaxRestarts = 2
SPECIFICATION Spec
CHECK_DEADLOCK FALSE
INVARIANTS DurableLog LogMatching CommitsMatch
PROPERTIES AckedIsStored OnlyLeadersCommit
SYMMETRY AnyValue
