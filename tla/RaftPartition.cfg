CONSTANTS
  s1 = s1
  s2 = s2
  s3 = s3
  s4 = s4
  NoServer = NoServer
  Server = {s1, s2, s3}
  Value = {v1, v2}
  Candidacies <- TwoLeaders
  Links <- BridgedByS3
  MaxLogLength = 1
  MaxRestarts = 1
SPECIFICATION Spec
CHECK_DEADLOCK FALSE
INVARIANTS TypeOK LogMatching
SYMMETRY AnyValue
