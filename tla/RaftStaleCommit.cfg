CONSTANTS
  s1 = s1
  s2 = s2
  s3 = s3
  s4 = s4
  NoServer = NoServer
  Server = {s1, s2, s3}
  Value = {v1}
  Candidacies <- Returns
  Links <- ReachedByS2
  MaxLogLength = 1
  MaxRestarts = 0
SPECIFICATION Spec
CHECK_DEADLOCK FALSE
INVARIANT CommitsAreAccepted
CONSTRAINT TruncatedBeforeNext
