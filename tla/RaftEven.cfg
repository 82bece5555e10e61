CONSTANTS
  s1 = s1
  s2 = s2
  s3 = s3
  s4 = s4
  NoServer = NoServer
  Server = {s1, s2, s3, s4}
  Value = {v1}
  Candidacies <- OnlyS1
  Links <- StarOfS1
  MaxLogLength = 1
  MaxRestarts = 2
SPECIFICATION Spec
CHECK_DEADLOCK FALSE
INVARIANTS AcceptsCounted NewCommitsAreAccepted
SYMMETRY EitherFollower
