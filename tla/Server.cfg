CONSTANTS
  Listener = {l1, l2}
  MaxCalls = 3
  Event = "Follower"
  MaxAttempts = 2
  MaxChanges = 2
  MaxRestores = 1
SPECIFICATION Spec
CHECK_DEADLOCK FALSE
INVARIANTS TypeOK TransportsDestroyedOnce HeardInRole FiresOnce ListenersStay
PROPERTIES LivesAsPromised RemovedIsSilent JoinsSettle CloseSettles
