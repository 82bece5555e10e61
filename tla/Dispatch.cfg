CONSTANTS
  NPeers = 2
  MaxMessages = 4
  MaxAppends = 2
  MaxRoles = 3
SPECIFICATION Spec
CHECK_DEADLOCK FALSE
INVARIANTS TypeOK NoPeerStarves AppendsAnswered
PROPERTIES NothingInterleaves EverythingIsHandled
