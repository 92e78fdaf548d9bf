SPECIFICATION Spec
CONSTANTS
  NumSlots = 3
  MainIDs = {0, 7}
  MaxNumWait = 2
  Disciplined = FALSE
  NULL = NULL
INVARIANTS
  SlotsAgree
  JoinAfterExit
CHECK_DEADLOCK FALSE
