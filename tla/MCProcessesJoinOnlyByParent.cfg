SPECIFICATION Spec
CONSTANTS
  NumSlots = 3
  MainIDs = {0}
  MaxNumWait = 2
  Disciplined = FALSE
  NULL = NULL
INVARIANT JoinOnlyByParent
CHECK_DEADLOCK FALSE
