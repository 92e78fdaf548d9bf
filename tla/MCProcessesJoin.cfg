SPECIFICATION FairSpec
CONSTANTS
  NumSlots = 3
  MainIDs = {0}
  MaxNumWait = 2
  Disciplined = TRUE
  NULL = NULL
INVARIANT ChildrenKept
PROPERTY JoinCompletes
CHECK_DEADLOCK FALSE
