SPECIFICATION FairSpec
CONSTANTS
  MainThread = main
  Threads = {main, t1, t2}
  mutex = mutex
  Semaphores = {mutex}
  DeviceSems = {mutex}
  InitialValue <- MCInitialValue
  MaxValue = 2
  NULL = NULL
INVARIANTS
  ThreadPlacement
  NoLostWakeup
  CarcassCollected
  UserRegistersKept
  MachineStatusRight
PROPERTIES
  SemaphorePromise
  ReadyRuns
