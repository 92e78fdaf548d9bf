SPECIFICATION MCSpec
CONSTANTS
  Threads = {t1, t2, t3, t4}
  ListThreads = {t1, t2, t3}
  Items = {x, y, z}
  NULL = NULL
INVARIANTS
  MonitorKept
  NoForgottenWaiter
PROPERTIES
  SignalWakes
  FifoPromise
  CallsReturn
CHECK_DEADLOCK FALSE
