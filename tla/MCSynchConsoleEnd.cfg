SPECIFICATION FairSpec
CONSTANTS
  Threads = {t1, t2}
  Chars = {a}
  EOF = EOF
  MaxTyped = 2
  MaxShown = 2
  NULL = NULL
PROPERTY ReadsEnd
CHECK_DEADLOCK FALSE
