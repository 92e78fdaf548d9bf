SPECIFICATION MCSpec
CONSTANTS
  m1 = m1
  Machines = {m1, m2}
  Clients = {c1, c2}
  Boxes = {0, 1}
  Messages = {d1, d2}
  Box0 = 0
  Box1 = 1
  Hello = d1
  Ack = d2
  ConsoleUsers = {t1, t2}
  Chars = {a, b}
  EOF = EOF
  MaxTyped = 3
  MaxShown = 2
  NULL = NULL
  Nobody = Nobody
INVARIANTS
  MailInOrder
  SendExclusive
  AckMeansReceived
  ConsoleKept
PROPERTIES
  PostArrives
  ConsoleMoves
CHECK_DEADLOCK FALSE
