CONSTANTS
  Procs = {main, s1, s2}
  Names = {voinuoc, n2, n3}
  MAX_SEMAPHORE = 2
  InitialValues <- MCInitialValues
  MaxValue = 1
  MinValue <- MCMinValue
  NULL = NULL
  FileSlots = 4
  FileNames = {input, output}
  StdIn = stdin
  StdOut = stdout
  Bytes <- MCBytes
  Hole = hole
  NoFile = NoFile
  AnyBytes <- MCAnyBytes
  MaxBytes = 2
  Parent = main
  Students = {s1, s2}
  Volume = 3
  Tap = voinuoc
  Input = input
  Output = output
  Space = space
  NewLine = newline
  PageSize = 2
  NumPhysPages = 4
  NumFrames = 8
  BitsInWord = 3
  UserStackSize = 1
  HeaderSize = 2
  Layouts <- MCLayouts
  Main = main
  Children = {s1, s2}
SPECIFICATION MCDisplaySpec
INVARIANT DisplayWritable
CHECK_DEADLOCK FALSE
