CONSTANTS
  ByteBits = 2
  PageSize = 8
  NumPhysPages = 2
  PageTable <- MCPageTable
  Contents <- MCContents
  Operands <- MCOperands
  Program <- MCProgram
  Results = {0, 200}
  MaxSteps = 2
  UserTick = 1
  SystemTick = 2
  TimerTicks = 2
  ConsoleTime = 3
  RotationTime = 2
  SeekTime = 3
  SectorsPerTrack = 3
  NumTracks = 2
  MaxTicks = 12
  Items = {0, 1, 2, 3, 4}
  InitialBuckets = 2
  ResizeRatio = 1
  IncreaseSizeBy = 2
  IntBits = 8
  MaxLine = 4
  UserBytes = 5
  MAX_LENGTH = 4
SPECIFICATION MCSpec
INVARIANTS
  CpuArithmetic
  CpuTraps
  CpuUnaligned
  ClockOrder
  ClockDisk
  ContainersRight
  CallsRight
CHECK_DEADLOCK FALSE
