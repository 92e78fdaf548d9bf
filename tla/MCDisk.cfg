SPECIFICATION MCSpec
CONSTANTS
  Threads = {t1, t2, t3}
  Sectors = {s1, s2}
  Data = {zero, one}
  InitialData = zero
  NULL = NULL
  NumSectors = 11
  SectorSize = 2
  NumDirEntries = 2
  TransferSize = 3
  Straddle = 1
  FsNames = {f1, f2, f3}
  Contents <- MCContents
  Blank = blank
  Junk = junk
  a = a
  b = b
INVARIANTS
  DiskIdleAtRequest
  FilesIntact
  FilesMapped
PROPERTIES
  AtomicPromise
  CallsReturn
