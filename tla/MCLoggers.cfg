SPECIFICATION AllSpec
CONSTANTS
  Printers = {p1, p2}
  Flusher = f
  NoFd = NoFd
  SegWord = 3
  MaxLines = 2
  Loggers = {l1, l2}
  Handler = h
  Nobody = Nobody
  LineSize = 3
  ColorEnd = 1
  HeadLens = {1}
  BodyLens = {1, 3}
  Tags = {x, y}
  Levels = {1, 2}
  All = 2
  Slots = 1
  Dumps <- MCDumps
  DumpWord = 8
  ElogMaxOps = 3
  OutSize = 3
  OutLens = {0, 1, 2, 7}
  OutMax = 9
  Rotates = {1, 2}
  FileMax = 1
  Absent = Absent
  FileMaxLines = 7
  FileMaxCrashes = 1
  Writers = {w1, w2}
  Word = 2
  FlashSize = 4
  Chunk = 4
  FlashLens = {3, 6}
  FlashMax = 6
INVARIANTS LogKeepsLines OutputIsWhole LockFreedAfterFault TagLevelHolds BufKeepsOrder
           FilesKeepTheLast FlashReadsBack
CHECK_DEADLOCK FALSE
SYMMETRY MCSymmetry
