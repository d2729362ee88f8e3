CONSTANTS
  N = 2
  Null = Null
  Procs = {p1,p2}
  Files = {f1}
  Blocks = {b1,b2,b3,b4,b5}
  Byte <- MCByte
  Newline = "n"
  Garbage = "?"
  NoProc = NoProc
  NoFile = NoFile
  Ops = {"read", "write"}
  Faults = {"signal", "copy", "kmalloc", "null_buf", "cdev_add"}
  UserBufs <- AllShapes
  ReadCounts = {1}
  SeekOffsets = {}
  SeekArgs = {}
  MaxLine = 2
  MaxPos = 2
  MaxLost = 1
SPECIFICATION Spec
SYMMETRY Symmetry
INVARIANTS TypeOK HeapSound ReadTargetValid CommandsAreLines
PROPERTIES ReadReturnsWindow WritesAreAtomic
