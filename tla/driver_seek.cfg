CONSTANTS
  N = 2
  Null = Null
  Procs = {p1,p2}
  Files = {f1}
  Blocks = {b1,b2,b3,b4}
  Byte <- MCByte
  Newline = "n"
  Garbage = "?"
  NoProc = NoProc
  NoFile = NoFile
  Ops = {"write", "llseek", "ioctl"}
  Faults = {"signal"}
  UserBufs <- PartOrEnd
  ReadCounts = {}
  SeekOffsets <- MCSeekOffsets
  SeekArgs <- MCSeekArgs
  MaxLine = 2
  MaxPos = 2
  MaxLost = 0
SPECIFICATION Spec
SYMMETRY Symmetry
INVARIANTS IInv
PROPERTIES LlseekInRange IoctlSeeksBeforeWrap
