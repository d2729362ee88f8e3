CONSTANTS
  N = 2
  Null = Null
  Procs = {p1}
  Files = {f1}
  Blocks = {b1,b2,b3,b4}
  Byte <- MCByte
  Newline = "n"
  Garbage = "?"
  NoProc = NoProc
  NoFile = NoFile
  Ops = {"write", "ioctl"}
  Faults = {}
  UserBufs <- Lines
  ReadCounts = {}
  SeekOffsets = {}
  SeekArgs <- MCSeekArgs
  MaxLine = 2
  MaxPos = 6
  MaxLost = 0
SPECIFICATION Spec
SYMMETRY Symmetry
PROPERTIES SeekFindsCommand
