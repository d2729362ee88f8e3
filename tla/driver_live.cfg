CONSTANTS
  N = 1
  Null = Null
  Procs = {p1,p2}
  Files = {f1}
  Blocks = {b1,b2,b3}
  Byte <- MCByte
  Newline = "n"
  Garbage = "?"
  NoProc = NoProc
  NoFile = NoFile
  Ops = {"read", "write", "llseek", "ioctl"}
  Faults = {"copy", "bad_cmd", "krealloc"}
  UserBufs <- PartOrEnd
  ReadCounts = {1}
  SeekOffsets = {0}
  SeekArgs <- PastTheRing
  MaxLine = 1
  MaxPos = 1
  MaxLost = 1
SPECIFICATION FairSpec
INVARIANTS IInv EntriesHoldWrittenBytes
PROPERTIES CallsReturn
