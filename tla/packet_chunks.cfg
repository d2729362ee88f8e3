CONSTANTS
  N = 1
  Newline = "n"
  Structs = {t1}
  Conns = {c1}
  Packets <- MCPackets
  Null = Null
  NoConn = NoConn
  NoThread = NoThread
  NUL = "0"
  Garbage = "?"
  Command = "k"
  CommandLen = 2
  BufSize = 4
  UseDevice = TRUE
  Positions = {0}
  Stamp <- MCStamp
  MaxLog = 0
  Faults = {}
SPECIFICATION Spec
INVARIANTS PacketIsWhole
