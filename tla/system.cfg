CONSTANTS
  N = 1
  Newline = "n"
  Null = Null
  Garbage = "?"
  Structs = {t1,t2}
  Conns = {c1,c2}
  Packets <- LineOrSeek
  NoConn = NoConn
  NoThread = NoThread
  NUL = "0"
  Command = "k"
  CommandLen = 2
  BufSize = 3
  Positions = {0,1,2}
  MaxLog = 0
  Faults = {}
  Blocks = {b1,b2,b3}
  Byte <- MCByte
  NoFile = NoFile
  SeekArgs <- MCSeekArgs
  ReadCount = 8
  MaxLine = 8
SPECIFICATION Spec
SYMMETRY Symmetry
INVARIANTS FilesClosed
PROPERTIES ImplementsServer
