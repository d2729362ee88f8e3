CONSTANTS
  N = 2
  Newline = "n"
  Structs = {t1,t2,t3}
  Conns = {c1,c2,c3}
  Packets <- OneLine
  Null = Null
  NoConn = NoConn
  NoThread = NoThread
  NUL = "0"
  Garbage = "?"
  Command = "k"
  CommandLen = 2
  BufSize = 4
  UseDevice = TRUE
  Positions = {0}
  Stamp <- MCStamp
  MaxLog = 0
  Faults = {"startup", "accept", "create", "mutex_lock"}
SPECIFICATION Spec
SYMMETRY Symmetry
INVARIANTS TypeOK ListSound ExitIsClean
