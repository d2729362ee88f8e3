CONSTANTS
  N = 3
  Newline = "n"
  Structs = {t1,t2}
  Conns = {c1,c2}
  Packets <- MCPackets
  Null = Null
  NoConn = NoConn
  NoThread = NoThread
  NUL = "0"
  Garbage = "?"
  Command = "k"
  CommandLen = 2
  BufSize = 4
  UseDevice = TRUE
  Positions = {0,1,3}
  Stamp <- MCStamp
  MaxLog = 0
  Faults = {"startup", "accept", "create", "recv", "stray_newline", "vanish", "fopen"}
SPECIFICATION Spec
SYMMETRY Symmetry
PROPERTIES AnswerIsContents
