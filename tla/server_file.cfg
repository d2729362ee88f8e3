CONSTANTS
  N = 1
  Newline = "n"
  Structs = {t1,t2}
  Conns = {c1,c2}
  Packets <- Unfinished
  Null = Null
  NoConn = NoConn
  NoThread = NoThread
  NUL = "0"
  Garbage = "?"
  Command = "k"
  CommandLen = 2
  BufSize = 2
  UseDevice = FALSE
  Positions = {0}
  Stamp <- MCStamp
  MaxLog = 1
  Faults = {"stamp"}
SPECIFICATION FiniteClientsSpec
PROPERTIES SignalStopsServer WorkersFinish TimerServed AnswerIsContents
