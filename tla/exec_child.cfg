CONSTANTS
  Procs = {p0,p1}
  Root = p0
  NoProc = NoProc
  Faults = {"execv"}
SPECIFICATION Spec
PROPERTIES TrueMeansExecuted
