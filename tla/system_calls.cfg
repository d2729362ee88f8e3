CONSTANTS
  Procs = {p0,p1,p2}
  Root = p0
  NoProc = NoProc
  Faults = {"system", "open", "fork", "dup2", "execv", "waitpid", "kill"}
SPECIFICATION FairSpec
INVARIANTS TypeOK FileIsClosed ChildrenAwaited
PROPERTIES RedirectedOutput ExecReturns
