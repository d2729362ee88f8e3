CONSTANTS
  Threads = {t1,t2,t3}
  Waits = {1,2}
  Second = 2
  NoOne = NoOne
  Caller = Caller
  Dead = Dead
  Faults = {"create", "malloc", "lock", "unlock"}
SPECIFICATION FairSpec
INVARIANTS TypeOK MutexHeld SuccessIsEarned
PROPERTIES ThreadsReturn
CHECK_DEADLOCK FALSE
