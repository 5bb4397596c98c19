CONSTANTS
  NoChan = NoChan
  NPROC = 2
  NCPU = 2
  Sems = {s1}
  Spinlocks = {s1}
  Channels = {s1}
  Values = {1}
  Killable = {1, 2}
  MaxCalls = 1
  ExclusiveOpen = FALSE
SPECIFICATION Spec
INVARIANTS SemMutex
CHECK_DEADLOCK FALSE
