CONSTANTS
  NoChan = NoChan
  NPROC = 2
  NCPU = 2
  Sems = {s1}
  Spinlocks = {s1}
  Channels = {s1}
  Values = {0, 1}
  Killable = {1, 2}
  MaxCalls = 2
  ExclusiveOpen = TRUE
SPECIFICATION FairSpec
INVARIANTS SemTypeOK SemMutex NoSleeperLeftBehind SchedChecks
PROPERTIES Linearizable
CHECK_DEADLOCK FALSE
