CONSTANTS
  NPROC = 4
  NCPU = 2
  waitlock = waitlock
  Spinlocks = {waitlock}
  Channels = {1, 2, 3, 4}
  NoChan = 0
  Killable = {2}
  MaxPid = 4
SPECIFICATION Spec
INVARIANTS NoLostExit NoOrphan ProcTypeOK ForkOwnsSlot SchedChecks OneCpuPerStack
PROPERTIES ReapedByParent
