CONSTANTS
  NPROC = 3
  NCPU = 2
  waitlock = waitlock
  Spinlocks = {waitlock}
  Channels = {1, 2, 3}
  NoChan = 0
  Killable = {}
  MaxPid = 3
SPECIFICATION FairSpec
PROPERTIES ZombiesReaped
