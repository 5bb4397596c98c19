CONSTANTS
  Procs = {p1, p2, p3}
  Boot = p1
  Nobody = nobody
  NUM = 4
  Bufs = {1, 2, 3}
  NoBuf = 0
  NoBlock = noblock
  Home = {a, b, c}
  header = header
  Blocks = {a, b, c, header, 1, 2, 3}
  Values = {0, 1}
  LOGSIZE = 4
  MAXOPBLOCKS = 2
  nlog = 4
  OpWrites = 1
  MaxCalls = 3
  MaxCrashes = 2
SPECIFICATION Spec
INVARIANTS LogTypeOK SleepersMustWait IdleIsDurable CacheCoherent OneBufferPerBlock DescriptorsAccounted
PROPERTIES CrashAtomic OnlyBgetPanics
CHECK_DEADLOCK FALSE
SYMMETRY Symmetry
