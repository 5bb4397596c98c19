CONSTANTS
  Inums = {1, 2, 3, 4, 5, 6, 7, 8, 9, 10, 11, 12}
  Root = 1
  NINODE = 7
  NBLOCK = 18
  MAXFILE = 4
  Procs = {1, 2, 3, 4, 5}
  Nobody = 0
  PIPESIZE = 2
  UintLimit = 4
  NULL = NULL
  Files = {1, 2, 3, 4, 5, 6, 7}
  Fds = {0, 1, 2, 3, 4, 5}
  Pipes = {1, 2, 3, 4, 5, 6}
  MaxWrite = 1
  NPAGES = 60
  PGSIZE = 8
  PTES = 16
  MAXPATH = 8
  Elf = {"echo", "cat", "rm", "mkdir", "ln"}
  Main <- MCMain
  Programs <- DotDots
SPECIFICATION Spec
INVARIANT InodesAllocated
CHECK_DEADLOCK FALSE
