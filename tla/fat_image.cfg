CONSTANTS
  LastCluster = 8
  U = 2
  E = 4
  Paths <- MCPaths
  Dirs <- MCDirs
  Root = "/"
  Log = "/fs.log"
  ParentOf <- MCParentOf
  Values = {"x", "e"}
  LogRecord = "log"
  ReadAs <- MCReadAs
  Stray <- MCStray
  Images <- MCOneImage
  MaxOps = 5
SPECIFICATION Spec
INVARIANTS ImageMatchesTree
CHECK_DEADLOCK FALSE
