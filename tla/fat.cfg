CONSTANTS
  LastCluster = 8
  U = 2
  E = 4
  Paths <- MCPaths
  Dirs <- MCDirs
  Root = "/"
  Log = "/fs.log"
  ParentOf <- MCParentOf
  Values = {"x", "e"}
  LogRecord = "log"
  ReadAs <- MCReadAs
  Stray <- MCStray
  Images <- MCImages
  MaxOps = 5
SPECIFICATION Spec
INVARIANTS FatTypeOK ChainsDisjoint
PROPERTIES KeepsData
CHECK_DEADLOCK FALSE
