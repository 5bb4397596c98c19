CONSTANTS
  Pids <- MCPids
  First = 1
  InitProc = 0
  Tty <- MCTty
  File <- MCFile
  NULL = "null"
  Inputs <- MCInputs
SPECIFICATION Spec
INVARIANTS ShellTypeOK EndsClosed ChildrenReaped
PROPERTIES PromptReturns
CHECK_DEADLOCK FALSE
