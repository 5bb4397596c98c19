CONSTANTS
  Procs = {"main", "ping", "pong"}
  Sems = {0, 1, 2}
  Values = {0, 1}
  rally = 3
  ForkMayFail = TRUE
SPECIFICATION PingPongSpec
INVARIANTS Alternation OnlyLastWordLate
PROPERTIES MainExits
CHECK_DEADLOCK FALSE
