----------------------------- MODULE AtomicDisk -----------------------------
(***************************************************************************)
(* What the log promises the file system: the writes of an operation,      *)
(* between begin_op() and end_op(), reach the disk all together or not at  *)
(* all.  The disk always holds the state of some moment at which no        *)
(* operation was under way, and a crash brings that state back.            *)
(***************************************************************************)
CONSTANTS Procs, Home, Values

VARIABLES
  data,      \* the blocks as the running system sees them
  durable,   \* the blocks a crash would bring back
  active     \* the processes inside an operation

absVars == <<data, durable, active>>

AbsInit ==
  /\ durable \in [Home -> Values]
  /\ data = durable
  /\ active = {}

BeginOp(p) ==
  /\ p \notin active
  /\ active' = active \union {p}
  /\ UNCHANGED <<data, durable>>

Write(p) ==
  /\ p \in active
  /\ \E b \in Home, v \in Values : data' = [data EXCEPT ![b] = v]
  /\ UNCHANGED <<durable, active>>

EndOp(p) ==
  /\ p \in active
  /\ active' = active \ {p}
  /\ UNCHANGED <<data, durable>>

\* The commit of everything written so far, at a moment without operations.
Commit ==
  /\ active = {}
  /\ durable' = data
  /\ UNCHANGED <<data, active>>

Crash ==
  /\ data' = durable
  /\ active' = {}
  /\ UNCHANGED durable

AbsNext ==
  \/ \E p \in Procs : BeginOp(p) \/ Write(p) \/ EndOp(p)
  \/ Commit
  \/ Crash

AbsSpec == AbsInit /\ [][AbsNext]_absVars

=============================================================================
