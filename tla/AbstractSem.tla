---------------------------- MODULE AbstractSem ----------------------------
(***************************************************************************)
(* What the four semaphore system calls promise a user program: a call     *)
(* takes effect in one indivisible step between its start and its return,  *)
(* and every call returns, except a sem_down() that finds the value zero   *)
(* for as long as it stays zero.                                           *)
(***************************************************************************)
EXTENDS Integers

CONSTANTS Procs, Sems, Values

VARIABLES
  value,   \* semaphores[s].value
  open,    \* semaphores[s].open
  call,    \* the system call each process is in
  ret      \* what its last call returned

absVars == <<value, open, call, ret>>

Ops == {"open", "close", "up", "down"}

\* The process is in no system call.
NoCall == [op |-> "none"]

\* A pending call; sem_open() alone has a second argument.
Calls == [op : Ops \ {"open"}, sem : Sems] \union [op : {"open"}, sem : Sems, value : Values]

AbsInit ==
  /\ value = [s \in Sems |-> 0]
  /\ open = [s \in Sems |-> FALSE]
  /\ call = [p \in Procs |-> NoCall]
  /\ ret = [p \in Procs |-> 1]

Start(p) ==
  /\ call[p] = NoCall
  /\ \E k \in Calls : call' = [call EXCEPT ![p] = k]
  /\ UNCHANGED <<value, open, ret>>

Return(p, r) ==
  /\ call' = [call EXCEPT ![p] = NoCall]
  /\ ret' = [ret EXCEPT ![p] = r]

AbsOpen(p) ==
  /\ call[p].op = "open"
  /\ LET s == call[p].sem IN
       /\ value' = IF open[s] THEN value ELSE [value EXCEPT ![s] = call[p].value]
       /\ open' = [open EXCEPT ![s] = TRUE]
       /\ Return(p, IF open[s] THEN 0 ELSE 1)

AbsClose(p) ==
  /\ call[p].op = "close"
  /\ LET s == call[p].sem IN
       /\ value' = IF open[s] THEN [value EXCEPT ![s] = 0] ELSE value
       /\ open' = [open EXCEPT ![s] = FALSE]
       /\ Return(p, IF open[s] THEN 1 ELSE 0)

AbsUp(p) ==
  /\ call[p].op = "up"
  /\ value' = [value EXCEPT ![call[p].sem] = @ + 1]
  /\ Return(p, 1)
  /\ UNCHANGED open

AbsDown(p) ==
  /\ call[p].op = "down"
  /\ value[call[p].sem] # 0
  /\ value' = [value EXCEPT ![call[p].sem] = @ - 1]
  /\ Return(p, 1)
  /\ UNCHANGED open

Effect(p) == AbsOpen(p) \/ AbsClose(p) \/ AbsUp(p) \/ AbsDown(p)

AbsNext == \E p \in Procs : Start(p) \/ Effect(p)

AbsSpec == AbsInit /\ [][AbsNext]_absVars /\ \A p \in Procs : WF_absVars(Effect(p))

=============================================================================
