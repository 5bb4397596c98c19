----------------------------- MODULE Semaphores -----------------------------
(***************************************************************************)
(* The semaphore system calls of LAB2 (kernel/sysproc.c): sem_open(),      *)
(* sem_close(), sem_up() and sem_down() over an array of semaphores, each  *)
(* guarded by its own spinlock and used as the channel its waiters sleep   *)
(* on.  Every process runs an arbitrary program of at most MaxCalls calls  *)
(* on the scheduler, locks and sleep/wakeup of Kernel, may be preempted    *)
(* wherever interrupts are on, and may be killed at any time.              *)
(***************************************************************************)
EXTENDS Kernel

CONSTANTS
  Sems,           \* the semaphores
  Values,         \* the initial values programs pass to sem_open()
  MaxCalls,       \* bound: how many system calls a process makes
  Killable,       \* the processes somebody may kill
  ExclusiveOpen   \* do programs open a semaphore only while nobody uses it?

ASSUME SemAssumption ==
  /\ Spinlocks = Sems
  /\ Channels = Sems
  /\ Values \subseteq Nat
  /\ MaxCalls \in Nat
  /\ Killable \subseteq Procs
  /\ ExclusiveOpen \in BOOLEAN

VARIABLES
  value,    \* semaphores[s].value
  open,     \* semaphores[s].open
  call,     \* the system call each process is in, with its arguments
  ret,      \* what its last call returned
  pc,       \* where in the call it is
  widx,     \* the slot wakeup()'s loop visits next
  ncalls    \* how many calls it has made

semVars == <<value, open, call, ret, pc, widx, ncalls>>
vars == <<kernelVars, semVars>>

Abs == INSTANCE AbstractSem

PcLabels == {"user", "init", "acq", "body", "wake", "inc",
             "sleep", "sleep_rel", "sleep_sw", "panic"}

SemTypeOK ==
  /\ KernelTypeOK
  /\ value \in [Sems -> Nat]
  /\ open \in [Sems -> BOOLEAN]
  /\ call \in [Procs -> Abs!Calls \union {Abs!NoCall}]
  /\ ret \in [Procs -> {0, 1}]
  /\ pc \in [Procs -> PcLabels]
  /\ widx \in [Procs -> Procs]
  /\ ncalls \in [Procs -> 0..MaxCalls]

\* Every process has been forked and none has run yet; the array is zeroed.
Init ==
  /\ state = [p \in Procs |-> "RUNNABLE"]
  /\ chan = [p \in Procs |-> NoChan]
  /\ killed = [p \in Procs |-> FALSE]
  /\ plock = [p \in Procs |-> NoCpu]
  /\ spin = [l \in Spinlocks |-> NoCpu]
  /\ curr = [c \in Cpus |-> NoProc]
  /\ insched = [p \in Procs |-> TRUE]
  /\ value = [s \in Sems |-> 0]
  /\ open = [s \in Sems |-> FALSE]
  /\ call = [p \in Procs |-> Abs!NoCall]
  /\ ret = [p \in Procs |-> 1]
  /\ pc = [p \in Procs |-> "user"]
  /\ widx = [p \in Procs |-> 1]
  /\ ncalls = [p \in Procs |-> 0]

-----------------------------------------------------------------------------
(* Entering and leaving a system call. *)

At(c, p, label) == Running(c, p) /\ pc[p] = label

Goto(p, label) == pc' = [pc EXCEPT ![p] = label]

\* An assumption on the programs: nobody opens a semaphore while another process is
\* inside a call on it, and nobody enters a call while another opens it.  Nothing in
\* the kernel enforces it.
MayCall(p, k) ==
  \A q \in Procs \ {p} :
    call[q] # Abs!NoCall /\ call[q].sem = k.sem => "open" \notin {k.op, call[q].op}

\* usertrap(), syscall(), argint(): a process that is not killed enters a call.
Call(c, p) ==
  /\ At(c, p, "user")
  /\ ~killed[p]
  /\ ncalls[p] < MaxCalls
  /\ \E k \in Abs!Calls :
       /\ ExclusiveOpen => MayCall(p, k)
       /\ call' = [call EXCEPT ![p] = k]
       /\ Goto(p, IF k.op = "open" THEN "init" ELSE "acq")
  /\ ncalls' = [ncalls EXCEPT ![p] = @ + 1]
  /\ UNCHANGED <<kernelVars, value, open, ret, widx>>

\* release(&semaphores[s].lock), which panics when the CPU does not hold it,
\* then the system call returns r.
ReleaseAndReturn(c, p, r) ==
  /\ spin' = IF spin[call[p].sem] = c THEN [spin EXCEPT ![call[p].sem] = NoCpu] ELSE spin
  /\ Goto(p, IF spin[call[p].sem] = c THEN "user" ELSE "panic")
  /\ call' = [call EXCEPT ![p] = Abs!NoCall]
  /\ ret' = [ret EXCEPT ![p] = r]
  /\ UNCHANGED <<state, chan, killed, plock, curr, insched, widx, ncalls>>

\* acquire(&semaphores[s].lock): at the start of every call, and again at the
\* end of sleep().
Acquire(c, p) ==
  /\ At(c, p, "acq")
  /\ LockSpin(c, call[p].sem)
  /\ Goto(p, "body")
  /\ UNCHANGED <<state, chan, killed, plock, curr, insched>>
  /\ UNCHANGED <<value, open, call, ret, widx, ncalls>>

-----------------------------------------------------------------------------
(* The four system calls. *)

\* sys_sem_open(): initlock() frees the lock, whoever holds it.
OpenInitlock(c, p) ==
  /\ At(c, p, "init")
  /\ Release(call[p].sem)
  /\ Goto(p, "acq")
  /\ UNCHANGED <<state, chan, killed, plock, curr, insched>>
  /\ UNCHANGED <<value, open, call, ret, widx, ncalls>>

\* sys_sem_open(), with the lock held.
OpenBody(c, p) ==
  /\ At(c, p, "body") /\ call[p].op = "open"
  /\ LET s == call[p].sem IN
       /\ value' = IF open[s] THEN value ELSE [value EXCEPT ![s] = call[p].value]
       /\ open' = [open EXCEPT ![s] = TRUE]
       /\ ReleaseAndReturn(c, p, IF open[s] THEN 0 ELSE 1)

\* sys_sem_close(), with the lock held.
CloseBody(c, p) ==
  /\ At(c, p, "body") /\ call[p].op = "close"
  /\ LET s == call[p].sem IN
       /\ value' = IF open[s] THEN [value EXCEPT ![s] = 0] ELSE value
       /\ open' = [open EXCEPT ![s] = FALSE]
       /\ ReleaseAndReturn(c, p, IF open[s] THEN 1 ELSE 0)

\* (mutant of UpBody: wakes when the value is not zero)
UpBodyWrongTest(c, p) ==
  /\ At(c, p, "body") /\ call[p].op = "up"
  /\ Goto(p, IF value[call[p].sem] # 0 THEN "wake" ELSE "inc")
  /\ UNCHANGED <<kernelVars, value, open, call, ret, widx, ncalls>>

\* sys_sem_up(), with the lock held: wake the waiters only if the value is zero.
UpBody(c, p) ==
  /\ At(c, p, "body") /\ call[p].op = "up"
  /\ Goto(p, IF value[call[p].sem] = 0 THEN "wake" ELSE "inc")
  /\ UNCHANGED <<kernelVars, value, open, call, ret, widx, ncalls>>

\* One turn of wakeup(&semaphores[s])'s loop over the process table.
UpWakeup(c, p) ==
  /\ At(c, p, "wake")
  /\ WakeupVisit(p, widx[p], call[p].sem)
  /\ widx' = [widx EXCEPT ![p] = IF @ = NPROC THEN 1 ELSE @ + 1]
  /\ Goto(p, IF widx[p] = NPROC THEN "inc" ELSE "wake")
  /\ UNCHANGED <<value, open, call, ret, ncalls>>

\* sys_sem_up(): the increment and the return.
UpInc(c, p) ==
  /\ At(c, p, "inc")
  /\ value' = [value EXCEPT ![call[p].sem] = @ + 1]
  /\ ReleaseAndReturn(c, p, 1)
  /\ UNCHANGED open

\* (mutant of DownTake: takes without testing the value again)
DownTakeUntested(c, p) ==
  /\ At(c, p, "body") /\ call[p].op = "down"
  /\ value' = [value EXCEPT ![call[p].sem] = @ - 1]
  /\ ReleaseAndReturn(c, p, 1)
  /\ UNCHANGED open

\* sys_sem_down(), the while condition fails: take one unit and return.
DownTake(c, p) ==
  /\ At(c, p, "body") /\ call[p].op = "down"
  /\ value[call[p].sem] # 0
  /\ value' = [value EXCEPT ![call[p].sem] = @ - 1]
  /\ ReleaseAndReturn(c, p, 1)
  /\ UNCHANGED open

\* sys_sem_down(), the while condition holds: call sleep().
DownWait(c, p) ==
  /\ At(c, p, "body") /\ call[p].op = "down"
  /\ value[call[p].sem] = 0
  /\ Goto(p, "sleep")
  /\ UNCHANGED <<kernelVars, value, open, call, ret, widx, ncalls>>

\* sleep(): acquire(&p->lock).
DownSleepLock(c, p) ==
  /\ At(c, p, "sleep")
  /\ SleepLock(c, p)
  /\ Goto(p, "sleep_rel")
  /\ UNCHANGED <<value, open, call, ret, widx, ncalls>>

\* sleep(): release(lk), which panics when the CPU does not hold it.
DownSleepRelease(c, p) ==
  /\ At(c, p, "sleep_rel")
  /\ spin' = IF spin[call[p].sem] = c THEN [spin EXCEPT ![call[p].sem] = NoCpu] ELSE spin
  /\ Goto(p, IF spin[call[p].sem] = c THEN "sleep_sw" ELSE "panic")
  /\ UNCHANGED <<state, chan, killed, plock, curr, insched>>
  /\ UNCHANGED <<value, open, call, ret, widx, ncalls>>

\* (mutant of DownSleepSwitch: does not reacquire the lock after waking up)
DownSleepNoReacquire(c, p) ==
  /\ At(c, p, "sleep_sw")
  /\ SleepSwitch(p, call[p].sem)
  /\ Goto(p, "body")
  /\ UNCHANGED <<value, open, call, ret, widx, ncalls>>

\* sleep(): leave the CPU; when it runs again it reacquires the semaphore's lock.
DownSleepSwitch(c, p) ==
  /\ At(c, p, "sleep_sw")
  /\ SleepSwitch(p, call[p].sem)
  /\ Goto(p, "acq")
  /\ UNCHANGED <<value, open, call, ret, widx, ncalls>>

-----------------------------------------------------------------------------
(* The rest of the system, as far as it touches the processes. *)

\* exit(), by choice or from usertrap() because the process was killed.
Exit(c, p) ==
  /\ At(c, p, "user")
  /\ LockProc(c, p)
  /\ state' = [state EXCEPT ![p] = "ZOMBIE"]
  /\ insched' = [insched EXCEPT ![p] = TRUE]
  /\ UNCHANGED <<chan, killed, spin, curr, semVars>>

\* Somebody calls kill() on p; each process is killed at most once (a bound).
Kill(p) ==
  /\ p \in Killable
  /\ ~killed[p]
  /\ KillVisit(p)
  /\ UNCHANGED semVars

\* p waits in acquire(), which turns interrupts off before it spins.
Spinning(p) == pc[p] = "acq" /\ spin[call[p].sem] # NoCpu

\* A CPU that has panicked never takes another interrupt.
Preempt(c, p) ==
  /\ ~Spinning(p)
  /\ pc[p] # "panic"
  /\ Yield(c, p)
  /\ UNCHANGED semVars

Dispatch(c, p) == Schedule(c, p) /\ UNCHANGED semVars
SwitchIn(c, p) == Resume(c, p) /\ UNCHANGED semVars
SwitchOut(c, p) == SchedOut(c, p) /\ UNCHANGED semVars

\* The steps a process takes inside a system call.
Step(c, p) ==
  \/ Acquire(c, p)
  \/ OpenInitlock(c, p) \/ OpenBody(c, p)
  \/ CloseBody(c, p)
  \/ UpBody(c, p) \/ UpWakeup(c, p) \/ UpInc(c, p)
  \/ DownTake(c, p) \/ DownWait(c, p)
  \/ DownSleepLock(c, p) \/ DownSleepRelease(c, p) \/ DownSleepSwitch(c, p)

Next ==
  \/ \E c \in Cpus, p \in Procs :
       \/ Call(c, p) \/ Step(c, p) \/ Exit(c, p)
       \/ Preempt(c, p) \/ Dispatch(c, p) \/ SwitchIn(c, p) \/ SwitchOut(c, p)
  \/ \E p \in Procs : Kill(p)

Spec == Init /\ [][Next]_vars

\* The scheduler's scan reaches every RUNNABLE process, a CPU in the kernel
\* keeps executing, the timer interrupts whoever runs with interrupts on, and a
\* process that is dispatched again and again while its next step is possible
\* gets to take it before its quantum ends.
Fairness ==
  \A p \in Procs :
    /\ SF_vars(\E c \in Cpus : Step(c, p))
    /\ SF_vars(\E c \in Cpus : Dispatch(c, p))
    /\ WF_vars(\E c \in Cpus : SwitchIn(c, p) \/ SwitchOut(c, p) \/ Preempt(c, p))

FairSpec == Spec /\ Fairness

-----------------------------------------------------------------------------
(* Properties. *)

\* p is between acquire() and release() of the lock of semaphore s.
InCriticalSection(p, s) ==
  /\ pc[p] \in {"body", "wake", "inc", "sleep", "sleep_rel"}
  /\ call[p].sem = s

\* The lock of a semaphore does what it is there for: no two processes are
\* between its acquire() and its release() (sysproc.c: "cierro el lock para que
\* no entren dos o mas procesos").
SemMutex ==
  \A s \in Sems : \A p, q \in Procs :
    InCriticalSection(p, s) /\ InCriticalSection(q, s) => p = q

\* No lost wakeup: when the lock of a semaphore is free and its value is not
\* zero, no process sleeps on it, although sem_up() wakes only when it finds
\* zero, wakes before it increments, and sleep() gives up the lock before the
\* sleeper is SLEEPING.
NoSleeperLeftBehind ==
  \A s \in Sems :
    spin[s] = NoCpu /\ value[s] # 0 =>
      ~ \E p \in Procs : state[p] = "SLEEPING" /\ chan[p] = s

\* Every call takes effect once and at once, and every call but a sem_down() on
\* value zero returns, although the victims of kill() wake up spuriously.
Linearizable == Abs!AbsSpec

=============================================================================
