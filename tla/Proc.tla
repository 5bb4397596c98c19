-------------------------------- MODULE Proc --------------------------------
(***************************************************************************)
(* The life cycle of processes (LAB3 kernel/proc.c): fork(), exit(),       *)
(* wait() and kill() over the process table, with the parent links that    *)
(* wait_lock guards, on the scheduler, locks and sleep/wakeup of Kernel.   *)
(*                                                                         *)
(* Slot 1 is initproc.  Programs are arbitrary, except that init never     *)
(* exits and is never killed.                                              *)
(***************************************************************************)
EXTENDS Kernel, FiniteSets

CONSTANTS
  waitlock,  \* wait_lock
  Killable,  \* the processes somebody may kill; never init
  MaxPid     \* bound: no fork() starts that could hand out a larger pid

ASSUME ProcAssumption ==
  /\ Spinlocks = {waitlock}
  /\ Channels = Procs
  /\ Killable \subseteq Procs \ {1}
  /\ MaxPid \in Nat \ {0}

VARIABLES
  parent,    \* p->parent
  nextpid,   \* nextpid
  pc,        \* where in a system call each process is
  idx,       \* the loop over the process table it is in
  widx,      \* the loop of the wakeup() it is in
  np,        \* fork(): the slot being filled in
  havekids   \* wait(): has the scan met a child?

procVars == <<parent, nextpid, pc, idx, widx, np, havekids>>
vars == <<kernelVars, procVars>>

initproc == 1

PcLabels == {"user", "alloc", "fork_fill", "fork_parent", "fork_run",
             "exit_acq", "reparent", "reparent_wake", "exit_wake", "exit_lock", "exit_zombie",
             "wait_acq", "wait_scan", "wait_check", "wait_sleep", "wait_rel", "wait_sw"}

ProcTypeOK ==
  /\ KernelTypeOK
  /\ parent \in [Procs -> Procs \union {NoProc}]
  /\ nextpid \in 1..(MaxPid + 1)
  /\ pc \in [Procs -> PcLabels]
  /\ idx \in [Procs -> Procs]
  /\ widx \in [Procs -> Procs]
  /\ np \in [Procs -> Procs \union {NoProc}]
  /\ havekids \in [Procs -> BOOLEAN]

\* userinit() has made the first process; the rest of the table is free.
Init ==
  /\ state = [p \in Procs |-> IF p = initproc THEN "RUNNABLE" ELSE "UNUSED"]
  /\ chan = [p \in Procs |-> NoChan]
  /\ killed = [p \in Procs |-> FALSE]
  /\ plock = [p \in Procs |-> NoCpu]
  /\ spin = [l \in Spinlocks |-> NoCpu]
  /\ curr = [c \in Cpus |-> NoProc]
  /\ insched = [p \in Procs |-> p = initproc]
  /\ parent = [p \in Procs |-> NoProc]
  /\ nextpid = 2
  /\ pc = [p \in Procs |-> "user"]
  /\ idx = [p \in Procs |-> 1]
  /\ widx = [p \in Procs |-> 1]
  /\ np = [p \in Procs |-> NoProc]
  /\ havekids = [p \in Procs |-> FALSE]

At(c, p, label) == Running(c, p) /\ pc[p] = label

Goto(p, label) == pc' = [pc EXCEPT ![p] = label]

\* (mutant of Advance: runs one slot past the table)
AdvanceTooFar(index, p, loop, after) ==
  /\ index' = [index EXCEPT ![p] = IF @ > NPROC THEN 1 ELSE @ + 1]
  /\ Goto(p, IF index[p] > NPROC THEN after ELSE loop)

\* Advance a loop over the process table: stay at label `loop', or leave for
\* `after' with the index reset.
Advance(index, p, loop, after) ==
  /\ index' = [index EXCEPT ![p] = IF @ = NPROC THEN 1 ELSE @ + 1]
  /\ Goto(p, IF index[p] = NPROC THEN after ELSE loop)

\* usertrap() lets a process start a system call only if it is not killed.
InUserMode(c, p) == At(c, p, "user") /\ ~killed[p]

-----------------------------------------------------------------------------
(* fork() *)

ForkCall(c, p) ==
  /\ InUserMode(c, p)
  /\ nextpid + Cardinality({q \in Procs : pc[q] = "alloc"}) <= MaxPid
  /\ Goto(p, "alloc")
  /\ UNCHANGED <<kernelVars, parent, nextpid, idx, widx, np, havekids>>

\* allocproc(): the slot is in use, go on; past the last one fork() returns -1.
AllocSkip(c, p) ==
  /\ At(c, p, "alloc")
  /\ plock[idx[p]] = NoCpu
  /\ state[idx[p]] # "UNUSED"
  /\ Advance(idx, p, "alloc", "user")
  /\ UNCHANGED <<kernelVars, parent, nextpid, widx, np, havekids>>

\* (mutant of AllocFound: forgets p->state = USED)
AllocFoundNotUsed(c, p) ==
  /\ At(c, p, "alloc")
  /\ state[idx[p]] = "UNUSED"
  /\ LockProc(c, idx[p])
  /\ insched' = [insched EXCEPT ![idx[p]] = TRUE]
  /\ nextpid' = nextpid + 1
  /\ np' = [np EXCEPT ![p] = idx[p]]
  /\ idx' = [idx EXCEPT ![p] = 1]
  /\ Goto(p, "fork_fill")
  /\ UNCHANGED <<state, chan, killed, spin, curr, parent, widx, havekids>>

\* allocproc(): the slot is free; keep its lock, give it a pid, and make it
\* start in forkret().
AllocFound(c, p) ==
  /\ At(c, p, "alloc")
  /\ state[idx[p]] = "UNUSED"
  /\ LockProc(c, idx[p])
  /\ state' = [state EXCEPT ![idx[p]] = "USED"]
  /\ insched' = [insched EXCEPT ![idx[p]] = TRUE]
  /\ nextpid' = nextpid + 1
  /\ np' = [np EXCEPT ![p] = idx[p]]
  /\ idx' = [idx EXCEPT ![p] = 1]
  /\ Goto(p, "fork_fill")
  /\ UNCHANGED <<chan, killed, spin, curr, parent, widx, havekids>>

\* freeproc(q), except for p->state.
FreeFields(q) ==
  /\ parent' = [parent EXCEPT ![q] = NoProc]
  /\ chan' = [chan EXCEPT ![q] = NoChan]
  /\ killed' = [killed EXCEPT ![q] = FALSE]
  /\ state' = [state EXCEPT ![q] = "UNUSED"]
  /\ insched' = [insched EXCEPT ![q] = FALSE]

\* No memory for the trapframe, the page table or the copy of the parent's
\* pages: freeproc(np), release(&np->lock), return -1.
ForkNoMemory(c, p) ==
  /\ At(c, p, "fork_fill")
  /\ FreeFields(np[p])
  /\ plock' = [plock EXCEPT ![np[p]] = NoCpu]
  /\ np' = [np EXCEPT ![p] = NoProc]
  /\ Goto(p, "user")
  /\ UNCHANGED <<spin, curr, nextpid, idx, widx, havekids>>

\* The copy is done: release(&np->lock).
ForkFill(c, p) ==
  /\ At(c, p, "fork_fill")
  /\ plock' = [plock EXCEPT ![np[p]] = NoCpu]
  /\ Goto(p, "fork_parent")
  /\ UNCHANGED <<state, chan, killed, spin, curr, insched>>
  /\ UNCHANGED <<parent, nextpid, idx, widx, np, havekids>>

\* Under wait_lock: np->parent = p.
ForkSetParent(c, p) ==
  /\ At(c, p, "fork_parent")
  /\ spin[waitlock] = NoCpu
  /\ parent' = [parent EXCEPT ![np[p]] = p]
  /\ Goto(p, "fork_run")
  /\ UNCHANGED <<kernelVars, nextpid, idx, widx, np, havekids>>

\* Under np->lock: np->state = RUNNABLE; fork() returns.
ForkMakeRunnable(c, p) ==
  /\ At(c, p, "fork_run")
  /\ plock[np[p]] = NoCpu
  /\ state' = [state EXCEPT ![np[p]] = "RUNNABLE"]
  /\ np' = [np EXCEPT ![p] = NoProc]
  /\ Goto(p, "user")
  /\ UNCHANGED <<chan, killed, plock, spin, curr, insched>>
  /\ UNCHANGED <<parent, nextpid, idx, widx, havekids>>

-----------------------------------------------------------------------------
(* exit() *)

\* A process exits when it likes, or from usertrap() once it is killed.
ExitCall(c, p) ==
  /\ At(c, p, "user")
  /\ p # initproc
  /\ Goto(p, "exit_acq")
  /\ UNCHANGED <<kernelVars, parent, nextpid, idx, widx, np, havekids>>

ExitAcquire(c, p) ==
  /\ At(c, p, "exit_acq")
  /\ LockSpin(c, waitlock)
  /\ Goto(p, "reparent")
  /\ UNCHANGED <<state, chan, killed, plock, curr, insched>>
  /\ UNCHANGED <<parent, nextpid, idx, widx, np, havekids>>

\* (mutant of ReparentSkip: stops at the first slot that is not a child)
ReparentStops(c, p) ==
  /\ At(c, p, "reparent")
  /\ parent[idx[p]] # p
  /\ idx' = [idx EXCEPT ![p] = 1]
  /\ Goto(p, "exit_wake")
  /\ UNCHANGED <<kernelVars, parent, nextpid, widx, np, havekids>>

\* reparent(): the slot is not a child of p.
ReparentSkip(c, p) ==
  /\ At(c, p, "reparent")
  /\ parent[idx[p]] # p
  /\ Advance(idx, p, "reparent", "exit_wake")
  /\ UNCHANGED <<kernelVars, parent, nextpid, widx, np, havekids>>

\* (mutant of ReparentChild: does not wake init)
ReparentChildSilently(c, p) ==
  /\ At(c, p, "reparent")
  /\ parent[idx[p]] = p
  /\ parent' = [parent EXCEPT ![idx[p]] = initproc]
  /\ Advance(idx, p, "reparent", "exit_wake")
  /\ UNCHANGED <<kernelVars, nextpid, widx, np, havekids>>

\* reparent(): hand the child to init and call wakeup(initproc).
ReparentChild(c, p) ==
  /\ At(c, p, "reparent")
  /\ parent[idx[p]] = p
  /\ parent' = [parent EXCEPT ![idx[p]] = initproc]
  /\ Goto(p, "reparent_wake")
  /\ UNCHANGED <<kernelVars, nextpid, idx, widx, np, havekids>>

\* The loop of wakeup(initproc), and at its end the next turn of reparent()'s.
ReparentWakeup(c, p) ==
  /\ At(c, p, "reparent_wake")
  /\ WakeupVisit(p, widx[p], initproc)
  /\ widx' = [widx EXCEPT ![p] = IF @ = NPROC THEN 1 ELSE @ + 1]
  /\ IF widx[p] = NPROC
       THEN Advance(idx, p, "reparent", "exit_wake")
       ELSE UNCHANGED <<idx, pc>>
  /\ UNCHANGED <<parent, nextpid, np, havekids>>

\* (mutant of ExitWakeup: wakes who sleeps on p instead of on its parent)
ExitWakeupSelf(c, p) ==
  /\ At(c, p, "exit_wake")
  /\ WakeupVisit(p, widx[p], p)
  /\ Advance(widx, p, "exit_wake", "exit_lock")
  /\ UNCHANGED <<parent, nextpid, idx, np, havekids>>

\* The loop of wakeup(p->parent).
ExitWakeup(c, p) ==
  /\ At(c, p, "exit_wake")
  /\ WakeupVisit(p, widx[p], parent[p])
  /\ Advance(widx, p, "exit_wake", "exit_lock")
  /\ UNCHANGED <<parent, nextpid, idx, np, havekids>>

\* acquire(&p->lock)
ExitLock(c, p) ==
  /\ At(c, p, "exit_lock")
  /\ LockProc(c, p)
  /\ Goto(p, "exit_zombie")
  /\ UNCHANGED <<state, chan, killed, spin, curr, insched>>
  /\ UNCHANGED <<parent, nextpid, idx, widx, np, havekids>>

\* (mutant of ExitZombie: keeps wait_lock)
ExitZombieKeepsLock(c, p) ==
  /\ At(c, p, "exit_zombie")
  /\ state' = [state EXCEPT ![p] = "ZOMBIE"]
  /\ insched' = [insched EXCEPT ![p] = TRUE]
  /\ Goto(p, "user")
  /\ UNCHANGED <<chan, killed, plock, spin, curr>>
  /\ UNCHANGED <<parent, nextpid, idx, widx, np, havekids>>

\* p->state = ZOMBIE, release(&wait_lock), sched()
ExitZombie(c, p) ==
  /\ At(c, p, "exit_zombie")
  /\ Release(waitlock)
  /\ state' = [state EXCEPT ![p] = "ZOMBIE"]
  /\ insched' = [insched EXCEPT ![p] = TRUE]
  /\ Goto(p, "user")
  /\ UNCHANGED <<chan, killed, plock, curr>>
  /\ UNCHANGED <<parent, nextpid, idx, widx, np, havekids>>

-----------------------------------------------------------------------------
(* wait() *)

WaitCall(c, p) ==
  /\ InUserMode(c, p)
  /\ Goto(p, "wait_acq")
  /\ UNCHANGED <<kernelVars, parent, nextpid, idx, widx, np, havekids>>

\* acquire(&wait_lock), at the start and at the end of sleep(); then scan.
WaitAcquire(c, p) ==
  /\ At(c, p, "wait_acq")
  /\ LockSpin(c, waitlock)
  /\ havekids' = [havekids EXCEPT ![p] = FALSE]
  /\ Goto(p, "wait_scan")
  /\ UNCHANGED <<state, chan, killed, plock, curr, insched>>
  /\ UNCHANGED <<parent, nextpid, idx, widx, np>>

\* A slot that is no child of p, or a child that has not exited.
WaitSkip(c, p) ==
  /\ At(c, p, "wait_scan")
  /\ LET pp == idx[p] IN
       /\ parent[pp] = p => plock[pp] = NoCpu /\ state[pp] # "ZOMBIE"
       /\ havekids' = [havekids EXCEPT ![p] = @ \/ parent[pp] = p]
  /\ Advance(idx, p, "wait_scan", "wait_check")
  /\ UNCHANGED <<kernelVars, parent, nextpid, widx, np>>

\* release(&wait_lock) and return to user space.
WaitReturn(p) ==
  /\ Release(waitlock)
  /\ idx' = [idx EXCEPT ![p] = 1]
  /\ havekids' = [havekids EXCEPT ![p] = FALSE]
  /\ Goto(p, "user")

\* (mutants of WaitReap: without the child's lock; of anybody's child)
WaitReapUnlocked(c, p) ==
  /\ At(c, p, "wait_scan")
  /\ parent[idx[p]] = p
  /\ state[idx[p]] = "ZOMBIE"
  /\ FreeFields(idx[p])
  /\ WaitReturn(p)
  /\ UNCHANGED <<plock, curr, nextpid, widx, np>>

WaitReapAny(c, p) ==
  /\ At(c, p, "wait_scan")
  /\ plock[idx[p]] = NoCpu
  /\ state[idx[p]] = "ZOMBIE"
  /\ FreeFields(idx[p])
  /\ WaitReturn(p)
  /\ UNCHANGED <<plock, curr, nextpid, widx, np>>

\* An exited child: free its slot and return its pid.
WaitReap(c, p) ==
  /\ At(c, p, "wait_scan")
  /\ parent[idx[p]] = p
  /\ plock[idx[p]] = NoCpu
  /\ state[idx[p]] = "ZOMBIE"
  /\ FreeFields(idx[p])
  /\ WaitReturn(p)
  /\ UNCHANGED <<plock, curr, nextpid, widx, np>>

\* An exited child, but the status cannot be copied out: return -1.  init
\* passes a null address and never comes here.
WaitCopyoutFails(c, p) ==
  /\ At(c, p, "wait_scan")
  /\ p # initproc
  /\ parent[idx[p]] = p
  /\ plock[idx[p]] = NoCpu
  /\ state[idx[p]] = "ZOMBIE"
  /\ WaitReturn(p)
  /\ UNCHANGED <<state, chan, killed, plock, curr, insched, parent, nextpid, widx, np>>

\* No children, or killed(p): return -1.
WaitGiveUp(c, p) ==
  /\ At(c, p, "wait_check")
  /\ ~havekids[p] \/ (plock[p] = NoCpu /\ killed[p])
  /\ WaitReturn(p)
  /\ UNCHANGED <<state, chan, killed, plock, curr, insched, parent, nextpid, widx, np>>

\* Children and not killed(p): call sleep(p, &wait_lock).
WaitSleep(c, p) ==
  /\ At(c, p, "wait_check")
  /\ havekids[p] /\ plock[p] = NoCpu /\ ~killed[p]
  /\ Goto(p, "wait_sleep")
  /\ UNCHANGED <<kernelVars, parent, nextpid, idx, widx, np, havekids>>

\* sleep(): acquire(&p->lock)
WaitSleepLock(c, p) ==
  /\ At(c, p, "wait_sleep")
  /\ SleepLock(c, p)
  /\ Goto(p, "wait_rel")
  /\ UNCHANGED <<parent, nextpid, idx, widx, np, havekids>>

\* sleep(): release(lk)
WaitSleepRelease(c, p) ==
  /\ At(c, p, "wait_rel")
  /\ Release(waitlock)
  /\ Goto(p, "wait_sw")
  /\ UNCHANGED <<state, chan, killed, plock, curr, insched>>
  /\ UNCHANGED <<parent, nextpid, idx, widx, np, havekids>>

\* sleep(): leave the CPU; when it runs again it reacquires wait_lock.
WaitSleepSwitch(c, p) ==
  /\ At(c, p, "wait_sw")
  /\ SleepSwitch(p, p)
  /\ havekids' = [havekids EXCEPT ![p] = FALSE]
  /\ Goto(p, "wait_acq")
  /\ UNCHANGED <<parent, nextpid, idx, widx, np>>

-----------------------------------------------------------------------------
(* kill(), and the scheduler *)

\* kill(pid) by p, once its loop has come to the slot q with that pid.  A free
\* slot has pid 0: kill(0) marks it, and the next process born there starts killed.
Kill(c, p, q) ==
  /\ InUserMode(c, p)
  /\ q \in Killable
  /\ KillVisit(q)
  /\ UNCHANGED procVars

\* p waits in acquire(), which turns interrupts off before it spins.
Spinning(p) ==
  \/ pc[p] \in {"fork_parent", "exit_acq", "wait_acq"} /\ spin[waitlock] # NoCpu
  \/ pc[p] = "alloc" /\ plock[idx[p]] # NoCpu
  \/ pc[p] = "fork_run" /\ plock[np[p]] # NoCpu

Preempt(c, p) ==
  /\ ~Spinning(p)
  /\ Yield(c, p)
  /\ UNCHANGED procVars

Dispatch(c, p) == Schedule(c, p) /\ UNCHANGED procVars
SwitchIn(c, p) == Resume(c, p) /\ UNCHANGED procVars
SwitchOut(c, p) == SchedOut(c, p) /\ UNCHANGED procVars

\* The steps of a process inside a system call.
Step(c, p) ==
  \/ AllocSkip(c, p) \/ AllocFound(c, p) \/ ForkNoMemory(c, p) \/ ForkFill(c, p)
  \/ ForkSetParent(c, p) \/ ForkMakeRunnable(c, p)
  \/ ExitAcquire(c, p) \/ ReparentSkip(c, p) \/ ReparentChild(c, p) \/ ReparentWakeup(c, p)
  \/ ExitWakeup(c, p) \/ ExitLock(c, p) \/ ExitZombie(c, p)
  \/ WaitAcquire(c, p) \/ WaitSkip(c, p) \/ WaitReap(c, p) \/ WaitCopyoutFails(c, p)
  \/ WaitGiveUp(c, p) \/ WaitSleep(c, p)
  \/ WaitSleepLock(c, p) \/ WaitSleepRelease(c, p) \/ WaitSleepSwitch(c, p)

\* A CPU without a process dispatches one; the others are on their process's stack.
Next ==
  \E c \in Cpus, p \in Procs :
    \/ Dispatch(c, p)
    \/ /\ curr[c] = p
       /\ \/ ForkCall(c, p) \/ ExitCall(c, p) \/ WaitCall(c, p)
          \/ \E q \in Procs : Kill(c, p, q)
          \/ Step(c, p)
          \/ Preempt(c, p) \/ SwitchIn(c, p) \/ SwitchOut(c, p)

Spec == Init /\ [][Next]_vars

\* As for the semaphores; moreover init, which does nothing but start shells and
\* wait (user/init.c), calls wait() again and again.
Fairness ==
  /\ \A p \in Procs :
       /\ SF_vars(\E c \in Cpus : Step(c, p))
       /\ SF_vars(\E c \in Cpus : Dispatch(c, p))
       /\ SF_vars(\E c \in Cpus : SwitchIn(c, p) \/ SwitchOut(c, p) \/ Preempt(c, p))
  /\ SF_vars(\E c \in Cpus : WaitCall(c, initproc))

FairSpec == Spec /\ Fairness

-----------------------------------------------------------------------------
(* Properties *)

\* No lost wakeup between exit() and wait(): when wait_lock is free, a process
\* asleep in wait() has a child, and none of its children is a zombie.
NoLostExit ==
  spin[waitlock] = NoCpu =>
    \A p \in Procs :
      state[p] = "SLEEPING" /\ chan[p] = p =>
        /\ \E q \in Procs : parent[q] = p
        /\ \A q \in Procs : parent[q] = p => state[q] # "ZOMBIE"

\* Nobody is forgotten: when wait_lock is free, every process that has been
\* made runnable, init apart, has a parent that has not exited, so that
\* somebody can still wait for it.
NoOrphan ==
  spin[waitlock] = NoCpu =>
    \A p \in Procs \ {initproc} :
      state[p] \notin {"UNUSED", "USED"} =>
        /\ parent[p] # NoProc
        /\ state[parent[p]] \notin {"UNUSED", "USED", "ZOMBIE"}

\* The slot a fork() is filling in belongs to that fork() alone.
ForkOwnsSlot ==
  \A p, q \in Procs :
    np[p] # NoProc => state[np[p]] = "USED" /\ (np[q] = np[p] => p = q)

\* A zombie leaves the table only when its parent, holding wait_lock, reaps it.
ReapedByParent ==
  [][\A p \in Procs : state[p] = "ZOMBIE" /\ state'[p] # "ZOMBIE" =>
       /\ state'[p] = "UNUSED"
       /\ \E c \in Cpus : spin[waitlock] = c /\ curr[c] = parent[p]]_vars

\* init reaps every zombie it is or becomes the parent of, whatever wakeups
\* the reparenting raced with.
ZombiesReaped ==
  \A p \in Procs \ {initproc} :
    (state[p] = "ZOMBIE" /\ parent[p] = initproc) ~> state[p] = "UNUSED"

=============================================================================
