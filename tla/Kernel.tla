------------------------------- MODULE Kernel -------------------------------
(***************************************************************************)
(* The part of the xv6 kernel every blocking operation is built from       *)
(* (kernel/spinlock.c and kernel/proc.c): spinlocks owned by a CPU, the    *)
(* per-CPU scheduler, preemption, and sleep() / wakeup() on a channel.     *)
(*                                                                         *)
(* A process executes on the CPU c with curr[c] = p.  Its kernel stack is  *)
(* handed back and forth with the scheduler's by swtch(); in between,      *)
(* p->lock stays held by the CPU although the code that acquired it and    *)
(* the code that releases it run on different stacks.                      *)
(*                                                                         *)
(* The module has no Next: Semaphores and Proc extend it and add the       *)
(* system calls.                                                           *)
(***************************************************************************)
EXTENDS Integers

CONSTANTS
  NPROC,       \* size of the process table
  NCPU,        \* number of CPUs
  Spinlocks,   \* the spinlocks besides the p->lock of every process
  Channels,    \* the channels processes sleep on
  NoChan       \* p->chan = 0

ASSUME KernelAssumption ==
  /\ NPROC \in Nat \ {0}
  /\ NCPU \in Nat \ {0}
  /\ NoChan \notin Channels

VARIABLES
  state,    \* p->state
  chan,     \* p->chan
  killed,   \* p->killed
  plock,    \* the CPU that holds p->lock
  spin,     \* the CPU that holds each spinlock of Spinlocks
  curr,     \* c->proc: the process whose stack the CPU is running on
  insched   \* is the process inside sched() (or forkret(), before its first run)?

kernelVars == <<state, chan, killed, plock, spin, curr, insched>>

Procs == 1..NPROC
Cpus == 1..NCPU
NoProc == 0
NoCpu == 0

\* enum procstate
ProcStates == {"UNUSED", "USED", "SLEEPING", "RUNNABLE", "RUNNING", "ZOMBIE"}

KernelTypeOK ==
  /\ state \in [Procs -> ProcStates]
  /\ chan \in [Procs -> Channels \union {NoChan}]
  /\ killed \in [Procs -> BOOLEAN]
  /\ plock \in [Procs -> Cpus \union {NoCpu}]
  /\ spin \in [Spinlocks -> Cpus \union {NoCpu}]
  /\ curr \in [Cpus -> Procs \union {NoProc}]
  /\ insched \in [Procs -> BOOLEAN]

-----------------------------------------------------------------------------
(* Who runs, and which locks a CPU holds. *)

\* p executes its own kernel or user code on c.
Running(c, p) == curr[c] = p /\ state[p] = "RUNNING" /\ ~insched[p]

\* mycpu()->noff = 0: the CPU holds no spinlock, so interrupts are enabled.
HoldsNothing(c) ==
  /\ \A q \in Procs : plock[q] # c
  /\ \A l \in Spinlocks : spin[l] # c

\* acquire(&p->lock) finds the lock free.
LockProc(c, p) == plock[p] = NoCpu /\ plock' = [plock EXCEPT ![p] = c]

\* acquire(lk) finds the lock free.
LockSpin(c, l) == spin[l] = NoCpu /\ spin' = [spin EXCEPT ![l] = c]

-----------------------------------------------------------------------------
(* The scheduler and preemption. *)

\* scheduler(): take p->lock, find p RUNNABLE, and swtch() to its stack with
\* the lock still held.
Schedule(c, p) ==
  /\ curr[c] = NoProc
  /\ state[p] = "RUNNABLE"
  /\ LockProc(c, p)
  /\ state' = [state EXCEPT ![p] = "RUNNING"]
  /\ curr' = [curr EXCEPT ![c] = p]
  /\ UNCHANGED <<chan, killed, spin, insched>>

\* swtch() has returned to the process: sleep(), yield() or forkret() releases
\* p->lock.  sleep() clears p->chan first; elsewhere it is already clear.
Resume(c, p) ==
  /\ curr[c] = p
  /\ state[p] = "RUNNING"
  /\ insched[p]
  /\ chan' = [chan EXCEPT ![p] = NoChan]
  /\ plock' = [plock EXCEPT ![p] = NoCpu]
  /\ insched' = [insched EXCEPT ![p] = FALSE]
  /\ UNCHANGED <<state, killed, spin, curr>>

\* (mutant of Yield: interrupts on while a lock is held)
YieldAnywhere(c, p) ==
  /\ Running(c, p)
  /\ LockProc(c, p)
  /\ state' = [state EXCEPT ![p] = "RUNNABLE"]
  /\ insched' = [insched EXCEPT ![p] = TRUE]
  /\ UNCHANGED <<chan, killed, spin, curr>>

\* A timer interrupt, taken only while the CPU holds no lock: yield() takes
\* p->lock, makes the process RUNNABLE and calls sched().
Yield(c, p) ==
  /\ Running(c, p)
  /\ HoldsNothing(c)
  /\ LockProc(c, p)
  /\ state' = [state EXCEPT ![p] = "RUNNABLE"]
  /\ insched' = [insched EXCEPT ![p] = TRUE]
  /\ UNCHANGED <<chan, killed, spin, curr>>

\* sched() has switched to the scheduler's stack: c->proc = 0 and release(&p->lock).
SchedOut(c, p) ==
  /\ curr[c] = p
  /\ state[p] # "RUNNING"
  /\ insched[p]
  /\ curr' = [curr EXCEPT ![c] = NoProc]
  /\ plock' = [plock EXCEPT ![p] = NoCpu]
  /\ UNCHANGED <<state, chan, killed, spin, insched>>

-----------------------------------------------------------------------------
(* sleep() and wakeup(), in the steps other CPUs can observe. *)

\* sleep(): acquire(&p->lock), with lk still held.
SleepLock(c, p) ==
  /\ LockProc(c, p)
  /\ UNCHANGED <<state, chan, killed, spin, curr, insched>>

\* release(lk).
Release(l) ==
  spin' = [spin EXCEPT ![l] = NoCpu]

\* sleep(): p->chan = chan, p->state = SLEEPING, and sched().
SleepSwitch(p, ch) ==
  /\ chan' = [chan EXCEPT ![p] = ch]
  /\ state' = [state EXCEPT ![p] = "SLEEPING"]
  /\ insched' = [insched EXCEPT ![p] = TRUE]
  /\ UNCHANGED <<killed, plock, spin, curr>>

\* (mutant of WakeupVisit: looks at the slot without its lock)
WakeupVisitUnlocked(p, q, ch) ==
  /\ state' = IF q # p /\ state[q] = "SLEEPING" /\ chan[q] = ch
                THEN [state EXCEPT ![q] = "RUNNABLE"]
                ELSE state
  /\ UNCHANGED <<chan, killed, plock, spin, curr, insched>>

\* One turn of wakeup()'s loop, run by p: under q's lock, q becomes RUNNABLE if
\* it sleeps on ch.  The caller's own slot is passed over.
WakeupVisit(p, q, ch) ==
  /\ q # p => plock[q] = NoCpu
  /\ state' = IF q # p /\ state[q] = "SLEEPING" /\ chan[q] = ch
                THEN [state EXCEPT ![q] = "RUNNABLE"]
                ELSE state
  /\ UNCHANGED <<chan, killed, plock, spin, curr, insched>>

\* kill() has found its victim in slot q: mark it, and wake it if it sleeps.
KillVisit(q) ==
  /\ plock[q] = NoCpu
  /\ killed' = [killed EXCEPT ![q] = TRUE]
  /\ state' = IF state[q] = "SLEEPING"
                THEN [state EXCEPT ![q] = "RUNNABLE"]
                ELSE state
  /\ UNCHANGED <<chan, plock, spin, curr, insched>>

-----------------------------------------------------------------------------
(* What sched() and the process table rely on. *)

\* The conditions sched() panics on: when a process has left its stack, its
\* CPU holds its p->lock and no other lock ("sched p->lock", "sched locks").
SchedChecks ==
  \A c \in Cpus : \A p \in Procs :
    curr[c] = p /\ insched[p] =>
      /\ plock[p] = c
      /\ \A q \in Procs \ {p} : plock[q] # c
      /\ \A l \in Spinlocks : spin[l] # c

\* No two CPUs run on the same kernel stack, and a CPU never runs on the stack
\* of a slot that is free or that its parent may still be filling in.
OneCpuPerStack ==
  \A c \in Cpus : \A p \in Procs :
    curr[c] = p =>
      /\ state[p] \notin {"UNUSED", "USED"}
      /\ \A d \in Cpus \ {c} : curr[d] # p

=============================================================================
