------------------------------ MODULE Proc_proofs ------------------------------
(***************************************************************************)
(* Proofs about Proc, for any number of processes, CPUs and pids: what     *)
(* fork(), exit(), wait(), kill() and the scheduler preserve.              *)
(*                                                                         *)
(* Everything follows from one inductive invariant, IInv:                  *)
(*   - PidInv: the pids left suffice for the fork()s that are looking for  *)
(*     a slot;                                                             *)
(*   - StackInv: a process is on at most one CPU, and either executes or   *)
(*     has its p->lock held by that CPU, unless a fork() fills it in;      *)
(*   - LoopInv: the loops over the table start at its first slot;          *)
(*   - LockInv: the CPU that holds a lock runs the process that took it;   *)
(*   - ForkInv: a slot is USED just while one fork() fills it in, and has  *)
(*     a parent only in the last step of that;                             *)
(*   - ParentInv: processes have live parents, and reparent() leaves no    *)
(*     child behind its index;                                             *)
(*   - SleepInv: who sleeps in wait() has a child; a zombie child only for *)
(*     as long as wakeup() still has that sleeper's slot before it.        *)
(***************************************************************************)
EXTENDS Proc, FiniteSetTheorems, TLAPS

\* The states of a slot that holds no process able to run code any more, or yet.
Dead == {"UNUSED", "USED", "ZOMBIE"}

\* Past allocproc(), and past the start of exit().
ForkLabels == {"fork_fill", "fork_parent", "fork_run"}
ExitLabels == {"exit_acq", "reparent", "reparent_wake", "exit_wake", "exit_lock", "exit_zombie"}

\* p is between acquire() and release() of wait_lock.
WaitLocked == {"reparent", "reparent_wake", "exit_wake", "exit_lock", "exit_zombie",
               "wait_scan", "wait_check", "wait_sleep", "wait_rel"}

\* p holds its own p->lock although it executes.
SelfLocked == {"exit_zombie", "wait_rel", "wait_sw"}

\* c holds the lock of the slot q that the fork() it runs is filling in.
Filling(c, q) == \E p \in Procs : curr[c] = p /\ pc[p] = "fork_fill" /\ np[p] = q

-----------------------------------------------------------------------------
(* The inductive invariant *)

StackInv ==
  /\ \A c \in Cpus, p \in Procs :
       /\ curr[c] = p => state[p] \notin {"UNUSED", "USED"}
       /\ curr[c] = p /\ insched[p] => plock[p] = c
       /\ plock[p] = c => \/ curr[c] = p /\ (insched[p] \/ pc[p] \in SelfLocked)
                          \/ Filling(c, p)
  /\ \A c, d \in Cpus, p \in Procs : curr[c] = p /\ curr[d] = p => c = d
  /\ \A p \in Procs :
       /\ ~insched[p] /\ state[p] # "UNUSED" =>
            state[p] = "RUNNING" /\ \E c \in Cpus : curr[c] = p
       /\ state[p] = "UNUSED" => ~insched[p]
       /\ state[p] \in Dead => pc[p] = "user"

LoopInv ==
  \A p \in Procs :
    /\ pc[p] \notin {"alloc", "reparent", "reparent_wake", "wait_scan"} => idx[p] = 1
    /\ pc[p] \notin {"reparent_wake", "exit_wake"} => widx[p] = 1
    /\ pc[p] \notin {"wait_scan", "wait_check", "wait_sleep", "wait_rel", "wait_sw"} => ~havekids[p]

LockInv ==
  /\ \A p \in Procs : pc[p] \in WaitLocked \union SelfLocked \union {"fork_fill"} => ~insched[p]
  /\ \A c \in Cpus, p \in Procs : curr[c] = p =>
       /\ pc[p] \in WaitLocked => spin[waitlock] = c
       /\ pc[p] \in SelfLocked => plock[p] = c
       /\ pc[p] = "fork_fill" => plock[np[p]] = c
  /\ \A c \in Cpus : spin[waitlock] = c => \E p \in Procs : curr[c] = p /\ pc[p] \in WaitLocked

ForkInv ==
  /\ \A p \in Procs :
       /\ np[p] # NoProc <=> pc[p] \in ForkLabels
       /\ np[p] # NoProc => state[np[p]] = "USED"
       /\ pc[p] = "fork_run" => parent[np[p]] = p
       /\ state[p] = "UNUSED" => parent[p] = NoProc
       /\ state[p] = "USED" /\ parent[p] # NoProc =>
            np[parent[p]] = p /\ pc[parent[p]] = "fork_run"
  /\ \A p, q \in Procs : np[p] # NoProc /\ np[p] = np[q] => p = q

ParentInv ==
  /\ state[initproc] \notin Dead /\ pc[initproc] \notin ExitLabels
  /\ \A q \in Procs \ {initproc} : state[q] \notin {"UNUSED", "USED"} =>
       parent[q] # NoProc /\ state[parent[q]] \notin Dead
  /\ \A p, q \in Procs : parent[q] = p =>
       /\ pc[p] \notin {"exit_wake", "exit_lock", "exit_zombie"}
       /\ pc[p] = "reparent" => idx[p] <= q
       /\ pc[p] = "reparent_wake" => idx[p] < q

\* p sleeps in wait(), or has given up wait_lock to do so.
Waiting(p) == state[p] = "SLEEPING" \/ pc[p] = "wait_sw"

HasChild(p) == \E q \in Procs : parent[q] = p

\* Who sleeps there sleeps on itself and has a child; havekids tells the truth.
Sleepers ==
  \A p \in Procs :
    /\ state[p] = "SLEEPING" => pc[p] = "wait_acq" /\ chan[p] = p
    /\ Waiting(p) \/ pc[p] \in {"wait_sleep", "wait_rel"} \/ havekids[p] => HasChild(p)

\* The scan of wait() passes over no zombie child.  A process gets one while it
\* sleeps only if it is init, from a reparent() about to wake it.
Scanned ==
  \A p, z \in Procs : parent[z] = p /\ state[z] = "ZOMBIE" =>
    /\ pc[p] \notin {"wait_check", "wait_sleep", "wait_rel"}
    /\ pc[p] = "wait_scan" => idx[p] <= z
    /\ Waiting(p) => p = initproc /\ \E q \in Procs : pc[q] = "reparent_wake" /\ widx[q] = 1

\* The wakeup() of exit() leaves no parent asleep behind its index.
Woken ==
  \A q \in Procs :
    /\ pc[q] = "exit_wake" /\ Waiting(parent[q]) => widx[q] <= parent[q]
    /\ pc[q] \in {"exit_lock", "exit_zombie"} => ~Waiting(parent[q])

SleepInv == Sleepers /\ Scanned /\ Woken

\* The processes looking for a free slot in allocproc().
Allocating == {q \in Procs : pc[q] = "alloc"}

\* There is a pid for every one of them.
PidInv == nextpid + Cardinality(Allocating) <= MaxPid + 1

IInv == ProcTypeOK /\ PidInv /\ StackInv /\ LoopInv /\ LockInv /\ ForkInv /\ ParentInv /\ SleepInv

-----------------------------------------------------------------------------
(* The constants *)

\* What the assumptions say of the constants, in the form the steps use.
LEMMA Constants ==
  /\ NPROC \in Nat /\ 1 \in Procs /\ NPROC \in Procs /\ Procs \subseteq Nat
  /\ \A p \in Procs : 1 <= p /\ p <= NPROC
  /\ \A p \in Procs : p # NPROC => p + 1 \in Procs
  /\ NoProc \notin Procs /\ NoCpu \notin Cpus /\ initproc \in Procs /\ initproc = 1
  /\ Spinlocks = {waitlock} /\ Channels = Procs /\ NoChan \notin Procs
  /\ MaxPid \in Nat \ {0} /\ Killable \subseteq Procs \ {initproc}
BY KernelAssumption, ProcAssumption DEF Procs, Cpus, NoProc, NoCpu, initproc

\* The arithmetic of the loops over the table.
LEMMA SlotOrder ==
  \A a, b \in Procs :
    /\ 1 <= a
    /\ a <= b /\ a # b => a < b
    /\ a < b /\ a # NPROC => a + 1 <= b
    /\ a <= b /\ a # b /\ a # NPROC => a + 1 <= b
    /\ ~ (NPROC < b)
    /\ NPROC <= b => b = NPROC
BY KernelAssumption DEF Procs

\* The processes looking for a slot can be counted.
LEMMA FiniteTable ==
  IsFiniteSet(Allocating) /\ Cardinality(Allocating) \in Nat
<1>1. IsFiniteSet(Procs)
  BY KernelAssumption, FS_Interval DEF Procs
<1>2. Allocating \subseteq Procs
  BY DEF Allocating
<1> QED
  BY <1>1, <1>2, FS_Subset, FS_CardinalityType

\* userinit() leaves the table in a state that satisfies the invariant.
LEMMA InitInv == Init => IInv
<1> SUFFICES ASSUME Init PROVE IInv
  OBVIOUS
<1> USE Constants DEF Init
<1>1. ProcTypeOK
  BY DEF ProcTypeOK, KernelTypeOK, ProcStates, PcLabels
<1>2. StackInv /\ LoopInv /\ LockInv /\ ForkInv
  BY DEF StackInv, LoopInv, LockInv, ForkInv, WaitLocked, SelfLocked, ForkLabels, Dead
<1>3. ParentInv
  BY DEF ParentInv, Dead, ExitLabels
<1>4. SleepInv
  BY DEF SleepInv, Sleepers, Scanned, Woken, Waiting
<1>5. PidInv
  <2>1. Allocating = {}
    BY DEF Allocating
  <2> QED
    BY <2>1, FS_EmptySet DEF PidInv
<1> QED
  BY <1>1, <1>2, <1>3, <1>4, <1>5 DEF IInv

\* One turn of wakeup()'s loop makes at most the slot it visits RUNNABLE.
LEMMA WakeupEffect ==
  ASSUME KernelTypeOK, NEW p \in Procs, NEW q \in Procs, NEW ch \in Channels, WakeupVisit(p, q, ch)
  PROVE  \A r \in Procs :
           /\ state'[r] = state[r] \/ (state[r] = "SLEEPING" /\ state'[r] = "RUNNABLE")
           /\ r = q /\ q # p /\ state[q] = "SLEEPING" /\ chan[q] = ch => state'[r] = "RUNNABLE"
<1> SUFFICES ASSUME NEW r \in Procs
             PROVE  /\ state'[r] = state[r] \/ (state[r] = "SLEEPING" /\ state'[r] = "RUNNABLE")
                    /\ r = q /\ q # p /\ state[q] = "SLEEPING" /\ chan[q] = ch => state'[r] = "RUNNABLE"
  OBVIOUS
<1>1. CASE q # p /\ state[q] = "SLEEPING" /\ chan[q] = ch
  BY <1>1 DEF KernelTypeOK, WakeupVisit
<1>2. CASE ~ (q # p /\ state[q] = "SLEEPING" /\ chan[q] = ch)
  BY <1>2 DEF KernelTypeOK, WakeupVisit
<1> QED
  BY <1>1, <1>2

\* Who is inside wait_lock is alone there, and who has locked itself holds its lock.
LEMMA Holders ==
  ASSUME IInv
  PROVE  /\ \A p, q \in Procs : pc[p] \in WaitLocked /\ pc[q] \in WaitLocked => p = q
         /\ spin[waitlock] = NoCpu => \A p \in Procs : pc[p] \notin WaitLocked
         /\ \A p \in Procs : pc[p] \in SelfLocked => plock[p] # NoCpu
         /\ \A p \in Procs : pc[p] \in ExitLabels => parent[p] \in Procs
BY Constants DEF IInv, ProcTypeOK, KernelTypeOK, StackInv, LockInv, ForkInv, ParentInv,
                 WaitLocked, SelfLocked, ExitLabels, Dead

-----------------------------------------------------------------------------
(* Every step preserves every part of the invariant *)

\* No step takes a variable out of its type.
LEMMA TypeStep ==
  ASSUME IInv, [Next]_vars
  PROVE  ProcTypeOK'
<1> USE Constants DEF IInv, ProcTypeOK, KernelTypeOK, ProcStates, PcLabels, ForkInv,
        ForkLabels
<1>1. ASSUME NEW c \in Cpus, NEW p \in Procs, ForkCall(c, p)
      PROVE  ProcTypeOK'
  BY <1>1 DEF ForkCall, At, Running, InUserMode, Goto, kernelVars
<1>2. ASSUME NEW c \in Cpus, NEW p \in Procs, ExitCall(c, p)
      PROVE  ProcTypeOK'
  BY <1>2 DEF ExitCall, At, Running, Goto, kernelVars
<1>3. ASSUME NEW c \in Cpus, NEW p \in Procs, WaitCall(c, p)
      PROVE  ProcTypeOK'
  BY <1>3 DEF WaitCall, At, Running, InUserMode, Goto, kernelVars
<1>4. ASSUME NEW c \in Cpus, NEW p \in Procs, NEW q \in Procs, Kill(c, p, q), curr[c] = p
      PROVE  ProcTypeOK'
  BY <1>4 DEF Kill, KillVisit, InUserMode, At, Running, procVars
<1>5. ASSUME NEW c \in Cpus, NEW p \in Procs, AllocSkip(c, p)
      PROVE  ProcTypeOK'
  BY <1>5 DEF AllocSkip, At, Running, Goto, Advance, kernelVars
<1>6. ASSUME NEW c \in Cpus, NEW p \in Procs, AllocFound(c, p)
      PROVE  ProcTypeOK'
  <2>1. nextpid' \in 1..(MaxPid + 1)
    <3>1. p \in Allocating /\ nextpid' = nextpid + 1
      BY <1>6 DEF AllocFound, At, Allocating
    <3>2. Cardinality(Allocating) \in Nat \ {0}
      BY <3>1, FiniteTable, FS_EmptySet
    <3> QED
      BY <3>1, <3>2 DEF PidInv
  <2> QED
    BY <1>6, <2>1 DEF AllocFound, Goto, LockProc, At
<1>7. ASSUME NEW c \in Cpus, NEW p \in Procs, ForkNoMemory(c, p)
      PROVE  ProcTypeOK'
  BY <1>7 DEF ForkNoMemory, At, Running, Goto, FreeFields
<1>8. ASSUME NEW c \in Cpus, NEW p \in Procs, ForkFill(c, p)
      PROVE  ProcTypeOK'
  BY <1>8 DEF ForkFill, At, Running, Goto
<1>9. ASSUME NEW c \in Cpus, NEW p \in Procs, ForkSetParent(c, p)
      PROVE  ProcTypeOK'
  BY <1>9 DEF ForkSetParent, At, Running, Goto, kernelVars
<1>10. ASSUME NEW c \in Cpus, NEW p \in Procs, ForkMakeRunnable(c, p)
      PROVE  ProcTypeOK'
  BY <1>10 DEF ForkMakeRunnable, At, Running, Goto
<1>11. ASSUME NEW c \in Cpus, NEW p \in Procs, ExitAcquire(c, p)
      PROVE  ProcTypeOK'
  BY <1>11 DEF ExitAcquire, At, Running, Goto, LockSpin
<1>12. ASSUME NEW c \in Cpus, NEW p \in Procs, ReparentSkip(c, p)
      PROVE  ProcTypeOK'
  BY <1>12 DEF ReparentSkip, At, Running, Goto, Advance, kernelVars
<1>13. ASSUME NEW c \in Cpus, NEW p \in Procs, ReparentChild(c, p)
      PROVE  ProcTypeOK'
  BY <1>13 DEF ReparentChild, At, Running, Goto, kernelVars
<1>14. ASSUME NEW c \in Cpus, NEW p \in Procs, ReparentWakeup(c, p)
      PROVE  ProcTypeOK'
  <2> USE <1>14 DEF ReparentWakeup, At, Goto, Advance
  <2>1. state' \in [Procs -> ProcStates]
    BY DEF WakeupVisit
  <2>2. idx' \in [Procs -> Procs] /\ pc' \in [Procs -> PcLabels]
    <3>1. CASE widx[p] = NPROC
      <4>1. Advance(idx, p, "reparent", "exit_wake") /\ idx \in [Procs -> Procs] /\ pc \in [Procs -> PcLabels]
        BY <3>1
      <4>2. idx' \in [Procs -> Procs]
        BY ONLY <4>1, Constants
      <4>3. pc' \in [Procs -> PcLabels]
        BY ONLY <4>1
      <4> QED
        BY <4>2, <4>3
    <3>2. CASE widx[p] # NPROC
      BY <3>2
    <3> QED
      BY <3>1, <3>2
  <2>3. widx' \in [Procs -> Procs]
    OBVIOUS
  <2> QED
    BY <2>1, <2>2, <2>3 DEF WakeupVisit
<1>15. ASSUME NEW c \in Cpus, NEW p \in Procs, ExitWakeup(c, p)
      PROVE  ProcTypeOK'
  BY <1>15 DEF ExitWakeup, At, Running, Goto, Advance, WakeupVisit
<1>16. ASSUME NEW c \in Cpus, NEW p \in Procs, ExitLock(c, p)
      PROVE  ProcTypeOK'
  BY <1>16 DEF ExitLock, At, Running, Goto, LockProc
<1>17. ASSUME NEW c \in Cpus, NEW p \in Procs, ExitZombie(c, p)
      PROVE  ProcTypeOK'
  BY <1>17 DEF ExitZombie, At, Running, Goto, Release
<1>18. ASSUME NEW c \in Cpus, NEW p \in Procs, WaitAcquire(c, p)
      PROVE  ProcTypeOK'
  BY <1>18 DEF WaitAcquire, At, Running, Goto, LockSpin
<1>19. ASSUME NEW c \in Cpus, NEW p \in Procs, WaitSkip(c, p)
      PROVE  ProcTypeOK'
  BY <1>19 DEF WaitSkip, At, Running, Goto, Advance, kernelVars
<1>20. ASSUME NEW c \in Cpus, NEW p \in Procs, WaitReap(c, p)
      PROVE  ProcTypeOK'
  BY <1>20 DEF WaitReap, At, Running, Goto, WaitReturn, Release, FreeFields
<1>21. ASSUME NEW c \in Cpus, NEW p \in Procs, WaitCopyoutFails(c, p)
      PROVE  ProcTypeOK'
  BY <1>21 DEF WaitCopyoutFails, At, Running, Goto, WaitReturn, Release
<1>22. ASSUME NEW c \in Cpus, NEW p \in Procs, WaitGiveUp(c, p)
      PROVE  ProcTypeOK'
  BY <1>22 DEF WaitGiveUp, At, Running, Goto, WaitReturn, Release
<1>23. ASSUME NEW c \in Cpus, NEW p \in Procs, WaitSleep(c, p)
      PROVE  ProcTypeOK'
  BY <1>23 DEF WaitSleep, At, Running, Goto, kernelVars
<1>24. ASSUME NEW c \in Cpus, NEW p \in Procs, WaitSleepLock(c, p)
      PROVE  ProcTypeOK'
  BY <1>24 DEF WaitSleepLock, At, Running, Goto, SleepLock, LockProc
<1>25. ASSUME NEW c \in Cpus, NEW p \in Procs, WaitSleepRelease(c, p)
      PROVE  ProcTypeOK'
  BY <1>25 DEF WaitSleepRelease, At, Running, Goto, Release
<1>26. ASSUME NEW c \in Cpus, NEW p \in Procs, WaitSleepSwitch(c, p)
      PROVE  ProcTypeOK'
  BY <1>26 DEF WaitSleepSwitch, At, Running, Goto, SleepSwitch
<1>27. ASSUME NEW c \in Cpus, NEW p \in Procs, Preempt(c, p)
      PROVE  ProcTypeOK'
  BY <1>27 DEF Preempt, Yield, Running, HoldsNothing, LockProc, procVars
<1>28. ASSUME NEW c \in Cpus, NEW p \in Procs, Dispatch(c, p)
      PROVE  ProcTypeOK'
  BY <1>28 DEF Dispatch, Schedule, LockProc, procVars
<1>29. ASSUME NEW c \in Cpus, NEW p \in Procs, SwitchIn(c, p)
      PROVE  ProcTypeOK'
  BY <1>29 DEF SwitchIn, Resume, procVars
<1>30. ASSUME NEW c \in Cpus, NEW p \in Procs, SwitchOut(c, p)
      PROVE  ProcTypeOK'
  BY <1>30 DEF SwitchOut, SchedOut, procVars
<1>31. CASE UNCHANGED vars
  BY <1>31 DEF vars, kernelVars, procVars
<1> QED
  BY <1>1, <1>2, <1>3, <1>4, <1>5, <1>6, <1>7, <1>8, <1>9, <1>10, <1>11, <1>12,
     <1>13, <1>14, <1>15, <1>16, <1>17, <1>18, <1>19, <1>20, <1>21, <1>22, <1>23,
     <1>24, <1>25, <1>26, <1>27, <1>28, <1>29, <1>30, <1>31
     DEF Next, Step

\* fork() hands out a pid only where one was set aside for it.
LEMMA PidStep ==
  ASSUME IInv, [Next]_vars
  PROVE  PidInv'
<1> USE DEF IInv, ProcTypeOK, KernelTypeOK
<1>1. IsFiniteSet(Allocating) /\ Cardinality(Allocating) \in Nat
  BY FiniteTable
<1>2. nextpid \in Nat /\ MaxPid \in Nat /\ nextpid + Cardinality(Allocating) <= MaxPid + 1
  BY Constants DEF PidInv
<1>3. ASSUME NEW c \in Cpus, NEW p \in Procs, ForkCall(c, p)
      PROVE  PidInv'
  <2>1. Allocating' = Allocating \union {p} /\ nextpid' = nextpid
    BY <1>3 DEF ForkCall, InUserMode, Goto, At, Allocating
  <2>2. nextpid + Cardinality(Allocating) <= MaxPid
    BY <1>3 DEF ForkCall, Allocating
  <2>3. Cardinality(Allocating') <= Cardinality(Allocating) + 1 /\ Cardinality(Allocating') \in Nat
    <3>1. Cardinality(Allocating \union {p}) \in {Cardinality(Allocating), Cardinality(Allocating) + 1}
      BY <1>1, FS_AddElement
    <3> QED
      BY ONLY <1>1, <2>1, <3>1
  <2> QED
    BY ONLY <1>1, <1>2, <2>1, <2>2, <2>3 DEF PidInv
<1>4. ASSUME NEW c \in Cpus, NEW p \in Procs, AllocSkip(c, p)
      PROVE  PidInv'
  <2>1. Allocating' \subseteq Allocating /\ nextpid' = nextpid
    BY <1>4 DEF AllocSkip, Goto, Advance, At, Allocating
  <2>2. Cardinality(Allocating') <= Cardinality(Allocating) /\ Cardinality(Allocating') \in Nat
    BY <1>1, <2>1, FS_Subset, FS_CardinalityType
  <2> QED
    BY ONLY <1>1, <1>2, <2>1, <2>2 DEF PidInv
<1>5. ASSUME NEW c \in Cpus, NEW p \in Procs, AllocFound(c, p)
      PROVE  PidInv'
  <2>1. Allocating' = Allocating \ {p} /\ p \in Allocating /\ nextpid' = nextpid + 1
    BY <1>5 DEF AllocFound, Goto, At, Allocating
  <2>2. Cardinality(Allocating') = Cardinality(Allocating) - 1
    BY <1>1, <2>1, FS_RemoveElement
  <2> QED
    BY ONLY <1>1, <1>2, <2>1, <2>2 DEF PidInv
\* The other steps neither begin nor end an allocation.
<1>6. ASSUME NEW c \in Cpus, NEW p \in Procs,
             \/ ForkNoMemory(c, p) \/ ForkFill(c, p) \/ ForkSetParent(c, p)
             \/ ForkMakeRunnable(c, p)
      PROVE  Allocating' = Allocating /\ nextpid' = nextpid
  BY <1>6 DEF ForkNoMemory, ForkFill, ForkSetParent, ForkMakeRunnable, At, Goto, Allocating
<1>7. ASSUME NEW c \in Cpus, NEW p \in Procs,
             \/ ExitCall(c, p) \/ ExitAcquire(c, p) \/ ReparentSkip(c, p)
             \/ ReparentChild(c, p) \/ ReparentWakeup(c, p) \/ ExitWakeup(c, p)
             \/ ExitLock(c, p) \/ ExitZombie(c, p)
      PROVE  Allocating' = Allocating /\ nextpid' = nextpid
  BY <1>7 DEF ExitCall, ExitAcquire, ReparentSkip, ReparentChild, ReparentWakeup, ExitWakeup,
              ExitLock, ExitZombie, At, Goto, Advance, Allocating
<1>8. ASSUME NEW c \in Cpus, NEW p \in Procs,
             \/ WaitCall(c, p) \/ WaitAcquire(c, p) \/ WaitSkip(c, p) \/ WaitReap(c, p)
             \/ WaitCopyoutFails(c, p) \/ WaitGiveUp(c, p) \/ WaitSleep(c, p)
             \/ WaitSleepLock(c, p) \/ WaitSleepRelease(c, p) \/ WaitSleepSwitch(c, p)
      PROVE  Allocating' = Allocating /\ nextpid' = nextpid
  BY <1>8 DEF WaitCall, WaitAcquire, WaitSkip, WaitReap, WaitCopyoutFails, WaitGiveUp, WaitSleep,
              WaitSleepLock, WaitSleepRelease, WaitSleepSwitch, WaitReturn, InUserMode, At, Goto,
              Advance, Allocating
<1>9. ASSUME NEW c \in Cpus, NEW p \in Procs,
             \/ Preempt(c, p) \/ Dispatch(c, p) \/ SwitchIn(c, p) \/ SwitchOut(c, p)
             \/ \E q \in Procs : Kill(c, p, q)
      PROVE  Allocating' = Allocating /\ nextpid' = nextpid
  BY <1>9 DEF Preempt, Dispatch, SwitchIn, SwitchOut, Kill, procVars, Allocating
<1>10. CASE UNCHANGED vars
  BY <1>10 DEF vars, procVars, Allocating, PidInv
<1>11. ASSUME Allocating' = Allocating, nextpid' = nextpid
       PROVE  PidInv'
  BY <1>11 DEF PidInv
<1> QED
  BY <1>3, <1>4, <1>5, <1>6, <1>7, <1>8, <1>9, <1>10, <1>11 DEF Next, Step

\* A process stays on one CPU, under its p->lock while it is inside sched().
LEMMA StackStep ==
  ASSUME IInv, [Next]_vars
  PROVE  StackInv'
<1> USE Constants DEF IInv, ProcTypeOK, KernelTypeOK, ProcStates, PcLabels, StackInv,
        Filling, LockInv, ForkInv, Dead, ForkLabels, ExitLabels, WaitLocked,
        SelfLocked
<1>1. ASSUME NEW c \in Cpus, NEW p \in Procs, ForkCall(c, p)
      PROVE  StackInv'
  BY <1>1 DEF ForkCall, At, Running, InUserMode, Goto, kernelVars
<1>2. ASSUME NEW c \in Cpus, NEW p \in Procs, ExitCall(c, p)
      PROVE  StackInv'
  BY <1>2 DEF ExitCall, At, Running, Goto, kernelVars
<1>3. ASSUME NEW c \in Cpus, NEW p \in Procs, WaitCall(c, p)
      PROVE  StackInv'
  BY <1>3 DEF WaitCall, At, Running, InUserMode, Goto, kernelVars
<1>4. ASSUME NEW c \in Cpus, NEW p \in Procs, NEW q \in Procs, Kill(c, p, q), curr[c] = p
      PROVE  StackInv'
  BY <1>4 DEF Kill, KillVisit, InUserMode, At, Running, procVars
<1>5. ASSUME NEW c \in Cpus, NEW p \in Procs, AllocSkip(c, p)
      PROVE  StackInv'
  BY <1>5 DEF AllocSkip, At, Running, Goto, Advance, kernelVars
<1>6. ASSUME NEW c \in Cpus, NEW p \in Procs, AllocFound(c, p)
      PROVE  StackInv'
  BY <1>6 DEF AllocFound, At, Running, Goto, LockProc
<1>7. ASSUME NEW c \in Cpus, NEW p \in Procs, ForkNoMemory(c, p)
      PROVE  StackInv'
  BY <1>7 DEF ForkNoMemory, At, Running, Goto, FreeFields
<1>8. ASSUME NEW c \in Cpus, NEW p \in Procs, ForkFill(c, p)
      PROVE  StackInv'
  BY <1>8 DEF ForkFill, At, Running, Goto
<1>9. ASSUME NEW c \in Cpus, NEW p \in Procs, ForkSetParent(c, p)
      PROVE  StackInv'
  BY <1>9 DEF ForkSetParent, At, Running, Goto, kernelVars
<1>10. ASSUME NEW c \in Cpus, NEW p \in Procs, ForkMakeRunnable(c, p)
      PROVE  StackInv'
  BY <1>10 DEF ForkMakeRunnable, At, Running, Goto
<1>11. ASSUME NEW c \in Cpus, NEW p \in Procs, ExitAcquire(c, p)
      PROVE  StackInv'
  BY <1>11 DEF ExitAcquire, At, Running, Goto, LockSpin
<1>12. ASSUME NEW c \in Cpus, NEW p \in Procs, ReparentSkip(c, p)
      PROVE  StackInv'
  BY <1>12 DEF ReparentSkip, At, Running, Goto, Advance, kernelVars
<1>13. ASSUME NEW c \in Cpus, NEW p \in Procs, ReparentChild(c, p)
      PROVE  StackInv'
  BY <1>13 DEF ReparentChild, At, Running, Goto, kernelVars
<1>14. ASSUME NEW c \in Cpus, NEW p \in Procs, ReparentWakeup(c, p)
      PROVE  StackInv'
  BY <1>14 DEF ReparentWakeup, At, Running, Goto, Advance, WakeupVisit
<1>15. ASSUME NEW c \in Cpus, NEW p \in Procs, ExitWakeup(c, p)
      PROVE  StackInv'
  BY <1>15 DEF ExitWakeup, At, Running, Goto, Advance, WakeupVisit
<1>16. ASSUME NEW c \in Cpus, NEW p \in Procs, ExitLock(c, p)
      PROVE  StackInv'
  BY <1>16 DEF ExitLock, At, Running, Goto, LockProc
<1>17. ASSUME NEW c \in Cpus, NEW p \in Procs, ExitZombie(c, p)
      PROVE  StackInv'
  BY <1>17 DEF ExitZombie, At, Running, Goto, Release
<1>18. ASSUME NEW c \in Cpus, NEW p \in Procs, WaitAcquire(c, p)
      PROVE  StackInv'
  BY <1>18 DEF WaitAcquire, At, Running, Goto, LockSpin
<1>19. ASSUME NEW c \in Cpus, NEW p \in Procs, WaitSkip(c, p)
      PROVE  StackInv'
  BY <1>19 DEF WaitSkip, At, Running, Goto, Advance, kernelVars
<1>20. ASSUME NEW c \in Cpus, NEW p \in Procs, WaitReap(c, p)
      PROVE  StackInv'
  BY <1>20 DEF WaitReap, At, Running, Goto, WaitReturn, Release, FreeFields
<1>21. ASSUME NEW c \in Cpus, NEW p \in Procs, WaitCopyoutFails(c, p)
      PROVE  StackInv'
  BY <1>21 DEF WaitCopyoutFails, At, Running, Goto, WaitReturn, Release
<1>22. ASSUME NEW c \in Cpus, NEW p \in Procs, WaitGiveUp(c, p)
      PROVE  StackInv'
  BY <1>22 DEF WaitGiveUp, At, Running, Goto, WaitReturn, Release
<1>23. ASSUME NEW c \in Cpus, NEW p \in Procs, WaitSleep(c, p)
      PROVE  StackInv'
  BY <1>23 DEF WaitSleep, At, Running, Goto, kernelVars
<1>24. ASSUME NEW c \in Cpus, NEW p \in Procs, WaitSleepLock(c, p)
      PROVE  StackInv'
  BY <1>24 DEF WaitSleepLock, At, Running, Goto, SleepLock, LockProc
<1>25. ASSUME NEW c \in Cpus, NEW p \in Procs, WaitSleepRelease(c, p)
      PROVE  StackInv'
  BY <1>25 DEF WaitSleepRelease, At, Running, Goto, Release
<1>26. ASSUME NEW c \in Cpus, NEW p \in Procs, WaitSleepSwitch(c, p)
      PROVE  StackInv'
  BY <1>26 DEF WaitSleepSwitch, At, Running, Goto, SleepSwitch
<1>27. ASSUME NEW c \in Cpus, NEW p \in Procs, Preempt(c, p)
      PROVE  StackInv'
  BY <1>27 DEF Preempt, Yield, Running, HoldsNothing, LockProc, procVars
<1>28. ASSUME NEW c \in Cpus, NEW p \in Procs, Dispatch(c, p)
      PROVE  StackInv'
  BY <1>28 DEF Dispatch, Schedule, LockProc, procVars
<1>29. ASSUME NEW c \in Cpus, NEW p \in Procs, SwitchIn(c, p)
      PROVE  StackInv'
  BY <1>29 DEF SwitchIn, Resume, procVars
<1>30. ASSUME NEW c \in Cpus, NEW p \in Procs, SwitchOut(c, p)
      PROVE  StackInv'
  BY <1>30 DEF SwitchOut, SchedOut, procVars
<1>31. CASE UNCHANGED vars
  BY <1>31 DEF vars, kernelVars, procVars
<1> QED
  BY <1>1, <1>2, <1>3, <1>4, <1>5, <1>6, <1>7, <1>8, <1>9, <1>10, <1>11, <1>12,
     <1>13, <1>14, <1>15, <1>16, <1>17, <1>18, <1>19, <1>20, <1>21, <1>22, <1>23,
     <1>24, <1>25, <1>26, <1>27, <1>28, <1>29, <1>30, <1>31
     DEF Next, Step

\* Every loop that ends resets its index.
LEMMA LoopStep ==
  ASSUME IInv, [Next]_vars
  PROVE  LoopInv'
<1> USE Constants DEF IInv, ProcTypeOK, KernelTypeOK, ProcStates, PcLabels, LoopInv
<1>1. ASSUME NEW c \in Cpus, NEW p \in Procs, ForkCall(c, p)
      PROVE  LoopInv'
  BY <1>1 DEF ForkCall, At, Running, InUserMode, Goto, kernelVars
<1>2. ASSUME NEW c \in Cpus, NEW p \in Procs, ExitCall(c, p)
      PROVE  LoopInv'
  BY <1>2 DEF ExitCall, At, Running, Goto, kernelVars
<1>3. ASSUME NEW c \in Cpus, NEW p \in Procs, WaitCall(c, p)
      PROVE  LoopInv'
  BY <1>3 DEF WaitCall, At, Running, InUserMode, Goto, kernelVars
<1>4. ASSUME NEW c \in Cpus, NEW p \in Procs, NEW q \in Procs, Kill(c, p, q), curr[c] = p
      PROVE  LoopInv'
  BY <1>4 DEF Kill, KillVisit, InUserMode, At, Running, procVars
<1>5. ASSUME NEW c \in Cpus, NEW p \in Procs, AllocSkip(c, p)
      PROVE  LoopInv'
  BY <1>5 DEF AllocSkip, At, Running, Goto, Advance, kernelVars
<1>6. ASSUME NEW c \in Cpus, NEW p \in Procs, AllocFound(c, p)
      PROVE  LoopInv'
  BY <1>6 DEF AllocFound, At, Running, Goto, LockProc
<1>7. ASSUME NEW c \in Cpus, NEW p \in Procs, ForkNoMemory(c, p)
      PROVE  LoopInv'
  BY <1>7 DEF ForkNoMemory, At, Running, Goto, FreeFields
<1>8. ASSUME NEW c \in Cpus, NEW p \in Procs, ForkFill(c, p)
      PROVE  LoopInv'
  BY <1>8 DEF ForkFill, At, Running, Goto
<1>9. ASSUME NEW c \in Cpus, NEW p \in Procs, ForkSetParent(c, p)
      PROVE  LoopInv'
  BY <1>9 DEF ForkSetParent, At, Running, Goto, kernelVars
<1>10. ASSUME NEW c \in Cpus, NEW p \in Procs, ForkMakeRunnable(c, p)
      PROVE  LoopInv'
  BY <1>10 DEF ForkMakeRunnable, At, Running, Goto
<1>11. ASSUME NEW c \in Cpus, NEW p \in Procs, ExitAcquire(c, p)
      PROVE  LoopInv'
  BY <1>11 DEF ExitAcquire, At, Running, Goto, LockSpin
<1>12. ASSUME NEW c \in Cpus, NEW p \in Procs, ReparentSkip(c, p)
      PROVE  LoopInv'
  BY <1>12 DEF ReparentSkip, At, Running, Goto, Advance, kernelVars
<1>13. ASSUME NEW c \in Cpus, NEW p \in Procs, ReparentChild(c, p)
      PROVE  LoopInv'
  BY <1>13 DEF ReparentChild, At, Running, Goto, kernelVars
<1>14. ASSUME NEW c \in Cpus, NEW p \in Procs, ReparentWakeup(c, p)
      PROVE  LoopInv'
  BY <1>14 DEF ReparentWakeup, At, Running, Goto, Advance, WakeupVisit
<1>15. ASSUME NEW c \in Cpus, NEW p \in Procs, ExitWakeup(c, p)
      PROVE  LoopInv'
  BY <1>15 DEF ExitWakeup, At, Running, Goto, Advance, WakeupVisit
<1>16. ASSUME NEW c \in Cpus, NEW p \in Procs, ExitLock(c, p)
      PROVE  LoopInv'
  BY <1>16 DEF ExitLock, At, Running, Goto, LockProc
<1>17. ASSUME NEW c \in Cpus, NEW p \in Procs, ExitZombie(c, p)
      PROVE  LoopInv'
  BY <1>17 DEF ExitZombie, At, Running, Goto, Release
<1>18. ASSUME NEW c \in Cpus, NEW p \in Procs, WaitAcquire(c, p)
      PROVE  LoopInv'
  BY <1>18 DEF WaitAcquire, At, Running, Goto, LockSpin
<1>19. ASSUME NEW c \in Cpus, NEW p \in Procs, WaitSkip(c, p)
      PROVE  LoopInv'
  BY <1>19 DEF WaitSkip, At, Running, Goto, Advance, kernelVars
<1>20. ASSUME NEW c \in Cpus, NEW p \in Procs, WaitReap(c, p)
      PROVE  LoopInv'
  BY <1>20 DEF WaitReap, At, Running, Goto, WaitReturn, Release, FreeFields
<1>21. ASSUME NEW c \in Cpus, NEW p \in Procs, WaitCopyoutFails(c, p)
      PROVE  LoopInv'
  BY <1>21 DEF WaitCopyoutFails, At, Running, Goto, WaitReturn, Release
<1>22. ASSUME NEW c \in Cpus, NEW p \in Procs, WaitGiveUp(c, p)
      PROVE  LoopInv'
  BY <1>22 DEF WaitGiveUp, At, Running, Goto, WaitReturn, Release
<1>23. ASSUME NEW c \in Cpus, NEW p \in Procs, WaitSleep(c, p)
      PROVE  LoopInv'
  BY <1>23 DEF WaitSleep, At, Running, Goto, kernelVars
<1>24. ASSUME NEW c \in Cpus, NEW p \in Procs, WaitSleepLock(c, p)
      PROVE  LoopInv'
  BY <1>24 DEF WaitSleepLock, At, Running, Goto, SleepLock, LockProc
<1>25. ASSUME NEW c \in Cpus, NEW p \in Procs, WaitSleepRelease(c, p)
      PROVE  LoopInv'
  BY <1>25 DEF WaitSleepRelease, At, Running, Goto, Release
<1>26. ASSUME NEW c \in Cpus, NEW p \in Procs, WaitSleepSwitch(c, p)
      PROVE  LoopInv'
  BY <1>26 DEF WaitSleepSwitch, At, Running, Goto, SleepSwitch
<1>27. ASSUME NEW c \in Cpus, NEW p \in Procs, Preempt(c, p)
      PROVE  LoopInv'
  BY <1>27 DEF Preempt, Yield, Running, HoldsNothing, LockProc, procVars
<1>28. ASSUME NEW c \in Cpus, NEW p \in Procs, Dispatch(c, p)
      PROVE  LoopInv'
  BY <1>28 DEF Dispatch, Schedule, LockProc, procVars
<1>29. ASSUME NEW c \in Cpus, NEW p \in Procs, SwitchIn(c, p)
      PROVE  LoopInv'
  BY <1>29 DEF SwitchIn, Resume, procVars
<1>30. ASSUME NEW c \in Cpus, NEW p \in Procs, SwitchOut(c, p)
      PROVE  LoopInv'
  BY <1>30 DEF SwitchOut, SchedOut, procVars
<1>31. CASE UNCHANGED vars
  BY <1>31 DEF vars, kernelVars, procVars
<1> QED
  BY <1>1, <1>2, <1>3, <1>4, <1>5, <1>6, <1>7, <1>8, <1>9, <1>10, <1>11, <1>12,
     <1>13, <1>14, <1>15, <1>16, <1>17, <1>18, <1>19, <1>20, <1>21, <1>22, <1>23,
     <1>24, <1>25, <1>26, <1>27, <1>28, <1>29, <1>30, <1>31
     DEF Next, Step

\* Locks are released on the CPU that took them.
LEMMA LockStep ==
  ASSUME IInv, [Next]_vars
  PROVE  LockInv'
<1> USE Constants DEF IInv, ProcTypeOK, KernelTypeOK, ProcStates, PcLabels, StackInv,
        Filling, LockInv, ForkInv, Dead, ForkLabels, ExitLabels, WaitLocked,
        SelfLocked
<1>1. ASSUME NEW c \in Cpus, NEW p \in Procs, ForkCall(c, p)
      PROVE  LockInv'
  BY <1>1 DEF ForkCall, At, Running, InUserMode, Goto, kernelVars
<1>2. ASSUME NEW c \in Cpus, NEW p \in Procs, ExitCall(c, p)
      PROVE  LockInv'
  BY <1>2 DEF ExitCall, At, Running, Goto, kernelVars
<1>3. ASSUME NEW c \in Cpus, NEW p \in Procs, WaitCall(c, p)
      PROVE  LockInv'
  BY <1>3 DEF WaitCall, At, Running, InUserMode, Goto, kernelVars
<1>4. ASSUME NEW c \in Cpus, NEW p \in Procs, NEW q \in Procs, Kill(c, p, q), curr[c] = p
      PROVE  LockInv'
  BY <1>4 DEF Kill, KillVisit, InUserMode, At, Running, procVars
<1>5. ASSUME NEW c \in Cpus, NEW p \in Procs, AllocSkip(c, p)
      PROVE  LockInv'
  BY <1>5 DEF AllocSkip, At, Running, Goto, Advance, kernelVars
<1>6. ASSUME NEW c \in Cpus, NEW p \in Procs, AllocFound(c, p)
      PROVE  LockInv'
  BY <1>6 DEF AllocFound, At, Running, Goto, LockProc
<1>7. ASSUME NEW c \in Cpus, NEW p \in Procs, ForkNoMemory(c, p)
      PROVE  LockInv'
  BY <1>7 DEF ForkNoMemory, At, Running, Goto, FreeFields
<1>8. ASSUME NEW c \in Cpus, NEW p \in Procs, ForkFill(c, p)
      PROVE  LockInv'
  BY <1>8 DEF ForkFill, At, Running, Goto
<1>9. ASSUME NEW c \in Cpus, NEW p \in Procs, ForkSetParent(c, p)
      PROVE  LockInv'
  BY <1>9 DEF ForkSetParent, At, Running, Goto, kernelVars
<1>10. ASSUME NEW c \in Cpus, NEW p \in Procs, ForkMakeRunnable(c, p)
      PROVE  LockInv'
  BY <1>10 DEF ForkMakeRunnable, At, Running, Goto
<1>11. ASSUME NEW c \in Cpus, NEW p \in Procs, ExitAcquire(c, p)
      PROVE  LockInv'
  BY <1>11 DEF ExitAcquire, At, Running, Goto, LockSpin
<1>12. ASSUME NEW c \in Cpus, NEW p \in Procs, ReparentSkip(c, p)
      PROVE  LockInv'
  BY <1>12 DEF ReparentSkip, At, Running, Goto, Advance, kernelVars
<1>13. ASSUME NEW c \in Cpus, NEW p \in Procs, ReparentChild(c, p)
      PROVE  LockInv'
  BY <1>13 DEF ReparentChild, At, Running, Goto, kernelVars
<1>14. ASSUME NEW c \in Cpus, NEW p \in Procs, ReparentWakeup(c, p)
      PROVE  LockInv'
  BY <1>14 DEF ReparentWakeup, At, Running, Goto, Advance, WakeupVisit
<1>15. ASSUME NEW c \in Cpus, NEW p \in Procs, ExitWakeup(c, p)
      PROVE  LockInv'
  BY <1>15 DEF ExitWakeup, At, Running, Goto, Advance, WakeupVisit
<1>16. ASSUME NEW c \in Cpus, NEW p \in Procs, ExitLock(c, p)
      PROVE  LockInv'
  BY <1>16 DEF ExitLock, At, Running, Goto, LockProc
<1>17. ASSUME NEW c \in Cpus, NEW p \in Procs, ExitZombie(c, p)
      PROVE  LockInv'
  BY <1>17 DEF ExitZombie, At, Running, Goto, Release
<1>18. ASSUME NEW c \in Cpus, NEW p \in Procs, WaitAcquire(c, p)
      PROVE  LockInv'
  BY <1>18 DEF WaitAcquire, At, Running, Goto, LockSpin
<1>19. ASSUME NEW c \in Cpus, NEW p \in Procs, WaitSkip(c, p)
      PROVE  LockInv'
  BY <1>19 DEF WaitSkip, At, Running, Goto, Advance, kernelVars
<1>20. ASSUME NEW c \in Cpus, NEW p \in Procs, WaitReap(c, p)
      PROVE  LockInv'
  BY <1>20 DEF WaitReap, At, Running, Goto, WaitReturn, Release, FreeFields
<1>21. ASSUME NEW c \in Cpus, NEW p \in Procs, WaitCopyoutFails(c, p)
      PROVE  LockInv'
  BY <1>21 DEF WaitCopyoutFails, At, Running, Goto, WaitReturn, Release
<1>22. ASSUME NEW c \in Cpus, NEW p \in Procs, WaitGiveUp(c, p)
      PROVE  LockInv'
  BY <1>22 DEF WaitGiveUp, At, Running, Goto, WaitReturn, Release
<1>23. ASSUME NEW c \in Cpus, NEW p \in Procs, WaitSleep(c, p)
      PROVE  LockInv'
  BY <1>23 DEF WaitSleep, At, Running, Goto, kernelVars
<1>24. ASSUME NEW c \in Cpus, NEW p \in Procs, WaitSleepLock(c, p)
      PROVE  LockInv'
  BY <1>24 DEF WaitSleepLock, At, Running, Goto, SleepLock, LockProc
<1>25. ASSUME NEW c \in Cpus, NEW p \in Procs, WaitSleepRelease(c, p)
      PROVE  LockInv'
  BY <1>25 DEF WaitSleepRelease, At, Running, Goto, Release
<1>26. ASSUME NEW c \in Cpus, NEW p \in Procs, WaitSleepSwitch(c, p)
      PROVE  LockInv'
  BY <1>26 DEF WaitSleepSwitch, At, Running, Goto, SleepSwitch
<1>27. ASSUME NEW c \in Cpus, NEW p \in Procs, Preempt(c, p)
      PROVE  LockInv'
  <2> USE <1>27 DEF Preempt, Yield, Running, HoldsNothing, LockProc, procVars
  \* Interrupts are on, so p holds no lock.
  <2>1. pc[p] \notin WaitLocked \union SelfLocked \union {"fork_fill"}
    <3>1. pc[p] = "fork_fill" => np[p] \in Procs
      OBVIOUS
    <3>2. pc[p] = "fork_fill" => plock[np[p]] = c
      OBVIOUS
    <3>3. \A q \in Procs : plock[q] # c
      OBVIOUS
    <3>4. pc[p] \notin WaitLocked \union SelfLocked
      OBVIOUS
    <3> QED
      BY ONLY <3>1, <3>2, <3>3, <3>4
  <2> QED
    BY <2>1
<1>28. ASSUME NEW c \in Cpus, NEW p \in Procs, Dispatch(c, p)
      PROVE  LockInv'
  BY <1>28 DEF Dispatch, Schedule, LockProc, procVars
<1>29. ASSUME NEW c \in Cpus, NEW p \in Procs, SwitchIn(c, p)
      PROVE  LockInv'
  BY <1>29 DEF SwitchIn, Resume, procVars
<1>30. ASSUME NEW c \in Cpus, NEW p \in Procs, SwitchOut(c, p)
      PROVE  LockInv'
  BY <1>30 DEF SwitchOut, SchedOut, procVars
<1>31. CASE UNCHANGED vars
  BY <1>31 DEF vars, kernelVars, procVars
<1> QED
  BY <1>1, <1>2, <1>3, <1>4, <1>5, <1>6, <1>7, <1>8, <1>9, <1>10, <1>11, <1>12,
     <1>13, <1>14, <1>15, <1>16, <1>17, <1>18, <1>19, <1>20, <1>21, <1>22, <1>23,
     <1>24, <1>25, <1>26, <1>27, <1>28, <1>29, <1>30, <1>31
     DEF Next, Step

\* A fork() owns its slot from allocproc() to RUNNABLE.
LEMMA ForkStep ==
  ASSUME IInv, [Next]_vars
  PROVE  ForkInv'
<1> USE Constants DEF IInv, ProcTypeOK, KernelTypeOK, ProcStates, PcLabels, StackInv,
        Filling, LockInv, ForkInv, ParentInv, Dead, ForkLabels, ExitLabels,
        WaitLocked, SelfLocked
<1>1. ASSUME NEW c \in Cpus, NEW p \in Procs, ForkCall(c, p)
      PROVE  ForkInv'
  BY <1>1 DEF ForkCall, At, Running, InUserMode, Goto, kernelVars
<1>2. ASSUME NEW c \in Cpus, NEW p \in Procs, ExitCall(c, p)
      PROVE  ForkInv'
  BY <1>2 DEF ExitCall, At, Running, Goto, kernelVars
<1>3. ASSUME NEW c \in Cpus, NEW p \in Procs, WaitCall(c, p)
      PROVE  ForkInv'
  BY <1>3 DEF WaitCall, At, Running, InUserMode, Goto, kernelVars
<1>4. ASSUME NEW c \in Cpus, NEW p \in Procs, NEW q \in Procs, Kill(c, p, q), curr[c] = p
      PROVE  ForkInv'
  BY <1>4 DEF Kill, KillVisit, InUserMode, At, Running, procVars
<1>5. ASSUME NEW c \in Cpus, NEW p \in Procs, AllocSkip(c, p)
      PROVE  ForkInv'
  BY <1>5 DEF AllocSkip, At, Running, Goto, Advance, kernelVars
<1>6. ASSUME NEW c \in Cpus, NEW p \in Procs, AllocFound(c, p)
      PROVE  ForkInv'
  BY <1>6 DEF AllocFound, At, Running, Goto, LockProc
<1>7. ASSUME NEW c \in Cpus, NEW p \in Procs, ForkNoMemory(c, p)
      PROVE  ForkInv'
  BY <1>7 DEF ForkNoMemory, At, Running, Goto, FreeFields
<1>8. ASSUME NEW c \in Cpus, NEW p \in Procs, ForkFill(c, p)
      PROVE  ForkInv'
  BY <1>8 DEF ForkFill, At, Running, Goto
<1>9. ASSUME NEW c \in Cpus, NEW p \in Procs, ForkSetParent(c, p)
      PROVE  ForkInv'
  BY <1>9 DEF ForkSetParent, At, Running, Goto, kernelVars
<1>10. ASSUME NEW c \in Cpus, NEW p \in Procs, ForkMakeRunnable(c, p)
      PROVE  ForkInv'
  BY <1>10 DEF ForkMakeRunnable, At, Running, Goto
<1>11. ASSUME NEW c \in Cpus, NEW p \in Procs, ExitAcquire(c, p)
      PROVE  ForkInv'
  BY <1>11 DEF ExitAcquire, At, Running, Goto, LockSpin
<1>12. ASSUME NEW c \in Cpus, NEW p \in Procs, ReparentSkip(c, p)
      PROVE  ForkInv'
  BY <1>12 DEF ReparentSkip, At, Running, Goto, Advance, kernelVars
<1>13. ASSUME NEW c \in Cpus, NEW p \in Procs, ReparentChild(c, p)
      PROVE  ForkInv'
  BY <1>13 DEF ReparentChild, At, Running, Goto, kernelVars
<1>14. ASSUME NEW c \in Cpus, NEW p \in Procs, ReparentWakeup(c, p)
      PROVE  ForkInv'
  <2> USE <1>14 DEF ReparentWakeup, Goto, Advance, At
  <2>1. \A q \in Procs : state'[q] = state[q] \/ (state[q] = "SLEEPING" /\ state'[q] = "RUNNABLE")
    <3>1. KernelTypeOK /\ WakeupVisit(p, widx[p], initproc) /\ widx[p] \in Procs /\ initproc \in Channels
      OBVIOUS
    <3> QED
      BY ONLY <3>1, p \in Procs, WakeupEffect
  <2>2. \A q \in Procs :
          pc'[q] = pc[q] \/ (pc[q] = "reparent_wake" /\ pc'[q] \in {"reparent", "exit_wake"})
    OBVIOUS
  <2>3. UNCHANGED <<np, parent>>
    OBVIOUS
  <2>4. \A q \in Procs :
          /\ state'[q] = "USED" <=> state[q] = "USED"
          /\ state'[q] = "UNUSED" <=> state[q] = "UNUSED"
          /\ pc'[q] \in ForkLabels <=> pc[q] \in ForkLabels
          /\ pc'[q] = "fork_run" <=> pc[q] = "fork_run"
    BY ONLY <2>1, <2>2 DEF ForkLabels
  <2>5. np \in [Procs -> Procs \union {NoProc}] /\ parent \in [Procs -> Procs \union {NoProc}] /\ ForkInv
    OBVIOUS
  <2> QED
    BY ONLY <2>3, <2>4, <2>5 DEF ForkInv
<1>15. ASSUME NEW c \in Cpus, NEW p \in Procs, ExitWakeup(c, p)
      PROVE  ForkInv'
  BY <1>15 DEF ExitWakeup, At, Running, Goto, Advance, WakeupVisit
<1>16. ASSUME NEW c \in Cpus, NEW p \in Procs, ExitLock(c, p)
      PROVE  ForkInv'
  BY <1>16 DEF ExitLock, At, Running, Goto, LockProc
<1>17. ASSUME NEW c \in Cpus, NEW p \in Procs, ExitZombie(c, p)
      PROVE  ForkInv'
  BY <1>17 DEF ExitZombie, At, Running, Goto, Release
<1>18. ASSUME NEW c \in Cpus, NEW p \in Procs, WaitAcquire(c, p)
      PROVE  ForkInv'
  BY <1>18 DEF WaitAcquire, At, Running, Goto, LockSpin
<1>19. ASSUME NEW c \in Cpus, NEW p \in Procs, WaitSkip(c, p)
      PROVE  ForkInv'
  BY <1>19 DEF WaitSkip, At, Running, Goto, Advance, kernelVars
<1>20. ASSUME NEW c \in Cpus, NEW p \in Procs, WaitReap(c, p)
      PROVE  ForkInv'
  BY <1>20 DEF WaitReap, At, Running, Goto, WaitReturn, Release, FreeFields
<1>21. ASSUME NEW c \in Cpus, NEW p \in Procs, WaitCopyoutFails(c, p)
      PROVE  ForkInv'
  BY <1>21 DEF WaitCopyoutFails, At, Running, Goto, WaitReturn, Release
<1>22. ASSUME NEW c \in Cpus, NEW p \in Procs, WaitGiveUp(c, p)
      PROVE  ForkInv'
  BY <1>22 DEF WaitGiveUp, At, Running, Goto, WaitReturn, Release
<1>23. ASSUME NEW c \in Cpus, NEW p \in Procs, WaitSleep(c, p)
      PROVE  ForkInv'
  BY <1>23 DEF WaitSleep, At, Running, Goto, kernelVars
<1>24. ASSUME NEW c \in Cpus, NEW p \in Procs, WaitSleepLock(c, p)
      PROVE  ForkInv'
  BY <1>24 DEF WaitSleepLock, At, Running, Goto, SleepLock, LockProc
<1>25. ASSUME NEW c \in Cpus, NEW p \in Procs, WaitSleepRelease(c, p)
      PROVE  ForkInv'
  BY <1>25 DEF WaitSleepRelease, At, Running, Goto, Release
<1>26. ASSUME NEW c \in Cpus, NEW p \in Procs, WaitSleepSwitch(c, p)
      PROVE  ForkInv'
  BY <1>26 DEF WaitSleepSwitch, At, Running, Goto, SleepSwitch
<1>27. ASSUME NEW c \in Cpus, NEW p \in Procs, Preempt(c, p)
      PROVE  ForkInv'
  BY <1>27 DEF Preempt, Yield, Running, HoldsNothing, LockProc, procVars
<1>28. ASSUME NEW c \in Cpus, NEW p \in Procs, Dispatch(c, p)
      PROVE  ForkInv'
  BY <1>28 DEF Dispatch, Schedule, LockProc, procVars
<1>29. ASSUME NEW c \in Cpus, NEW p \in Procs, SwitchIn(c, p)
      PROVE  ForkInv'
  BY <1>29 DEF SwitchIn, Resume, procVars
<1>30. ASSUME NEW c \in Cpus, NEW p \in Procs, SwitchOut(c, p)
      PROVE  ForkInv'
  BY <1>30 DEF SwitchOut, SchedOut, procVars
<1>31. CASE UNCHANGED vars
  BY <1>31 DEF vars, kernelVars, procVars
<1> QED
  BY <1>1, <1>2, <1>3, <1>4, <1>5, <1>6, <1>7, <1>8, <1>9, <1>10, <1>11, <1>12,
     <1>13, <1>14, <1>15, <1>16, <1>17, <1>18, <1>19, <1>20, <1>21, <1>22, <1>23,
     <1>24, <1>25, <1>26, <1>27, <1>28, <1>29, <1>30, <1>31
     DEF Next, Step

\* No step leaves a process without a live parent.
LEMMA ParentStep ==
  ASSUME IInv, [Next]_vars
  PROVE  ParentInv'
<1> USE Constants DEF IInv, ProcTypeOK, KernelTypeOK, ProcStates, PcLabels, StackInv,
        LoopInv, LockInv, ForkInv, ParentInv, Dead, ForkLabels, ExitLabels,
        WaitLocked, SelfLocked
<1>1. ASSUME NEW c \in Cpus, NEW p \in Procs, ForkCall(c, p)
      PROVE  ParentInv'
  BY <1>1 DEF ForkCall, At, Running, InUserMode, Goto, kernelVars
<1>2. ASSUME NEW c \in Cpus, NEW p \in Procs, ExitCall(c, p)
      PROVE  ParentInv'
  BY <1>2 DEF ExitCall, At, Running, Goto, kernelVars
<1>3. ASSUME NEW c \in Cpus, NEW p \in Procs, WaitCall(c, p)
      PROVE  ParentInv'
  BY <1>3 DEF WaitCall, At, Running, InUserMode, Goto, kernelVars
<1>4. ASSUME NEW c \in Cpus, NEW p \in Procs, NEW q \in Procs, Kill(c, p, q), curr[c] = p
      PROVE  ParentInv'
  BY <1>4 DEF Kill, KillVisit, InUserMode, At, Running, procVars
<1>5. ASSUME NEW c \in Cpus, NEW p \in Procs, AllocSkip(c, p)
      PROVE  ParentInv'
  BY <1>5 DEF AllocSkip, At, Running, Goto, Advance, kernelVars
<1>6. ASSUME NEW c \in Cpus, NEW p \in Procs, AllocFound(c, p)
      PROVE  ParentInv'
  BY <1>6 DEF AllocFound, At, Running, Goto, LockProc
<1>7. ASSUME NEW c \in Cpus, NEW p \in Procs, ForkNoMemory(c, p)
      PROVE  ParentInv'
  BY <1>7 DEF ForkNoMemory, At, Running, Goto, FreeFields
<1>8. ASSUME NEW c \in Cpus, NEW p \in Procs, ForkFill(c, p)
      PROVE  ParentInv'
  BY <1>8 DEF ForkFill, At, Running, Goto
<1>9. ASSUME NEW c \in Cpus, NEW p \in Procs, ForkSetParent(c, p)
      PROVE  ParentInv'
  BY <1>9 DEF ForkSetParent, At, Running, Goto, kernelVars
<1>10. ASSUME NEW c \in Cpus, NEW p \in Procs, ForkMakeRunnable(c, p)
      PROVE  ParentInv'
  BY <1>10 DEF ForkMakeRunnable, At, Running, Goto
<1>11. ASSUME NEW c \in Cpus, NEW p \in Procs, ExitAcquire(c, p)
      PROVE  ParentInv'
  BY <1>11 DEF ExitAcquire, At, Running, Goto, LockSpin
<1>12. ASSUME NEW c \in Cpus, NEW p \in Procs, ReparentSkip(c, p)
      PROVE  ParentInv'
  <2> USE <1>12 DEF ReparentSkip, At, Running, Goto, Advance, kernelVars
  \* The loop moves past the slot, which is not a child of p.
  <2>1. \A q \in Procs : parent'[q] = p =>
          /\ pc'[p] = "reparent" => idx'[p] <= q
          /\ pc'[p] # "exit_wake"
    <3> SUFFICES ASSUME NEW q \in Procs, parent'[q] = p
                 PROVE  /\ pc'[p] = "reparent" => idx'[p] <= q
                        /\ pc'[p] # "exit_wake"
      OBVIOUS
    <3>1. idx[p] <= q /\ idx[p] # q /\ idx[p] \in Procs
      OBVIOUS
    <3>2. CASE idx[p] = NPROC
      BY ONLY <3>1, <3>2, q \in Procs, SlotOrder
    <3>3. CASE idx[p] # NPROC
      <4>1. idx'[p] = idx[p] + 1 /\ pc'[p] = "reparent"
        BY <3>3
      <4> QED
        BY ONLY <3>1, <3>3, <4>1, q \in Procs, SlotOrder
    <3> QED
      BY <3>2, <3>3
  <2> QED
    BY <2>1
<1>13. ASSUME NEW c \in Cpus, NEW p \in Procs, ReparentChild(c, p)
      PROVE  ParentInv'
  <2> USE <1>13 DEF ReparentChild, At, Running, Goto, kernelVars
  <2>1. p # initproc /\ idx[p] \in Procs
    OBVIOUS
  <2>2. \A q \in Procs : parent'[q] = p => parent[q] = p /\ idx[p] < q
    <3> SUFFICES ASSUME NEW q \in Procs, parent'[q] = p
                 PROVE  parent[q] = p /\ idx[p] < q
      OBVIOUS
    <3>1. parent[q] = p /\ q # idx[p]
      BY <2>1
    <3>2. idx[p] <= q
      BY <3>1
    <3> QED
      BY ONLY <2>1, <3>1, <3>2, q \in Procs, SlotOrder
  <2>3. \A q, r \in Procs : q # p /\ parent'[r] = q => parent[r] = q \/ q = initproc
    OBVIOUS
  <2>4. \A q \in Procs : q # p => pc'[q] = pc[q]
    OBVIOUS
  <2>5. \A q \in Procs \ {initproc} : state'[q] \notin {"UNUSED", "USED"} =>
          parent'[q] # NoProc /\ state'[parent'[q]] \notin Dead
    OBVIOUS
  <2>6. \A q, r \in Procs : parent'[r] = q =>
          /\ pc'[q] \notin {"exit_wake", "exit_lock", "exit_zombie"}
          /\ pc'[q] = "reparent" => idx'[q] <= r
          /\ pc'[q] = "reparent_wake" => idx'[q] < r
    <3> SUFFICES ASSUME NEW q \in Procs, NEW r \in Procs, parent'[r] = q
                 PROVE  /\ pc'[q] \notin {"exit_wake", "exit_lock", "exit_zombie"}
                        /\ pc'[q] = "reparent" => idx'[q] <= r
                        /\ pc'[q] = "reparent_wake" => idx'[q] < r
      OBVIOUS
    <3>1. CASE q = p
      BY <2>2, <3>1
    <3>2. CASE q # p /\ q # initproc
      BY <2>3, <2>4, <3>2
    <3>3. CASE q = initproc
      BY <2>1, <2>4, <3>3
    <3> QED
      BY <3>1, <3>2, <3>3
  <2> QED
    BY <2>1, <2>4, <2>5, <2>6
<1>14. ASSUME NEW c \in Cpus, NEW p \in Procs, ReparentWakeup(c, p)
      PROVE  ParentInv'
  <2> USE <1>14 DEF ReparentWakeup, At, Running, Goto, Advance, WakeupVisit
  \* The loop moves past the slot, which was given to init.
  <2>1. \A q \in Procs : parent'[q] = p =>
          /\ pc'[p] = "reparent" => idx'[p] <= q
          /\ pc'[p] = "reparent_wake" => idx'[p] < q
          /\ pc'[p] # "exit_wake"
    <3> SUFFICES ASSUME NEW q \in Procs, parent'[q] = p
                 PROVE  /\ pc'[p] = "reparent" => idx'[p] <= q
                        /\ pc'[p] = "reparent_wake" => idx'[p] < q
                        /\ pc'[p] # "exit_wake"
      OBVIOUS
    <3>1. idx[p] < q /\ idx[p] \in Procs
      OBVIOUS
    <3>2. CASE widx[p] # NPROC
      BY <3>1, <3>2
    <3>3. CASE widx[p] = NPROC /\ idx[p] = NPROC
      BY ONLY <3>1, <3>3, q \in Procs, SlotOrder
    <3>4. CASE widx[p] = NPROC /\ idx[p] # NPROC
      <4>1. idx'[p] = idx[p] + 1 /\ pc'[p] = "reparent"
        BY <3>4
      <4> QED
        BY ONLY <3>1, <3>4, <4>1, q \in Procs, SlotOrder
    <3> QED
      BY <3>2, <3>3, <3>4
  <2>2. \A q \in Procs : state'[q] = state[q] \/ (state[q] = "SLEEPING" /\ state'[q] = "RUNNABLE")
    <3>1. KernelTypeOK /\ WakeupVisit(p, widx[p], initproc) /\ widx[p] \in Procs /\ initproc \in Channels
      OBVIOUS
    <3> QED
      BY ONLY <3>1, p \in Procs, WakeupEffect
  <2>3. \A q \in Procs : q # p => pc'[q] = pc[q] /\ idx'[q] = idx[q]
    OBVIOUS
  <2>4. pc'[p] \in {"reparent", "reparent_wake", "exit_wake"} /\ p # initproc /\ parent' = parent
    BY DEF WakeupVisit
  <2>5. \A q \in Procs \ {initproc} : state'[q] \notin {"UNUSED", "USED"} =>
          parent'[q] # NoProc /\ state'[parent'[q]] \notin Dead
    BY <2>2, <2>4
  <2>6. state'[initproc] \notin Dead /\ pc'[initproc] \notin ExitLabels
    BY <2>2, <2>3, <2>4
  <2> QED
    BY <2>1, <2>3, <2>4, <2>5, <2>6
<1>15. ASSUME NEW c \in Cpus, NEW p \in Procs, ExitWakeup(c, p)
      PROVE  ParentInv'
  BY <1>15 DEF ExitWakeup, At, Running, Goto, Advance, WakeupVisit
<1>16. ASSUME NEW c \in Cpus, NEW p \in Procs, ExitLock(c, p)
      PROVE  ParentInv'
  BY <1>16 DEF ExitLock, At, Running, Goto, LockProc
<1>17. ASSUME NEW c \in Cpus, NEW p \in Procs, ExitZombie(c, p)
      PROVE  ParentInv'
  BY <1>17 DEF ExitZombie, At, Running, Goto, Release
<1>18. ASSUME NEW c \in Cpus, NEW p \in Procs, WaitAcquire(c, p)
      PROVE  ParentInv'
  BY <1>18 DEF WaitAcquire, At, Running, Goto, LockSpin
<1>19. ASSUME NEW c \in Cpus, NEW p \in Procs, WaitSkip(c, p)
      PROVE  ParentInv'
  BY <1>19 DEF WaitSkip, At, Running, Goto, Advance, kernelVars
<1>20. ASSUME NEW c \in Cpus, NEW p \in Procs, WaitReap(c, p)
      PROVE  ParentInv'
  BY <1>20 DEF WaitReap, At, Running, Goto, WaitReturn, Release, FreeFields
<1>21. ASSUME NEW c \in Cpus, NEW p \in Procs, WaitCopyoutFails(c, p)
      PROVE  ParentInv'
  BY <1>21 DEF WaitCopyoutFails, At, Running, Goto, WaitReturn, Release
<1>22. ASSUME NEW c \in Cpus, NEW p \in Procs, WaitGiveUp(c, p)
      PROVE  ParentInv'
  BY <1>22 DEF WaitGiveUp, At, Running, Goto, WaitReturn, Release
<1>23. ASSUME NEW c \in Cpus, NEW p \in Procs, WaitSleep(c, p)
      PROVE  ParentInv'
  BY <1>23 DEF WaitSleep, At, Running, Goto, kernelVars
<1>24. ASSUME NEW c \in Cpus, NEW p \in Procs, WaitSleepLock(c, p)
      PROVE  ParentInv'
  BY <1>24 DEF WaitSleepLock, At, Running, Goto, SleepLock, LockProc
<1>25. ASSUME NEW c \in Cpus, NEW p \in Procs, WaitSleepRelease(c, p)
      PROVE  ParentInv'
  BY <1>25 DEF WaitSleepRelease, At, Running, Goto, Release
<1>26. ASSUME NEW c \in Cpus, NEW p \in Procs, WaitSleepSwitch(c, p)
      PROVE  ParentInv'
  BY <1>26 DEF WaitSleepSwitch, At, Running, Goto, SleepSwitch
<1>27. ASSUME NEW c \in Cpus, NEW p \in Procs, Preempt(c, p)
      PROVE  ParentInv'
  BY <1>27 DEF Preempt, Yield, Running, HoldsNothing, LockProc, procVars
<1>28. ASSUME NEW c \in Cpus, NEW p \in Procs, Dispatch(c, p)
      PROVE  ParentInv'
  BY <1>28 DEF Dispatch, Schedule, LockProc, procVars
<1>29. ASSUME NEW c \in Cpus, NEW p \in Procs, SwitchIn(c, p)
      PROVE  ParentInv'
  BY <1>29 DEF SwitchIn, Resume, procVars
<1>30. ASSUME NEW c \in Cpus, NEW p \in Procs, SwitchOut(c, p)
      PROVE  ParentInv'
  BY <1>30 DEF SwitchOut, SchedOut, procVars
<1>31. CASE UNCHANGED vars
  BY <1>31 DEF vars, kernelVars, procVars
<1> QED
  BY <1>1, <1>2, <1>3, <1>4, <1>5, <1>6, <1>7, <1>8, <1>9, <1>10, <1>11, <1>12,
     <1>13, <1>14, <1>15, <1>16, <1>17, <1>18, <1>19, <1>20, <1>21, <1>22, <1>23,
     <1>24, <1>25, <1>26, <1>27, <1>28, <1>29, <1>30, <1>31
     DEF Next, Step

\* No step leaves a process asleep in wait() over a zombie child.
LEMMA SleepStep ==
  ASSUME IInv, [Next]_vars
  PROVE  SleepInv'
<1> USE Constants DEF IInv, ProcTypeOK, KernelTypeOK, ProcStates, PcLabels, StackInv,
        LoopInv, LockInv, ForkInv, ParentInv, SleepInv, Sleepers, Scanned, Woken,
        Waiting, HasChild, Dead, ForkLabels, ExitLabels, WaitLocked, SelfLocked
<1>1. ASSUME NEW c \in Cpus, NEW p \in Procs, ForkCall(c, p)
      PROVE  SleepInv'
  BY <1>1 DEF ForkCall, At, Running, InUserMode, Goto, kernelVars
<1>2. ASSUME NEW c \in Cpus, NEW p \in Procs, ExitCall(c, p)
      PROVE  SleepInv'
  BY <1>2 DEF ExitCall, At, Running, Goto, kernelVars
<1>3. ASSUME NEW c \in Cpus, NEW p \in Procs, WaitCall(c, p)
      PROVE  SleepInv'
  BY <1>3 DEF WaitCall, At, Running, InUserMode, Goto, kernelVars
<1>4. ASSUME NEW c \in Cpus, NEW p \in Procs, NEW q \in Procs, Kill(c, p, q), curr[c] = p
      PROVE  SleepInv'
  BY <1>4 DEF Kill, KillVisit, InUserMode, At, Running, procVars
<1>5. ASSUME NEW c \in Cpus, NEW p \in Procs, AllocSkip(c, p)
      PROVE  SleepInv'
  BY <1>5 DEF AllocSkip, At, Running, Goto, Advance, kernelVars
<1>6. ASSUME NEW c \in Cpus, NEW p \in Procs, AllocFound(c, p)
      PROVE  SleepInv'
  BY <1>6 DEF AllocFound, At, Running, Goto, LockProc
<1>7. ASSUME NEW c \in Cpus, NEW p \in Procs, ForkNoMemory(c, p)
      PROVE  SleepInv'
  BY <1>7 DEF ForkNoMemory, At, Running, Goto, FreeFields
<1>8. ASSUME NEW c \in Cpus, NEW p \in Procs, ForkFill(c, p)
      PROVE  SleepInv'
  BY <1>8 DEF ForkFill, At, Running, Goto
<1>9. ASSUME NEW c \in Cpus, NEW p \in Procs, ForkSetParent(c, p)
      PROVE  SleepInv'
  BY <1>9 DEF ForkSetParent, At, Running, Goto, kernelVars
<1>10. ASSUME NEW c \in Cpus, NEW p \in Procs, ForkMakeRunnable(c, p)
      PROVE  SleepInv'
  BY <1>10 DEF ForkMakeRunnable, At, Running, Goto
<1>11. ASSUME NEW c \in Cpus, NEW p \in Procs, ExitAcquire(c, p)
      PROVE  SleepInv'
  BY <1>11 DEF ExitAcquire, At, Running, Goto, LockSpin
<1>12. ASSUME NEW c \in Cpus, NEW p \in Procs, ReparentSkip(c, p)
      PROVE  SleepInv'
  <2> USE <1>12 DEF ReparentSkip, At, Running, Goto, Advance, kernelVars
  <2>1. \A q \in Procs : Waiting(q)' <=> Waiting(q)
    OBVIOUS
  <2>2. Sleepers'
    BY <2>1
  <2>3. Scanned'
    BY <2>1
  <2>4. Woken'
    <3>1. widx'[p] = 1 /\ parent'[p] \in Procs
      BY Holders
    <3>2. widx'[p] <= parent'[p] /\ pc'[p] \notin {"exit_lock", "exit_zombie"}
      BY <3>1, SlotOrder
    <3> QED
      BY <2>1, <3>2
  <2> QED
    BY <2>2, <2>3, <2>4
<1>13. ASSUME NEW c \in Cpus, NEW p \in Procs, ReparentChild(c, p)
      PROVE  SleepInv'
  BY <1>13 DEF ReparentChild, At, Running, Goto, kernelVars
<1>14. ASSUME NEW c \in Cpus, NEW p \in Procs, ReparentWakeup(c, p)
      PROVE  SleepInv'
  <2> USE <1>14 DEF ReparentWakeup, At, Running, Goto, Advance
  <2>1. /\ UNCHANGED <<chan, parent, havekids>> /\ p # initproc
        /\ pc[p] = "reparent_wake" /\ pc'[p] \in {"reparent", "reparent_wake", "exit_wake"}
        /\ \A q \in Procs : q # p => pc'[q] = pc[q] /\ idx'[q] = idx[q] /\ widx'[q] = widx[q]
    BY DEF WakeupVisit
  <2>2. \A q \in Procs : state'[q] = state[q] \/ (state[q] = "SLEEPING" /\ state'[q] = "RUNNABLE")
    <3>1. KernelTypeOK /\ WakeupVisit(p, widx[p], initproc) /\ widx[p] \in Procs /\ initproc \in Channels
      OBVIOUS
    <3> QED
      BY ONLY <3>1, p \in Procs, WakeupEffect
  <2>3. \A q \in Procs : Waiting(q)' => Waiting(q)
    BY <2>1, <2>2
  <2>4. Sleepers'
    BY <2>1, <2>2, <2>3
  <2>5. widx[p] = 1 => ~ Waiting(initproc)'
    <3> SUFFICES ASSUME widx[p] = 1
                 PROVE  ~ Waiting(initproc)'
      OBVIOUS
    <3>1. state'[initproc] # "SLEEPING"
      BY <2>1, <2>2, <2>3 DEF WakeupVisit
    <3>2. pc'[initproc] # "wait_sw"
      BY <2>1, Holders DEF WakeupVisit
    <3> QED
      BY <3>1, <3>2
  <2>6. Scanned'
    <3> SUFFICES ASSUME NEW r \in Procs, NEW z \in Procs, parent'[z] = r, state'[z] = "ZOMBIE"
                 PROVE  /\ pc'[r] \notin {"wait_check", "wait_sleep", "wait_rel"}
                        /\ pc'[r] = "wait_scan" => idx'[r] <= z
                        /\ Waiting(r)' => r = initproc /\ \E q \in Procs :
                                            pc'[q] = "reparent_wake" /\ widx'[q] = 1
      BY DEF Scanned
    <3>1. parent[z] = r /\ state[z] = "ZOMBIE"
      BY <2>1, <2>2
    <3>2. pc'[r] \notin {"wait_check", "wait_sleep", "wait_rel"} /\ (pc'[r] = "wait_scan" => idx'[r] <= z)
      BY <2>1, <3>1
    <3>3. ASSUME Waiting(r)'
          PROVE  r = initproc /\ \E q \in Procs : pc'[q] = "reparent_wake" /\ widx'[q] = 1
      <4>1. r = initproc /\ \E q \in Procs : pc[q] = "reparent_wake" /\ widx[q] = 1
        BY <2>3, <3>1, <3>3
      <4>2. PICK q \in Procs : pc[q] = "reparent_wake" /\ widx[q] = 1
        BY <4>1
      <4>3. q # p
        BY <2>5, <3>3, <4>1, <4>2
      <4> QED
        BY <2>1, <4>1, <4>2, <4>3
    <3> QED
      BY <3>2, <3>3
  <2>7. Woken'
    <3>1. ASSUME pc'[p] = "exit_wake"
          PROVE  widx'[p] <= parent'[p]
      <4>1. widx'[p] = 1 /\ parent'[p] \in Procs
        BY <2>1, <3>1, Holders
      <4> QED
        BY <4>1, SlotOrder
    <3>2. \A q \in Procs : pc[q] \in {"exit_wake", "exit_lock", "exit_zombie"} => parent[q] \in Procs
      BY Holders
    <3> QED
      BY <2>1, <2>3, <3>1, <3>2
  <2> QED
    BY <2>4, <2>6, <2>7
<1>15. ASSUME NEW c \in Cpus, NEW p \in Procs, ExitWakeup(c, p)
      PROVE  SleepInv'
  <2> USE <1>15 DEF ExitWakeup, At, Running, Goto, Advance
  <2>1. /\ UNCHANGED <<chan, parent, havekids, idx>>
        /\ pc[p] = "exit_wake" /\ pc'[p] \in {"exit_wake", "exit_lock"}
        /\ \A q \in Procs : q # p => pc'[q] = pc[q] /\ widx'[q] = widx[q]
        /\ parent[p] \in Procs /\ widx[p] \in Procs
    BY Holders DEF WakeupVisit
  <2>2. \A q \in Procs : state'[q] = state[q] \/ (state[q] = "SLEEPING" /\ state'[q] = "RUNNABLE")
    <3>1. KernelTypeOK /\ WakeupVisit(p, widx[p], parent[p]) /\ widx[p] \in Procs /\ parent[p] \in Channels
      BY <2>1
    <3> QED
      BY ONLY <3>1, p \in Procs, WakeupEffect
  <2>3. \A q \in Procs : Waiting(q)' => Waiting(q)
    BY <2>1, <2>2
  <2>4. Sleepers'
    BY <2>1, <2>2, <2>3
  <2>5. Scanned'
    BY <2>1, <2>2, <2>3
  \* The parent of p is not p, so that the turn for its slot wakes it.
  <2>6. Waiting(parent[p])' => widx[p] <= parent[p] /\ widx[p] # parent[p]
    <3> SUFFICES ASSUME Waiting(parent[p])', widx[p] = parent[p]
                 PROVE  FALSE
      <4>1. ASSUME NEW q \in Procs, parent[p] = q, Waiting(q)'
            PROVE  Waiting(parent[p])
        BY <2>3, <4>1
      <4> QED
        BY <2>1, <4>1
    <3>1. PICK q \in Procs : q = parent[p] /\ q = widx[p] /\ q # p
      <4>1. parent[p] # p
        BY <2>1
      <4> QED
        BY <2>1, <4>1
    <3>2. state[q] = "SLEEPING" => chan[q] = q
      OBVIOUS
    <3>3. state'[q] # "SLEEPING"
      BY <2>1, <2>2, <3>1, <3>2 DEF WakeupVisit
    <3>4. plock[q] = NoCpu
      BY <3>1 DEF WakeupVisit
    <3>5. pc'[q] # "wait_sw"
      BY <2>1, <3>1, <3>4, Holders
    <3> QED
      BY <3>1, <3>3, <3>5
  <2>7. Woken'
    <3>1. CASE widx[p] = NPROC
      <4>1. ~ Waiting(parent[p])'
        BY ONLY <2>1, <2>6, <3>1, SlotOrder
      <4> QED
        BY <2>1, <2>3, <3>1, <4>1, Holders
    <3>2. CASE widx[p] # NPROC
      <4>1. Waiting(parent[p])' => widx[p] + 1 <= parent[p]
        BY ONLY <2>1, <2>6, <3>2, SlotOrder
      <4>2. pc'[p] = "exit_wake" /\ widx'[p] = widx[p] + 1
        BY <3>2
      <4> QED
        BY <2>1, <2>3, <4>1, <4>2, Holders
    <3> QED
      BY <3>1, <3>2
  <2> QED
    BY <2>4, <2>5, <2>7
<1>16. ASSUME NEW c \in Cpus, NEW p \in Procs, ExitLock(c, p)
      PROVE  SleepInv'
  BY <1>16 DEF ExitLock, At, Running, Goto, LockProc
<1>17. ASSUME NEW c \in Cpus, NEW p \in Procs, ExitZombie(c, p)
      PROVE  SleepInv'
  BY <1>17 DEF ExitZombie, At, Running, Goto, Release
<1>18. ASSUME NEW c \in Cpus, NEW p \in Procs, WaitAcquire(c, p)
      PROVE  SleepInv'
  BY <1>18 DEF WaitAcquire, At, Running, Goto, LockSpin
<1>19. ASSUME NEW c \in Cpus, NEW p \in Procs, WaitSkip(c, p)
      PROVE  SleepInv'
  <2> USE <1>19 DEF WaitSkip, At, Running, Goto, Advance, kernelVars
  <2>1. /\ UNCHANGED <<state, chan, parent, widx>>
        /\ pc[p] = "wait_scan" /\ pc'[p] \in {"wait_scan", "wait_check"}
        /\ \A q \in Procs : q # p => pc'[q] = pc[q] /\ idx'[q] = idx[q] /\ havekids'[q] = havekids[q]
    OBVIOUS
  <2>2. \A q \in Procs : Waiting(q)' <=> Waiting(q)
    BY <2>1
  <2>3. Sleepers'
    <3>1. havekids'[p] => havekids[p] \/ parent[idx[p]] = p
      <4>1. havekids' = [havekids EXCEPT ![p] = havekids[p] \/ parent[idx[p]] = p]
        OBVIOUS
      <4>2. havekids \in [Procs -> BOOLEAN]
        OBVIOUS
      <4> QED
        BY ONLY <4>1, <4>2, p \in Procs, Zenon
    <3>2. havekids[p] => HasChild(p)
      BY DEF Sleepers
    <3>3. parent[idx[p]] = p => HasChild(p)
      <4>1. idx[p] \in Procs
        OBVIOUS
      <4> QED
        BY ONLY <4>1
    <3>4. havekids'[p] => HasChild(p)
      BY ONLY <3>1, <3>2, <3>3
    <3> QED
      BY <2>1, <2>2, <3>4
  <2>4. \A z \in Procs : parent[z] = p /\ state[z] = "ZOMBIE" =>
          pc'[p] = "wait_scan" /\ idx'[p] <= z
    <3> SUFFICES ASSUME NEW z \in Procs, parent[z] = p, state[z] = "ZOMBIE"
                 PROVE  pc'[p] = "wait_scan" /\ idx'[p] <= z
      OBVIOUS
    <3>1. idx[p] <= z /\ idx[p] # z /\ idx[p] \in Procs
      OBVIOUS
    <3>2. idx[p] # NPROC /\ idx[p] + 1 <= z
      BY ONLY <3>1, z \in Procs, SlotOrder
    <3> QED
      BY <3>2
  <2>5. Scanned'
    BY <2>1, <2>2, <2>4
  <2>6. Woken'
    BY <2>1, <2>2
  <2> QED
    BY <2>3, <2>5, <2>6
<1>20. ASSUME NEW c \in Cpus, NEW p \in Procs, WaitReap(c, p)
      PROVE  SleepInv'
  BY <1>20 DEF WaitReap, At, Running, Goto, WaitReturn, Release, FreeFields
<1>21. ASSUME NEW c \in Cpus, NEW p \in Procs, WaitCopyoutFails(c, p)
      PROVE  SleepInv'
  BY <1>21 DEF WaitCopyoutFails, At, Running, Goto, WaitReturn, Release
<1>22. ASSUME NEW c \in Cpus, NEW p \in Procs, WaitGiveUp(c, p)
      PROVE  SleepInv'
  BY <1>22 DEF WaitGiveUp, At, Running, Goto, WaitReturn, Release
<1>23. ASSUME NEW c \in Cpus, NEW p \in Procs, WaitSleep(c, p)
      PROVE  SleepInv'
  BY <1>23 DEF WaitSleep, At, Running, Goto, kernelVars
<1>24. ASSUME NEW c \in Cpus, NEW p \in Procs, WaitSleepLock(c, p)
      PROVE  SleepInv'
  BY <1>24 DEF WaitSleepLock, At, Running, Goto, SleepLock, LockProc
<1>25. ASSUME NEW c \in Cpus, NEW p \in Procs, WaitSleepRelease(c, p)
      PROVE  SleepInv'
  BY <1>25 DEF WaitSleepRelease, At, Running, Goto, Release
<1>26. ASSUME NEW c \in Cpus, NEW p \in Procs, WaitSleepSwitch(c, p)
      PROVE  SleepInv'
  BY <1>26 DEF WaitSleepSwitch, At, Running, Goto, SleepSwitch
<1>27. ASSUME NEW c \in Cpus, NEW p \in Procs, Preempt(c, p)
      PROVE  SleepInv'
  BY <1>27 DEF Preempt, Yield, Running, HoldsNothing, LockProc, procVars
<1>28. ASSUME NEW c \in Cpus, NEW p \in Procs, Dispatch(c, p)
      PROVE  SleepInv'
  BY <1>28 DEF Dispatch, Schedule, LockProc, procVars
<1>29. ASSUME NEW c \in Cpus, NEW p \in Procs, SwitchIn(c, p)
      PROVE  SleepInv'
  BY <1>29 DEF SwitchIn, Resume, procVars
<1>30. ASSUME NEW c \in Cpus, NEW p \in Procs, SwitchOut(c, p)
      PROVE  SleepInv'
  BY <1>30 DEF SwitchOut, SchedOut, procVars
<1>31. CASE UNCHANGED vars
  BY <1>31 DEF vars, kernelVars, procVars
<1> QED
  BY <1>1, <1>2, <1>3, <1>4, <1>5, <1>6, <1>7, <1>8, <1>9, <1>10, <1>11, <1>12,
     <1>13, <1>14, <1>15, <1>16, <1>17, <1>18, <1>19, <1>20, <1>21, <1>22, <1>23,
     <1>24, <1>25, <1>26, <1>27, <1>28, <1>29, <1>30, <1>31
     DEF Next, Step

-----------------------------------------------------------------------------
(* The theorems *)

\* IInv holds in every reachable state.
THEOREM InvariantAlways == Spec => []IInv
<1>1. Init => IInv
  BY InitInv
<1>2. IInv /\ [Next]_vars => IInv'
  BY TypeStep, PidStep, StackStep, LoopStep, LockStep, ForkStep, ParentStep, SleepStep DEF IInv
<1> QED
  BY <1>1, <1>2, PTL DEF Spec

\* Every variable has its type in every reachable state; in particular no loop
\* runs past the process table and no pid beyond the bound is handed out.
THEOREM TypeCorrect == Spec => []ProcTypeOK
<1>1. IInv => ProcTypeOK
  BY DEF IInv
<1> QED
  BY <1>1, InvariantAlways, PTL

\* fork(), exit() and wait() call sched() only as it demands: the CPU holds the
\* p->lock of the process that leaves its stack, and no other lock.
THEOREM SchedNeverPanics == Spec => []SchedChecks
<1>1. IInv => SchedChecks
  <2> SUFFICES ASSUME IInv, NEW c \in Cpus, NEW p \in Procs, curr[c] = p, insched[p]
               PROVE  /\ plock[p] = c
                      /\ \A q \in Procs \ {p} : plock[q] # c
                      /\ \A l \in Spinlocks : spin[l] # c
    BY DEF SchedChecks
  <2>1. plock[p] = c
    BY DEF IInv, StackInv
  <2>2. \A q \in Procs \ {p} : plock[q] # c
    BY DEF IInv, StackInv, LockInv, Filling
  <2>3. \A l \in Spinlocks : spin[l] # c
    BY Constants DEF IInv, LockInv
  <2> QED
    BY <2>1, <2>2, <2>3
<1> QED
  BY <1>1, InvariantAlways, PTL

\* No two CPUs run on the same kernel stack, and none on the stack of a slot
\* that is free or still being filled in.
THEOREM StacksSeparate == Spec => []OneCpuPerStack
<1>1. IInv => OneCpuPerStack
  BY DEF IInv, StackInv, OneCpuPerStack
<1> QED
  BY <1>1, InvariantAlways, PTL

\* The slot that a fork() fills in belongs to it alone, although it holds the
\* slot's lock only in the beginning.
THEOREM SlotOwnedByFork == Spec => []ForkOwnsSlot
<1>1. IInv => ForkOwnsSlot
  BY DEF IInv, ForkInv, ForkOwnsSlot
<1> QED
  BY <1>1, InvariantAlways, PTL

\* reparent() forgets nobody: every process but init has a parent that has not
\* exited.
THEOREM NobodyOrphaned == Spec => []NoOrphan
<1>1. IInv => NoOrphan
  BY DEF IInv, ParentInv, NoOrphan, Dead
<1> QED
  BY <1>1, InvariantAlways, PTL

\* No exit() is lost on a parent asleep in wait(): when wait_lock is free, who
\* sleeps there has a child, and no child of its is a zombie.
THEOREM ExitsNoticed == Spec => []NoLostExit
<1>1. IInv => NoLostExit
  <2> SUFFICES ASSUME IInv, spin[waitlock] = NoCpu, NEW p \in Procs, state[p] = "SLEEPING"
               PROVE  /\ \E q \in Procs : parent[q] = p
                      /\ \A q \in Procs : parent[q] = p => state[q] # "ZOMBIE"
    BY DEF NoLostExit
  <2>1. \A q \in Procs : pc[q] # "reparent_wake"
    BY Holders DEF WaitLocked
  <2> QED
    BY <2>1 DEF IInv, SleepInv, Sleepers, Scanned, Waiting, HasChild
<1> QED
  BY <1>1, InvariantAlways, PTL

\* A zombie leaves the process table in one way: its parent, inside wait() and
\* holding wait_lock, frees its slot.
THEOREM OnlyParentReaps == Spec => ReapedByParent
<1> DEFINE Reaped(z) ==
      state[z] = "ZOMBIE" /\ state'[z] # "ZOMBIE" =>
        /\ state'[z] = "UNUSED"
        /\ \E c \in Cpus : spin[waitlock] = c /\ curr[c] = parent[z]
<1>1. ASSUME IInv, [Next]_vars
      PROVE  \A z \in Procs : Reaped(z)
  <2> USE <1>1 DEF IInv, ProcTypeOK, KernelTypeOK
  <2>1. ASSUME NEW c \in Cpus, NEW p \in Procs, WaitReap(c, p)
        PROVE  \A z \in Procs : Reaped(z)
    BY <2>1 DEF WaitReap, At, Running, FreeFields, LockInv, WaitLocked
  <2>2. ASSUME NEW c \in Cpus, NEW p \in Procs, AllocFound(c, p)
        PROVE  \A z \in Procs : Reaped(z)
    BY <2>2 DEF AllocFound
  <2>3. ASSUME NEW c \in Cpus, NEW p \in Procs, ForkNoMemory(c, p) \/ ForkMakeRunnable(c, p)
        PROVE  \A z \in Procs : Reaped(z)
    BY <2>3 DEF ForkNoMemory, ForkMakeRunnable, FreeFields, At, ForkInv, ForkLabels
  <2>4. ASSUME NEW c \in Cpus, NEW p \in Procs, ReparentWakeup(c, p) \/ ExitWakeup(c, p)
        PROVE  \A z \in Procs : Reaped(z)
    BY <2>4 DEF ReparentWakeup, ExitWakeup, WakeupVisit
  <2>5. ASSUME NEW c \in Cpus, NEW p \in Procs, ExitZombie(c, p) \/ WaitSleepSwitch(c, p)
        PROVE  \A z \in Procs : Reaped(z)
    BY <2>5 DEF ExitZombie, WaitSleepSwitch, SleepSwitch, At, Running
  <2>6. ASSUME NEW c \in Cpus, NEW p \in Procs, NEW q \in Procs, Kill(c, p, q)
        PROVE  \A z \in Procs : Reaped(z)
    BY <2>6 DEF Kill, KillVisit
  <2>7. ASSUME NEW c \in Cpus, NEW p \in Procs,
               Preempt(c, p) \/ Dispatch(c, p) \/ SwitchIn(c, p) \/ SwitchOut(c, p)
        PROVE  \A z \in Procs : Reaped(z)
    BY <2>7 DEF Preempt, Dispatch, SwitchIn, SwitchOut, Yield, Schedule, Resume, SchedOut, Running
  \* The other steps leave every p->state alone.
  <2>8. ASSUME NEW c \in Cpus, NEW p \in Procs,
               \/ ForkCall(c, p) \/ ExitCall(c, p) \/ WaitCall(c, p) \/ AllocSkip(c, p)
               \/ ForkFill(c, p) \/ ForkSetParent(c, p) \/ ExitAcquire(c, p)
               \/ ReparentSkip(c, p) \/ ReparentChild(c, p) \/ ExitLock(c, p)
               \/ WaitAcquire(c, p) \/ WaitSkip(c, p) \/ WaitCopyoutFails(c, p)
               \/ WaitGiveUp(c, p) \/ WaitSleep(c, p) \/ WaitSleepLock(c, p)
               \/ WaitSleepRelease(c, p)
        PROVE  state' = state
    BY <2>8 DEF ForkCall, ExitCall, WaitCall, AllocSkip, ForkFill, ForkSetParent, ExitAcquire,
                ReparentSkip, ReparentChild, ExitLock, WaitAcquire, WaitSkip, WaitCopyoutFails,
                WaitGiveUp, WaitSleep, WaitSleepLock, SleepLock, WaitSleepRelease, kernelVars
  <2>9. CASE UNCHANGED vars
    BY <2>9 DEF vars, kernelVars
  <2> QED
    BY <2>1, <2>2, <2>3, <2>4, <2>5, <2>6, <2>7, <2>8, <2>9 DEF Next, Step
<1>2. IInv /\ [Next]_vars =>
        [\A p \in Procs : state[p] = "ZOMBIE" /\ state'[p] # "ZOMBIE" =>
           /\ state'[p] = "UNUSED"
           /\ \E c \in Cpus : spin[waitlock] = c /\ curr[c] = parent[p]]_vars
  BY <1>1
<1> QED
  BY <1>2, InvariantAlways, PTL DEF Spec, ReapedByParent

================================================================================
