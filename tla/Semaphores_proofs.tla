-------------------------- MODULE Semaphores_proofs --------------------------
(***************************************************************************)
(* Proofs about Semaphores, for any number of processes, CPUs, semaphores  *)
(* and calls: the type invariant, what sched() relies on, the mutual       *)
(* exclusion of the semaphores' locks, and the absence of lost wakeups.    *)
(*                                                                         *)
(* All but the first hold because of one inductive invariant, IInv, which  *)
(* says for every process and lock which CPU must be where:                *)
(*   - StackInv: a process is on at most one CPU, and either executes or   *)
(*     has its p->lock held by that CPU;                                   *)
(*   - CallInv: the label a process is at fits the call it is in, and      *)
(*     nobody shares a semaphore with a process that opens it;             *)
(*   - LockInv: the CPU that holds a lock runs the process that took it;   *)
(*   - SleepInv: who sleeps, or is about to, finds the value zero, and     *)
(*     wakeup()'s loop leaves no sleeper behind.                           *)
(***************************************************************************)
EXTENDS Semaphores, TLAPS

\* p is between acquire() and release() of the lock of its semaphore.
CSLabels == {"body", "wake", "inc", "sleep", "sleep_rel"}

\* p holds its own p->lock although it executes.
SelfLocked == {"sleep_rel", "sleep_sw"}

StackInv ==
  /\ \A p \in Procs : state[p] \notin {"UNUSED", "USED"}
  /\ \A c \in Cpus, p \in Procs : curr[c] = p /\ insched[p] => plock[p] = c
  /\ \A c, d \in Cpus, p \in Procs : curr[c] = p /\ curr[d] = p => c = d
  /\ \A c \in Cpus, p \in Procs :
       plock[p] = c => curr[c] = p /\ (insched[p] \/ pc[p] \in SelfLocked)
  /\ \A p \in Procs : ~insched[p] => state[p] = "RUNNING" /\ \E c \in Cpus : curr[c] = p

CallInv ==
  /\ \A p \in Procs :
       /\ pc[p] # "panic"
       /\ pc[p] = "user" <=> call[p] = Abs!NoCall
       /\ pc[p] = "init" => call[p].op = "open"
       /\ pc[p] \in {"wake", "inc"} => call[p].op = "up"
       /\ pc[p] \in {"sleep", "sleep_rel", "sleep_sw"} => call[p].op = "down"
  /\ \A p, q \in Procs :
       p # q /\ call[p] # Abs!NoCall /\ call[q] # Abs!NoCall /\ call[p].sem = call[q].sem
         => call[p].op # "open"

LockInv ==
  /\ \A p \in Procs : pc[p] \in CSLabels \union SelfLocked => ~insched[p]
  /\ \A c \in Cpus, p \in Procs :
       /\ curr[c] = p /\ pc[p] \in CSLabels => spin[call[p].sem] = c
       /\ curr[c] = p /\ pc[p] \in SelfLocked => plock[p] = c
  /\ \A c \in Cpus, s \in Sems :
       spin[s] = c => \E p \in Procs : curr[c] = p /\ pc[p] \in CSLabels /\ call[p].sem = s

\* p sleeps on s, or has given up the lock of s to do so.
Sleeper(p, s) ==
  \/ state[p] = "SLEEPING" /\ chan[p] = s
  \/ pc[p] = "sleep_sw" /\ call[p].sem = s

SleepInv ==
  /\ \A p \in Procs : pc[p] # "wake" => widx[p] = 1
  /\ \A p \in Procs : state[p] = "SLEEPING" =>
       pc[p] = "acq" /\ call[p].op = "down" /\ call[p].sem = chan[p]
  /\ \A p \in Procs : pc[p] \in {"sleep", "sleep_rel", "wake"} => value[call[p].sem] = 0
  /\ \A p \in Procs, s \in Sems : Sleeper(p, s) => value[s] = 0
  /\ \A p, q \in Procs :
       /\ pc[p] = "wake" /\ Sleeper(q, call[p].sem) => widx[p] <= q
       /\ pc[p] = "inc" => ~Sleeper(q, call[p].sem)


-----------------------------------------------------------------------------
(* The constants *)

LEMMA Constants ==
  /\ NPROC \in Nat /\ 1 \in Procs /\ NPROC \in Procs /\ Procs \subseteq Nat
  /\ \A p \in Procs : 1 <= p /\ p <= NPROC
  /\ \A p \in Procs : p # NPROC => p + 1 \in Procs
  /\ NoProc \notin Procs /\ NoCpu \notin Cpus
  /\ Spinlocks = Sems /\ Channels = Sems /\ NoChan \notin Sems
  /\ Values \subseteq Nat /\ MaxCalls \in Nat /\ ExclusiveOpen \in BOOLEAN
BY KernelAssumption, SemAssumption DEF Procs, Cpus, NoProc, NoCpu

LEMMA SlotOrder ==
  \A a, b \in Procs :
    /\ a <= b /\ a # b => a < b
    /\ a < b /\ a # NPROC => a + 1 <= b
    /\ ~ (NPROC < b)
BY KernelAssumption DEF Procs

LEMMA CallFacts ==
  /\ Abs!NoCall \notin Abs!Calls /\ Abs!NoCall.op = "none"
  /\ \A k \in Abs!Calls :
       /\ k.op \in {"open", "close", "up", "down"}
       /\ k.sem \in Sems
       /\ k.op = "open" => k.value \in Values
BY DEF Abs!NoCall, Abs!Calls, Abs!Ops

-----------------------------------------------------------------------------
(* Type correctness *)

\* A process inside a system call has a call.
InCall == \A p \in Procs : pc[p] \notin {"user", "panic"} => call[p] # Abs!NoCall

TypeInv == SemTypeOK /\ InCall

LEMMA TypeInit == Init => TypeInv
BY Constants DEF Init, TypeInv, InCall, SemTypeOK, KernelTypeOK, ProcStates, PcLabels

LEMMA TypeStep ==
  ASSUME TypeInv, [Next]_vars
  PROVE  TypeInv'
<1> USE Constants, CallFacts DEF TypeInv, InCall, SemTypeOK, KernelTypeOK, ProcStates, PcLabels
<1>1. ASSUME NEW c \in Cpus, NEW p \in Procs, Call(c, p)
      PROVE  TypeInv'
  BY <1>1 DEF Call, Goto, kernelVars
<1>2. ASSUME NEW c \in Cpus, NEW p \in Procs, Acquire(c, p)
      PROVE  TypeInv'
  BY <1>2 DEF Acquire, LockSpin, Goto, At
<1>3. ASSUME NEW c \in Cpus, NEW p \in Procs, OpenInitlock(c, p)
      PROVE  TypeInv'
  BY <1>3 DEF OpenInitlock, Release, Goto, At
<1>4. ASSUME NEW c \in Cpus, NEW p \in Procs, OpenBody(c, p)
      PROVE  TypeInv'
  BY <1>4 DEF OpenBody, ReleaseAndReturn, Goto, At
<1>5. ASSUME NEW c \in Cpus, NEW p \in Procs, CloseBody(c, p)
      PROVE  TypeInv'
  BY <1>5 DEF CloseBody, ReleaseAndReturn, Goto, At
<1>6. ASSUME NEW c \in Cpus, NEW p \in Procs, UpBody(c, p)
      PROVE  TypeInv'
  BY <1>6 DEF UpBody, Goto, kernelVars, At
<1>7. ASSUME NEW c \in Cpus, NEW p \in Procs, UpWakeup(c, p)
      PROVE  TypeInv'
  BY <1>7 DEF UpWakeup, WakeupVisit, Goto, At
<1>8. ASSUME NEW c \in Cpus, NEW p \in Procs, UpInc(c, p)
      PROVE  TypeInv'
  BY <1>8 DEF UpInc, ReleaseAndReturn, Goto, At
<1>9. ASSUME NEW c \in Cpus, NEW p \in Procs, DownTake(c, p)
      PROVE  TypeInv'
  BY <1>9 DEF DownTake, ReleaseAndReturn, Goto, At
<1>10. ASSUME NEW c \in Cpus, NEW p \in Procs, DownWait(c, p)
      PROVE  TypeInv'
  BY <1>10 DEF DownWait, Goto, kernelVars, At
<1>11. ASSUME NEW c \in Cpus, NEW p \in Procs, DownSleepLock(c, p)
      PROVE  TypeInv'
  BY <1>11 DEF DownSleepLock, SleepLock, LockProc, Goto, At
<1>12. ASSUME NEW c \in Cpus, NEW p \in Procs, DownSleepRelease(c, p)
      PROVE  TypeInv'
  BY <1>12 DEF DownSleepRelease, Goto, At
<1>13. ASSUME NEW c \in Cpus, NEW p \in Procs, DownSleepSwitch(c, p)
      PROVE  TypeInv'
  BY <1>13 DEF DownSleepSwitch, SleepSwitch, Goto, At
<1>14. ASSUME NEW c \in Cpus, NEW p \in Procs, Exit(c, p)
      PROVE  TypeInv'
  BY <1>14 DEF Exit, LockProc, semVars
<1>15. ASSUME NEW c \in Cpus, NEW p \in Procs, Preempt(c, p)
      PROVE  TypeInv'
  BY <1>15 DEF Preempt, Yield, LockProc, semVars
<1>16. ASSUME NEW c \in Cpus, NEW p \in Procs, Dispatch(c, p)
      PROVE  TypeInv'
  BY <1>16 DEF Dispatch, Schedule, LockProc, semVars
<1>17. ASSUME NEW c \in Cpus, NEW p \in Procs, SwitchIn(c, p)
      PROVE  TypeInv'
  BY <1>17 DEF SwitchIn, Resume, semVars
<1>18. ASSUME NEW c \in Cpus, NEW p \in Procs, SwitchOut(c, p)
      PROVE  TypeInv'
  BY <1>18 DEF SwitchOut, SchedOut, semVars
<1>19. ASSUME NEW p \in Procs, Kill(p)
       PROVE  TypeInv'
  BY <1>19 DEF Kill, KillVisit, semVars
<1>20. CASE UNCHANGED vars
  BY <1>20 DEF vars, kernelVars, semVars
<1> QED
  BY <1>1, <1>2, <1>3, <1>4, <1>5, <1>6, <1>7, <1>8, <1>9, <1>10, <1>11, <1>12, <1>13,
     <1>14, <1>15, <1>16, <1>17, <1>18, <1>19, <1>20
     DEF Next, Step

\* Every variable has its type in every reachable state.
THEOREM TypeCorrect == Spec => []SemTypeOK
<1>1. Init => TypeInv
  BY TypeInit
<1>2. TypeInv /\ [Next]_vars => TypeInv'
  BY TypeStep
<1>3. TypeInv => SemTypeOK
  BY DEF TypeInv
<1> QED
  BY <1>1, <1>2, <1>3, PTL DEF Spec

-----------------------------------------------------------------------------
(* The inductive invariant *)

IInv == TypeInv /\ StackInv /\ CallInv /\ LockInv /\ SleepInv

LEMMA IInit == Init => IInv
<1> SUFFICES ASSUME Init PROVE IInv
  OBVIOUS
<1>1. TypeInv
  BY TypeInit
<1>2. StackInv /\ CallInv /\ LockInv /\ SleepInv
  BY Constants DEF Init, StackInv, CallInv, LockInv, SleepInv, Sleeper, CSLabels, SelfLocked
<1> QED
  BY <1>1, <1>2 DEF IInv

LEMMA StackStep ==
  ASSUME IInv, ExclusiveOpen, [Next]_vars
  PROVE  StackInv'
<1> USE Constants, CallFacts DEF IInv, TypeInv, SemTypeOK, KernelTypeOK, InCall, StackInv, SelfLocked, CallInv, LockInv, CSLabels
<1>1. ASSUME NEW c \in Cpus, NEW p \in Procs, Call(c, p)
     PROVE  StackInv'
  BY <1>1 DEF Call, Goto, At, Running, kernelVars
<1>2. ASSUME NEW c \in Cpus, NEW p \in Procs, Acquire(c, p)
     PROVE  StackInv'
  BY <1>2 DEF Acquire, LockSpin, Goto, At, Running
<1>3. ASSUME NEW c \in Cpus, NEW p \in Procs, OpenInitlock(c, p)
     PROVE  StackInv'
  BY <1>3 DEF OpenInitlock, Release, Goto, At, Running
<1>4. ASSUME NEW c \in Cpus, NEW p \in Procs, OpenBody(c, p)
     PROVE  StackInv'
  BY <1>4 DEF OpenBody, ReleaseAndReturn, Goto, At, Running
<1>5. ASSUME NEW c \in Cpus, NEW p \in Procs, CloseBody(c, p)
     PROVE  StackInv'
  BY <1>5 DEF CloseBody, ReleaseAndReturn, Goto, At, Running
<1>6. ASSUME NEW c \in Cpus, NEW p \in Procs, UpBody(c, p)
     PROVE  StackInv'
  BY <1>6 DEF UpBody, Goto, At, Running, kernelVars
<1>7. ASSUME NEW c \in Cpus, NEW p \in Procs, UpWakeup(c, p)
     PROVE  StackInv'
  BY <1>7 DEF UpWakeup, WakeupVisit, Goto, At, Running
<1>8. ASSUME NEW c \in Cpus, NEW p \in Procs, UpInc(c, p)
     PROVE  StackInv'
  BY <1>8 DEF UpInc, ReleaseAndReturn, Goto, At, Running
<1>9. ASSUME NEW c \in Cpus, NEW p \in Procs, DownTake(c, p)
     PROVE  StackInv'
  BY <1>9 DEF DownTake, ReleaseAndReturn, Goto, At, Running
<1>10. ASSUME NEW c \in Cpus, NEW p \in Procs, DownWait(c, p)
     PROVE  StackInv'
  BY <1>10 DEF DownWait, Goto, At, Running, kernelVars
<1>11. ASSUME NEW c \in Cpus, NEW p \in Procs, DownSleepLock(c, p)
     PROVE  StackInv'
  BY <1>11 DEF DownSleepLock, SleepLock, LockProc, Goto, At, Running
<1>12. ASSUME NEW c \in Cpus, NEW p \in Procs, DownSleepRelease(c, p)
     PROVE  StackInv'
  BY <1>12 DEF DownSleepRelease, Goto, At, Running
<1>13. ASSUME NEW c \in Cpus, NEW p \in Procs, DownSleepSwitch(c, p)
     PROVE  StackInv'
  BY <1>13 DEF DownSleepSwitch, SleepSwitch, Goto, At, Running
<1>14. ASSUME NEW c \in Cpus, NEW p \in Procs, Exit(c, p)
     PROVE  StackInv'
  BY <1>14 DEF Exit, LockProc, At, Running, semVars
<1>15. ASSUME NEW c \in Cpus, NEW p \in Procs, Preempt(c, p)
     PROVE  StackInv'
  BY <1>15 DEF Preempt, Yield, LockProc, HoldsNothing, Running, semVars
<1>16. ASSUME NEW c \in Cpus, NEW p \in Procs, Dispatch(c, p)
     PROVE  StackInv'
  BY <1>16 DEF Dispatch, Schedule, LockProc, semVars
<1>17. ASSUME NEW c \in Cpus, NEW p \in Procs, SwitchIn(c, p)
     PROVE  StackInv'
  BY <1>17 DEF SwitchIn, Resume, semVars
<1>18. ASSUME NEW c \in Cpus, NEW p \in Procs, SwitchOut(c, p)
     PROVE  StackInv'
  BY <1>18 DEF SwitchOut, SchedOut, semVars
<1>19. ASSUME NEW p \in Procs, Kill(p)
     PROVE  StackInv'
  BY <1>19 DEF Kill, KillVisit, semVars
<1>20. CASE UNCHANGED vars
  BY <1>20 DEF vars, kernelVars, semVars
<1> QED
  BY <1>1, <1>2, <1>3, <1>4, <1>5, <1>6, <1>7, <1>8, <1>9, <1>10, <1>11, <1>12, <1>13,
     <1>14, <1>15, <1>16, <1>17, <1>18, <1>19, <1>20
     DEF Next, Step

LEMMA CallStep ==
  ASSUME IInv, ExclusiveOpen, [Next]_vars
  PROVE  CallInv'
<1> USE Constants, CallFacts DEF IInv, TypeInv, SemTypeOK, KernelTypeOK, InCall, CallInv, LockInv, StackInv, CSLabels, SelfLocked
<1>1. ASSUME NEW c \in Cpus, NEW p \in Procs, Call(c, p)
     PROVE  CallInv'
  BY <1>1 DEF Call, Goto, At, Running, kernelVars, MayCall
<1>2. ASSUME NEW c \in Cpus, NEW p \in Procs, Acquire(c, p)
     PROVE  CallInv'
  BY <1>2 DEF Acquire, LockSpin, Goto, At, Running
<1>3. ASSUME NEW c \in Cpus, NEW p \in Procs, OpenInitlock(c, p)
     PROVE  CallInv'
  BY <1>3 DEF OpenInitlock, Release, Goto, At, Running
<1>4. ASSUME NEW c \in Cpus, NEW p \in Procs, OpenBody(c, p)
     PROVE  CallInv'
  BY <1>4 DEF OpenBody, ReleaseAndReturn, Goto, At, Running
<1>5. ASSUME NEW c \in Cpus, NEW p \in Procs, CloseBody(c, p)
     PROVE  CallInv'
  BY <1>5 DEF CloseBody, ReleaseAndReturn, Goto, At, Running
<1>6. ASSUME NEW c \in Cpus, NEW p \in Procs, UpBody(c, p)
     PROVE  CallInv'
  BY <1>6 DEF UpBody, Goto, At, Running, kernelVars
<1>7. ASSUME NEW c \in Cpus, NEW p \in Procs, UpWakeup(c, p)
     PROVE  CallInv'
  BY <1>7 DEF UpWakeup, WakeupVisit, Goto, At, Running
<1>8. ASSUME NEW c \in Cpus, NEW p \in Procs, UpInc(c, p)
     PROVE  CallInv'
  BY <1>8 DEF UpInc, ReleaseAndReturn, Goto, At, Running
<1>9. ASSUME NEW c \in Cpus, NEW p \in Procs, DownTake(c, p)
     PROVE  CallInv'
  BY <1>9 DEF DownTake, ReleaseAndReturn, Goto, At, Running
<1>10. ASSUME NEW c \in Cpus, NEW p \in Procs, DownWait(c, p)
     PROVE  CallInv'
  BY <1>10 DEF DownWait, Goto, At, Running, kernelVars
<1>11. ASSUME NEW c \in Cpus, NEW p \in Procs, DownSleepLock(c, p)
     PROVE  CallInv'
  BY <1>11 DEF DownSleepLock, SleepLock, LockProc, Goto, At, Running
<1>12. ASSUME NEW c \in Cpus, NEW p \in Procs, DownSleepRelease(c, p)
     PROVE  CallInv'
  BY <1>12 DEF DownSleepRelease, Goto, At, Running
<1>13. ASSUME NEW c \in Cpus, NEW p \in Procs, DownSleepSwitch(c, p)
     PROVE  CallInv'
  BY <1>13 DEF DownSleepSwitch, SleepSwitch, Goto, At, Running
<1>14. ASSUME NEW c \in Cpus, NEW p \in Procs, Exit(c, p)
     PROVE  CallInv'
  BY <1>14 DEF Exit, LockProc, At, Running, semVars
<1>15. ASSUME NEW c \in Cpus, NEW p \in Procs, Preempt(c, p)
     PROVE  CallInv'
  BY <1>15 DEF Preempt, Yield, LockProc, HoldsNothing, Running, semVars
<1>16. ASSUME NEW c \in Cpus, NEW p \in Procs, Dispatch(c, p)
     PROVE  CallInv'
  BY <1>16 DEF Dispatch, Schedule, LockProc, semVars
<1>17. ASSUME NEW c \in Cpus, NEW p \in Procs, SwitchIn(c, p)
     PROVE  CallInv'
  BY <1>17 DEF SwitchIn, Resume, semVars
<1>18. ASSUME NEW c \in Cpus, NEW p \in Procs, SwitchOut(c, p)
     PROVE  CallInv'
  BY <1>18 DEF SwitchOut, SchedOut, semVars
<1>19. ASSUME NEW p \in Procs, Kill(p)
     PROVE  CallInv'
  BY <1>19 DEF Kill, KillVisit, semVars
<1>20. CASE UNCHANGED vars
  BY <1>20 DEF vars, kernelVars, semVars
<1> QED
  BY <1>1, <1>2, <1>3, <1>4, <1>5, <1>6, <1>7, <1>8, <1>9, <1>10, <1>11, <1>12, <1>13,
     <1>14, <1>15, <1>16, <1>17, <1>18, <1>19, <1>20
     DEF Next, Step

LEMMA LockStep ==
  ASSUME IInv, ExclusiveOpen, [Next]_vars
  PROVE  LockInv'
<1> USE Constants, CallFacts DEF IInv, TypeInv, SemTypeOK, KernelTypeOK, InCall, LockInv, StackInv, CallInv, CSLabels, SelfLocked
<1>1. ASSUME NEW c \in Cpus, NEW p \in Procs, Call(c, p)
     PROVE  LockInv'
  BY <1>1 DEF Call, Goto, At, Running, kernelVars
<1>2. ASSUME NEW c \in Cpus, NEW p \in Procs, Acquire(c, p)
     PROVE  LockInv'
  BY <1>2 DEF Acquire, LockSpin, Goto, At, Running
<1>3. ASSUME NEW c \in Cpus, NEW p \in Procs, OpenInitlock(c, p)
     PROVE  LockInv'
  BY <1>3 DEF OpenInitlock, Release, Goto, At, Running
<1>4. ASSUME NEW c \in Cpus, NEW p \in Procs, OpenBody(c, p)
     PROVE  LockInv'
  BY <1>4 DEF OpenBody, ReleaseAndReturn, Goto, At, Running
<1>5. ASSUME NEW c \in Cpus, NEW p \in Procs, CloseBody(c, p)
     PROVE  LockInv'
  BY <1>5 DEF CloseBody, ReleaseAndReturn, Goto, At, Running
<1>6. ASSUME NEW c \in Cpus, NEW p \in Procs, UpBody(c, p)
     PROVE  LockInv'
  BY <1>6 DEF UpBody, Goto, At, Running, kernelVars
<1>7. ASSUME NEW c \in Cpus, NEW p \in Procs, UpWakeup(c, p)
     PROVE  LockInv'
  BY <1>7 DEF UpWakeup, WakeupVisit, Goto, At, Running
<1>8. ASSUME NEW c \in Cpus, NEW p \in Procs, UpInc(c, p)
     PROVE  LockInv'
  BY <1>8 DEF UpInc, ReleaseAndReturn, Goto, At, Running
<1>9. ASSUME NEW c \in Cpus, NEW p \in Procs, DownTake(c, p)
     PROVE  LockInv'
  BY <1>9 DEF DownTake, ReleaseAndReturn, Goto, At, Running
<1>10. ASSUME NEW c \in Cpus, NEW p \in Procs, DownWait(c, p)
     PROVE  LockInv'
  BY <1>10 DEF DownWait, Goto, At, Running, kernelVars
<1>11. ASSUME NEW c \in Cpus, NEW p \in Procs, DownSleepLock(c, p)
     PROVE  LockInv'
  BY <1>11 DEF DownSleepLock, SleepLock, LockProc, Goto, At, Running
<1>12. ASSUME NEW c \in Cpus, NEW p \in Procs, DownSleepRelease(c, p)
     PROVE  LockInv'
  BY <1>12 DEF DownSleepRelease, Goto, At, Running
<1>13. ASSUME NEW c \in Cpus, NEW p \in Procs, DownSleepSwitch(c, p)
     PROVE  LockInv'
  BY <1>13 DEF DownSleepSwitch, SleepSwitch, Goto, At, Running
<1>14. ASSUME NEW c \in Cpus, NEW p \in Procs, Exit(c, p)
     PROVE  LockInv'
  BY <1>14 DEF Exit, LockProc, At, Running, semVars
<1>15. ASSUME NEW c \in Cpus, NEW p \in Procs, Preempt(c, p)
     PROVE  LockInv'
  BY <1>15 DEF Preempt, Yield, LockProc, HoldsNothing, Running, semVars
<1>16. ASSUME NEW c \in Cpus, NEW p \in Procs, Dispatch(c, p)
     PROVE  LockInv'
  BY <1>16 DEF Dispatch, Schedule, LockProc, semVars
<1>17. ASSUME NEW c \in Cpus, NEW p \in Procs, SwitchIn(c, p)
     PROVE  LockInv'
  BY <1>17 DEF SwitchIn, Resume, semVars
<1>18. ASSUME NEW c \in Cpus, NEW p \in Procs, SwitchOut(c, p)
     PROVE  LockInv'
  BY <1>18 DEF SwitchOut, SchedOut, semVars
<1>19. ASSUME NEW p \in Procs, Kill(p)
     PROVE  LockInv'
  BY <1>19 DEF Kill, KillVisit, semVars
<1>20. CASE UNCHANGED vars
  BY <1>20 DEF vars, kernelVars, semVars
<1> QED
  BY <1>1, <1>2, <1>3, <1>4, <1>5, <1>6, <1>7, <1>8, <1>9, <1>10, <1>11, <1>12, <1>13,
     <1>14, <1>15, <1>16, <1>17, <1>18, <1>19, <1>20
     DEF Next, Step

LEMMA SleepStep ==
  ASSUME IInv, ExclusiveOpen, [Next]_vars
  PROVE  SleepInv'
<1> USE Constants, CallFacts DEF IInv, TypeInv, SemTypeOK, KernelTypeOK, InCall, SleepInv, Sleeper, LockInv, StackInv, CallInv, CSLabels, SelfLocked
<1>1. ASSUME NEW c \in Cpus, NEW p \in Procs, Call(c, p)
     PROVE  SleepInv'
  BY <1>1 DEF Call, Goto, At, Running, kernelVars
<1>2. ASSUME NEW c \in Cpus, NEW p \in Procs, Acquire(c, p)
     PROVE  SleepInv'
  BY <1>2 DEF Acquire, LockSpin, Goto, At, Running
<1>3. ASSUME NEW c \in Cpus, NEW p \in Procs, OpenInitlock(c, p)
     PROVE  SleepInv'
  BY <1>3 DEF OpenInitlock, Release, Goto, At, Running
<1>4. ASSUME NEW c \in Cpus, NEW p \in Procs, OpenBody(c, p)
     PROVE  SleepInv'
  BY <1>4 DEF OpenBody, ReleaseAndReturn, Goto, At, Running
<1>5. ASSUME NEW c \in Cpus, NEW p \in Procs, CloseBody(c, p)
     PROVE  SleepInv'
  BY <1>5 DEF CloseBody, ReleaseAndReturn, Goto, At, Running
<1>6. ASSUME NEW c \in Cpus, NEW p \in Procs, UpBody(c, p)
     PROVE  SleepInv'
  BY <1>6 DEF UpBody, Goto, At, Running, kernelVars
<1>7. ASSUME NEW c \in Cpus, NEW p \in Procs, UpWakeup(c, p)
     PROVE  SleepInv'
  <2> USE <1>7 DEF UpWakeup, WakeupVisit, Goto, At, Running
  \* Nobody joins the sleepers, and the slot just visited has left them.
  <2>1. \A q \in Procs, s \in Sems : Sleeper(q, s)' => Sleeper(q, s)
    OBVIOUS
  <2>2. \A q \in Procs, s \in Sems : q = widx[p] /\ s = call[p].sem => ~ Sleeper(q, s)'
    <3> SUFFICES ASSUME NEW q \in Procs, NEW s \in Sems, q = widx[p], s = call[p].sem
                 PROVE  ~ Sleeper(q, s)'
      OBVIOUS
    <3>1. CASE q = p
      BY <3>1
    <3>2. CASE q # p
      BY <3>2
    <3> QED
      BY <3>1, <3>2
  <2>3. \A q \in Procs : q # p => pc'[q] = pc[q] /\ widx'[q] = widx[q]
    OBVIOUS
  <2>4. \A q \in Procs, s \in Sems : s = call[p].sem /\ Sleeper(q, s)' => widx[p] < q
    <3> SUFFICES ASSUME NEW q \in Procs, NEW s \in Sems, s = call[p].sem, Sleeper(q, s)'
                 PROVE  widx[p] < q
      OBVIOUS
    <3>1. Sleeper(q, s)
      BY <2>1
    <3>2. widx[p] <= q
      BY <3>1
    <3>3. q # widx[p]
      BY <2>2
    <3>4. widx[p] \in Procs
      OBVIOUS
    <3> QED
      BY ONLY <3>2, <3>3, <3>4, q \in Procs, SlotOrder
  <2>5. \A q \in Procs : state'[q] = "SLEEPING" =>
          pc'[q] = "acq" /\ call'[q].op = "down" /\ call'[q].sem = chan'[q]
    OBVIOUS
  <2>6. \A q, r \in Procs, s \in Sems : s = call[q].sem =>
          /\ pc'[q] = "wake" /\ Sleeper(r, s)' => widx'[q] <= r
          /\ pc'[q] = "inc" => ~ Sleeper(r, s)'
    <3> SUFFICES ASSUME NEW q \in Procs, NEW r \in Procs, NEW s \in Sems, s = call[q].sem
                 PROVE  /\ pc'[q] = "wake" /\ Sleeper(r, s)' => widx'[q] <= r
                        /\ pc'[q] = "inc" => ~ Sleeper(r, s)'
      OBVIOUS
    <3>1. CASE q = p
      <4>1. Sleeper(r, s)' => widx[p] < r
        BY <2>4, <3>1
      <4>2. CASE widx[p] = NPROC
        BY <3>1, <4>1, <4>2
      <4>3. CASE widx[p] # NPROC
        <5>1. widx'[q] = widx[p] + 1 /\ pc'[q] = "wake"
          BY <3>1, <4>3
        <5>2. widx[p] \in Procs
          OBVIOUS
        <5> QED
          BY ONLY <4>1, <4>3, <5>1, <5>2, r \in Procs, SlotOrder
      <4> QED
        BY <4>2, <4>3
    <3>2. CASE q # p
      BY <2>1, <2>3, <3>2
    <3> QED
      BY <3>1, <3>2
  <2> QED
    BY <2>1, <2>5, <2>6
<1>8. ASSUME NEW c \in Cpus, NEW p \in Procs, UpInc(c, p)
     PROVE  SleepInv'
  BY <1>8 DEF UpInc, ReleaseAndReturn, Goto, At, Running
<1>9. ASSUME NEW c \in Cpus, NEW p \in Procs, DownTake(c, p)
     PROVE  SleepInv'
  BY <1>9 DEF DownTake, ReleaseAndReturn, Goto, At, Running
<1>10. ASSUME NEW c \in Cpus, NEW p \in Procs, DownWait(c, p)
     PROVE  SleepInv'
  BY <1>10 DEF DownWait, Goto, At, Running, kernelVars
<1>11. ASSUME NEW c \in Cpus, NEW p \in Procs, DownSleepLock(c, p)
     PROVE  SleepInv'
  BY <1>11 DEF DownSleepLock, SleepLock, LockProc, Goto, At, Running
<1>12. ASSUME NEW c \in Cpus, NEW p \in Procs, DownSleepRelease(c, p)
     PROVE  SleepInv'
  BY <1>12 DEF DownSleepRelease, Goto, At, Running
<1>13. ASSUME NEW c \in Cpus, NEW p \in Procs, DownSleepSwitch(c, p)
     PROVE  SleepInv'
  BY <1>13 DEF DownSleepSwitch, SleepSwitch, Goto, At, Running
<1>14. ASSUME NEW c \in Cpus, NEW p \in Procs, Exit(c, p)
     PROVE  SleepInv'
  BY <1>14 DEF Exit, LockProc, At, Running, semVars
<1>15. ASSUME NEW c \in Cpus, NEW p \in Procs, Preempt(c, p)
     PROVE  SleepInv'
  BY <1>15 DEF Preempt, Yield, LockProc, HoldsNothing, Running, semVars
<1>16. ASSUME NEW c \in Cpus, NEW p \in Procs, Dispatch(c, p)
     PROVE  SleepInv'
  BY <1>16 DEF Dispatch, Schedule, LockProc, semVars
<1>17. ASSUME NEW c \in Cpus, NEW p \in Procs, SwitchIn(c, p)
     PROVE  SleepInv'
  BY <1>17 DEF SwitchIn, Resume, semVars
<1>18. ASSUME NEW c \in Cpus, NEW p \in Procs, SwitchOut(c, p)
     PROVE  SleepInv'
  BY <1>18 DEF SwitchOut, SchedOut, semVars
<1>19. ASSUME NEW p \in Procs, Kill(p)
     PROVE  SleepInv'
  BY <1>19 DEF Kill, KillVisit, semVars
<1>20. CASE UNCHANGED vars
  BY <1>20 DEF vars, kernelVars, semVars
<1> QED
  BY <1>1, <1>2, <1>3, <1>4, <1>5, <1>6, <1>7, <1>8, <1>9, <1>10, <1>11, <1>12, <1>13,
     <1>14, <1>15, <1>16, <1>17, <1>18, <1>19, <1>20
     DEF Next, Step

\* IInv holds in every reachable state, if programs open a semaphore only while
\* nobody uses it.
THEOREM InvariantAlways ==
  ASSUME ExclusiveOpen
  PROVE  Spec => []IInv
<1>1. Init => IInv
  BY IInit
<1>2. IInv /\ [Next]_vars => IInv'
  BY TypeStep, StackStep, CallStep, LockStep, SleepStep DEF IInv
<1> QED
  BY <1>1, <1>2, PTL DEF Spec

-----------------------------------------------------------------------------
(* What follows from it *)

\* The lock of a semaphore keeps every two processes apart: both would be on the
\* CPU that holds the lock, and a CPU runs one process.
THEOREM MutualExclusion ==
  ASSUME ExclusiveOpen
  PROVE  Spec => []SemMutex
<1>1. IInv => SemMutex
  <2> SUFFICES ASSUME IInv, NEW s \in Sems, NEW p \in Procs, NEW q \in Procs,
                      InCriticalSection(p, s), InCriticalSection(q, s)
               PROVE  p = q
    BY DEF SemMutex
  <2>1. ~ insched[p] /\ ~ insched[q]
    BY DEF IInv, LockInv, InCriticalSection, CSLabels
  <2>2. PICK c \in Cpus : curr[c] = p
    BY <2>1 DEF IInv, StackInv
  <2>3. PICK d \in Cpus : curr[d] = q
    BY <2>1 DEF IInv, StackInv
  <2>4. spin[s] = c /\ spin[s] = d
    BY <2>2, <2>3 DEF IInv, LockInv, InCriticalSection, CSLabels
  <2> QED
    BY <2>2, <2>3, <2>4
<1> QED
  BY <1>1, InvariantAlways, PTL

\* No wakeup is lost: a semaphore that somebody sleeps on has value zero.
THEOREM NoLostWakeup ==
  ASSUME ExclusiveOpen
  PROVE  Spec => []NoSleeperLeftBehind
<1>1. IInv => NoSleeperLeftBehind
  BY DEF IInv, SleepInv, Sleeper, NoSleeperLeftBehind
<1> QED
  BY <1>1, InvariantAlways, PTL

\* sched() never panics in these system calls: whoever leaves its stack has its
\* CPU hold its p->lock and nothing else.
THEOREM SchedNeverPanics ==
  ASSUME ExclusiveOpen
  PROVE  Spec => []SchedChecks
<1>1. IInv => SchedChecks
  <2> SUFFICES ASSUME IInv, NEW c \in Cpus, NEW p \in Procs, curr[c] = p, insched[p]
               PROVE  /\ plock[p] = c
                      /\ \A q \in Procs \ {p} : plock[q] # c
                      /\ \A l \in Spinlocks : spin[l] # c
    BY DEF SchedChecks
  <2>1. plock[p] = c
    BY DEF IInv, StackInv
  <2>2. \A q \in Procs \ {p} : plock[q] # c
    BY DEF IInv, StackInv
  <2>3. \A l \in Spinlocks : spin[l] # c
    BY Constants DEF IInv, LockInv
  <2> QED
    BY <2>1, <2>2, <2>3
<1> QED
  BY <1>1, InvariantAlways, PTL

\* No two CPUs ever run on the same kernel stack.
THEOREM StacksSeparate ==
  ASSUME ExclusiveOpen
  PROVE  Spec => []OneCpuPerStack
<1>1. IInv => OneCpuPerStack
  BY DEF IInv, StackInv, OneCpuPerStack
<1> QED
  BY <1>1, InvariantAlways, PTL

-----------------------------------------------------------------------------
(* Refinement *)

\* Every step of a system call is a step of AbstractSem or invisible to it: the
\* calls take effect one at a time, each at one instant (the safety part of
\* Linearizable).
THEOREM CallsAreAtomic ==
  ASSUME ExclusiveOpen
  PROVE  Spec => Abs!AbsInit /\ [][Abs!AbsNext]_(Abs!absVars)
<1>1. Init => Abs!AbsInit
  BY DEF Init, Abs!AbsInit
<1>2. IInv /\ [Next]_vars => [Abs!AbsNext]_(Abs!absVars)
  <2> SUFFICES ASSUME IInv, [Next]_vars PROVE [Abs!AbsNext]_(Abs!absVars)
    OBVIOUS
  <2> USE DEF Abs!absVars
  <2>1. ASSUME NEW c \in Cpus, NEW p \in Procs, Call(c, p)
        PROVE  Abs!Start(p)
    BY <2>1 DEF IInv, CallInv, Call, At, Abs!Start
  <2>2. ASSUME NEW c \in Cpus, NEW p \in Procs, OpenBody(c, p)
        PROVE  Abs!AbsOpen(p)
    BY <2>2 DEF OpenBody, ReleaseAndReturn, Abs!AbsOpen, Abs!Return
  <2>3. ASSUME NEW c \in Cpus, NEW p \in Procs, CloseBody(c, p)
        PROVE  Abs!AbsClose(p)
    BY <2>3 DEF CloseBody, ReleaseAndReturn, Abs!AbsClose, Abs!Return
  <2>4. ASSUME NEW c \in Cpus, NEW p \in Procs, UpInc(c, p)
        PROVE  Abs!AbsUp(p)
    BY <2>4 DEF IInv, CallInv, UpInc, At, ReleaseAndReturn, Abs!AbsUp, Abs!Return
  <2>5. ASSUME NEW c \in Cpus, NEW p \in Procs, DownTake(c, p)
        PROVE  Abs!AbsDown(p)
    BY <2>5 DEF DownTake, ReleaseAndReturn, Abs!AbsDown, Abs!Return
  <2>6. ASSUME NEW c \in Cpus, NEW p \in Procs,
               \/ Acquire(c, p) \/ OpenInitlock(c, p) \/ UpBody(c, p) \/ UpWakeup(c, p)
               \/ DownWait(c, p) \/ DownSleepLock(c, p) \/ DownSleepRelease(c, p)
               \/ DownSleepSwitch(c, p)
        PROVE  UNCHANGED Abs!absVars
    BY <2>6 DEF Acquire, OpenInitlock, UpBody, UpWakeup, DownWait, DownSleepLock,
                DownSleepRelease, DownSleepSwitch
  <2>7. ASSUME NEW c \in Cpus, NEW p \in Procs,
               \/ Exit(c, p) \/ Preempt(c, p) \/ Dispatch(c, p)
               \/ SwitchIn(c, p) \/ SwitchOut(c, p)
        PROVE  UNCHANGED Abs!absVars
    BY <2>7 DEF Exit, Preempt, Dispatch, SwitchIn, SwitchOut, semVars
  <2>8. CASE UNCHANGED vars
    BY <2>8 DEF vars, semVars
  <2>9. ASSUME NEW p \in Procs, Kill(p)
        PROVE  UNCHANGED Abs!absVars
    BY <2>9 DEF Kill, semVars
  <2> QED
    BY <2>1, <2>2, <2>3, <2>4, <2>5, <2>6, <2>7, <2>8, <2>9
       DEF Next, Step, Abs!AbsNext, Abs!Effect
<1> QED
  BY <1>1, <1>2, InvariantAlways, PTL DEF Spec

=============================================================================
