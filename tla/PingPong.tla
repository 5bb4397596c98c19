------------------------------ MODULE PingPong ------------------------------
(***************************************************************************)
(* The program of LAB2 that uses the semaphores (user/pingpong.c): main()  *)
(* opens two semaphores that nobody else has open, forks a child that      *)
(* prints "Ping" and one that prints "Pong" in turns, waits, and closes    *)
(* the semaphores.  Other programs go on using semaphores meanwhile, those *)
(* that main() closes before its last child is done among them.            *)
(*                                                                         *)
(* The system calls are AbstractSem's, so this is about programs that keep *)
(* the rule under which Semaphores implements it (ExclusiveOpen there):    *)
(* nobody opens a semaphore while another process is inside a call on it.  *)
(* main() tries semaphores that are open, so it keeps the rule only if no  *)
(* other program is inside a call on one at that moment, and nothing in    *)
(* the kernel sees to it: what happens otherwise is the run sem_reinit.    *)
(***************************************************************************)
EXTENDS AbstractSem, Sequences, FiniteSets

CONSTANTS
  rally,         \* atoi(argv[1])
  ForkMayFail    \* can fork() return -1?

ASSUME PingPongAssumption ==
  /\ rally \in Nat \ {0}
  /\ ForkMayFail \in BOOLEAN
  /\ Procs = {"main", "ping", "pong"}
  /\ IsFiniteSet(Sems) /\ Sems = 0..(Cardinality(Sems) - 1)
  /\ Cardinality(Sems) >= 2
  /\ {0, 1} \subseteq Values /\ Values \subseteq Int

VARIABLES
  taken,            \* the semaphores other programs have open
  pc,               \* where each of the three processes is
  semaphore_ping, semaphore_pong,  \* main's variables, copied by fork()
  i,                \* the children's loop counters
  out               \* what has been printed

userVars == <<taken, pc, semaphore_ping, semaphore_pong, i, out>>
ppVars == <<absVars, userVars>>

Children == {"ping", "pong"}

PcLabels == {"open_ping", "opened_ping", "open_pong", "opened_pong", "fork_ping", "fork_pong",
             "wait", "closed_pong", "closed_ping",
             "unborn", "loop", "downed", "upped", "exited"}

PingPongTypeOK ==
  /\ value \in [Sems -> Int]
  /\ open \in [Sems -> BOOLEAN]
  /\ call \in [Procs -> Calls \union {NoCall}]
  /\ ret \in [Procs -> {0, 1}]
  /\ taken \subseteq Sems
  /\ pc \in [Procs -> PcLabels]
  /\ semaphore_ping \in Sems /\ semaphore_pong \in Sems
  /\ i \in [Children -> 0..rally]
  /\ out \in Seq({"Ping", "Pong"}) /\ Len(out) <= 2 * rally

\* Other programs have opened any semaphores, but left two free.
PingPongInit ==
  /\ taken \in {T \in SUBSET Sems : Cardinality(Sems \ T) >= 2}
  /\ value = [s \in Sems |-> 0]
  /\ open = [s \in Sems |-> s \in taken]
  /\ call = [p \in Procs |-> NoCall]
  /\ ret = [p \in Procs |-> 1]
  /\ pc = [p \in Procs |-> IF p = "main" THEN "open_ping" ELSE "unborn"]
  /\ semaphore_ping = 1 /\ semaphore_pong = 0
  /\ i = [p \in Children |-> 0]
  /\ out = <<>>

-----------------------------------------------------------------------------

\* p executes its own code, in no system call, at the label.
UserAt(p, label) == call[p] = NoCall /\ pc[p] = label

Goto(p, label) == pc' = [pc EXCEPT ![p] = label]

\* p makes the system call k and continues at the label when it returns.
Invoke(p, k, label) ==
  /\ call' = [call EXCEPT ![p] = k]
  /\ Goto(p, label)
  /\ UNCHANGED <<value, open, ret>>

SemCall(o, s) == [op |-> o, sem |-> s]
OpenCall(s, v) == [op |-> "open", sem |-> s, value |-> v]

\* (mutant of MainOpenPing: opens it with value 1)
MainOpenPingOne ==
  /\ UserAt("main", "open_ping")
  /\ Invoke("main", OpenCall(semaphore_ping, 1), "opened_ping")
  /\ UNCHANGED <<taken, semaphore_ping, semaphore_pong, i, out>>

\* while (sem_open(semaphore_ping, 0) == false) semaphore_ping++;
MainOpenPing ==
  /\ UserAt("main", "open_ping")
  /\ Invoke("main", OpenCall(semaphore_ping, 0), "opened_ping")
  /\ UNCHANGED <<taken, semaphore_ping, semaphore_pong, i, out>>

MainOpenedPing ==
  /\ UserAt("main", "opened_ping")
  /\ semaphore_ping' = IF ret["main"] = 0 THEN semaphore_ping + 1 ELSE semaphore_ping
  /\ Goto("main", IF ret["main"] = 0 THEN "open_ping" ELSE "open_pong")
  /\ UNCHANGED <<absVars, taken, semaphore_pong, i, out>>

\* while (sem_open(semaphore_pong, 1) == false) semaphore_pong++;
MainOpenPong ==
  /\ UserAt("main", "open_pong")
  /\ Invoke("main", OpenCall(semaphore_pong, 1), "opened_pong")
  /\ UNCHANGED <<taken, semaphore_ping, semaphore_pong, i, out>>

MainOpenedPong ==
  /\ UserAt("main", "opened_pong")
  /\ semaphore_pong' = IF ret["main"] = 0 THEN semaphore_pong + 1 ELSE semaphore_pong
  /\ Goto("main", IF ret["main"] = 0 THEN "open_pong" ELSE "fork_ping")
  /\ UNCHANGED <<absVars, taken, semaphore_ping, i, out>>

\* The fork() in ping() or pong() succeeds.
MainFork(child, here, next) ==
  /\ UserAt("main", here)
  /\ pc' = [pc EXCEPT !["main"] = next, ![child] = "loop"]
  /\ UNCHANGED <<absVars, taken, semaphore_ping, semaphore_pong, i, out>>

\* It fails: the program exits and leaves its semaphores open.
MainForkFails ==
  /\ ForkMayFail
  /\ UserAt("main", "fork_ping") \/ UserAt("main", "fork_pong")
  /\ Goto("main", "exited")
  /\ UNCHANGED <<absVars, taken, semaphore_ping, semaphore_pong, i, out>>

\* (mutant of MainWait: does not wait)
MainWaitNot ==
  /\ UserAt("main", "wait")
  /\ Invoke("main", SemCall("close", semaphore_pong), "closed_pong")
  /\ UNCHANGED <<taken, semaphore_ping, semaphore_pong, i, out>>

\* wait(NULL): one child has exited; then sem_close(semaphore_pong).
MainWait ==
  /\ UserAt("main", "wait")
  /\ \E p \in Children : pc[p] = "exited"
  /\ Invoke("main", SemCall("close", semaphore_pong), "closed_pong")
  /\ UNCHANGED <<taken, semaphore_ping, semaphore_pong, i, out>>

\* (mutant of MainClosePing: closes the same semaphore again)
MainClosePongTwice ==
  /\ UserAt("main", "closed_pong")
  /\ IF ret["main"] = 0
       THEN Goto("main", "exited") /\ UNCHANGED absVars
       ELSE Invoke("main", SemCall("close", semaphore_pong), "closed_ping")
  /\ UNCHANGED <<taken, semaphore_ping, semaphore_pong, i, out>>

\* Unless that failed, sem_close(semaphore_ping).
MainClosePing ==
  /\ UserAt("main", "closed_pong")
  /\ IF ret["main"] = 0
       THEN Goto("main", "exited") /\ UNCHANGED absVars
       ELSE Invoke("main", SemCall("close", semaphore_ping), "closed_ping")
  /\ UNCHANGED <<taken, semaphore_ping, semaphore_pong, i, out>>

MainExit ==
  /\ UserAt("main", "closed_ping")
  /\ Goto("main", "exited")
  /\ UNCHANGED <<absVars, taken, semaphore_ping, semaphore_pong, i, out>>

-----------------------------------------------------------------------------
(* The children *)

Word(p) == IF p = "ping" THEN "Ping" ELSE "Pong"
DownSem(p) == IF p = "ping" THEN semaphore_pong ELSE semaphore_ping
UpSem(p) == IF p = "ping" THEN semaphore_ping ELSE semaphore_pong

\* for (i = 0; i < rally; i++): sem_down(), or exit at the end.
ChildDown(p) ==
  /\ UserAt(p, "loop")
  /\ IF i[p] < rally
       THEN Invoke(p, SemCall("down", DownSem(p)), "downed")
       ELSE Goto(p, "exited") /\ UNCHANGED absVars
  /\ UNCHANGED <<taken, semaphore_ping, semaphore_pong, i, out>>

\* sem_down() has returned: print the word and call sem_up().
ChildPrint(p) ==
  /\ UserAt(p, "downed")
  /\ IF ret[p] = 0
       THEN Goto(p, "exited") /\ UNCHANGED <<absVars, out>>
       ELSE out' = Append(out, Word(p)) /\ Invoke(p, SemCall("up", UpSem(p)), "upped")
  /\ UNCHANGED <<taken, semaphore_ping, semaphore_pong, i>>

\* sem_up() has returned: next turn.
ChildNext(p) ==
  /\ UserAt(p, "upped")
  /\ IF ret[p] = 0
       THEN Goto(p, "exited") /\ UNCHANGED i
       ELSE Goto(p, "loop") /\ i' = [i EXCEPT ![p] = @ + 1]
  /\ UNCHANGED <<absVars, taken, semaphore_ping, semaphore_pong, out>>

MainStep ==
  \/ MainOpenPing \/ MainOpenedPing \/ MainOpenPong \/ MainOpenedPong
  \/ MainFork("ping", "fork_ping", "fork_pong") \/ MainFork("pong", "fork_pong", "wait")
  \/ MainForkFails
  \/ MainWait \/ MainClosePing \/ MainExit

ChildStep(p) == ChildDown(p) \/ ChildPrint(p) \/ ChildNext(p)

SysCall(p) == Effect(p) /\ UNCHANGED userVars

\* main() is looking for its first, or its second semaphore.
PingSearch == {"open_ping", "opened_ping"}
PongSearch == {"open_pong", "opened_pong"}

\* main() has opened both.
Opened == pc["main"] \notin PingSearch \union PongSearch

\* Other programs use the semaphores they have open and, once main() has found
\* its two, open closed ones that no process is inside a call on.
OthersUse(s) ==
  /\ \/ s \in taken
     \/ Opened /\ ~open[s] /\ \A p \in Procs : call[p] # NoCall => call[p].sem # s
  /\ \E v \in Values : value' = [value EXCEPT ![s] = v]
  /\ open' = [open EXCEPT ![s] = TRUE]
  /\ taken' = taken \union {s}
  /\ UNCHANGED <<call, ret, pc, semaphore_ping, semaphore_pong, i, out>>

PingPongNext ==
  \/ MainStep
  \/ \E p \in Children : ChildStep(p)
  \/ \E p \in Procs : SysCall(p)
  \/ \E s \in Sems : OthersUse(s)

\* What the kernel gives every process: it runs, and its calls return.
PingPongSpec ==
  /\ PingPongInit /\ [][PingPongNext]_ppVars
  /\ WF_ppVars(MainStep)
  /\ \A p \in Children : WF_ppVars(ChildStep(p))
  /\ \A p \in Procs : WF_ppVars(SysCall(p))

-----------------------------------------------------------------------------
(* Properties *)

\* The words alternate, Ping first, whatever main() does meanwhile.
Alternation ==
  \A k \in 1..Len(out) : out[k] = IF k % 2 = 1 THEN "Ping" ELSE "Pong"

\* main() waits for one child only, but when it has exited at most the last "Pong"
\* is still to come: the children take turns, so whichever was waited for had all
\* the words before its own last one printed first.  (If the second fork failed
\* there is nobody to print.)  The comment at the wait() expects more, that nothing
\* is printed after the prompt: the last "Pong" may be.
OnlyLastWordLate ==
  pc["main"] = "exited" /\ pc["pong"] # "unborn" => Len(out) >= 2 * rally - 1

\* main() exits, and if both children could be forked it leaves open no semaphore
\* that another program has not opened.
MainExits ==
  <>[](/\ pc["main"] = "exited"
       /\ pc["pong"] # "unborn" => \A s \in Sems \ taken : ~open[s])

=============================================================================
