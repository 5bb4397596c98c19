------------------------------- MODULE Shell -------------------------------
(***************************************************************************)
(* mybash (LAB1): the loop that reads a line, parses it into a pipeline    *)
(* (parsing.c, command.c) and executes it (execute.c), with the commands   *)
(* it runs itself (builtin.c).  A pipeline's commands are processes that   *)
(* the shell forks, connects with pipes and, unless the line ends in "&",  *)
(* waits for.                                                              *)
(*                                                                         *)
(* What is not mybash is modelled from how it is used: the parser object,  *)
(* which splits a line into tokens; the kernel's fork, pipe, dup2, close,  *)
(* exit and wait; the programs that commands execute.                      *)
(***************************************************************************)
EXTENDS Naturals, Sequences, FiniteSets, SequencesExt

CONSTANTS
  Pids,      \* the processes there may be; fork() fails when all are used
  First,     \* the one that runs main()
  InitProc,  \* who adopts the children of a process that exits
  Tty, File, \* the terminal, or file, that mybash reads its lines from; a file commands name
  NULL,
  Inputs     \* what users type: sequences of lines, which are sequences of tokens

VARIABLES
  input,  \* the lines that nobody has read
  nread,  \* how many lines were read; pipe <<k, j>> follows command j of line k
  proc,   \* the processes
  pipe    \* how many items each pipe holds

vars == <<input, nread, proc, pipe>>

-----------------------------------------------------------------------------
(* parsing.c and command.c *)

\* scommand_new(): no words, no redirections.
NewCommand == [words |-> <<>>, from |-> NULL, to |-> NULL]

\* parse_scommand() adds each token of a command to it.
AddToken(cmd, token) ==
  CASE token.kind = "arg" -> [cmd EXCEPT !.words = Append(@, token.text)]
    [] token.kind = "in"  -> [cmd EXCEPT !.from = token.text]
    [] token.kind = "out" -> [cmd EXCEPT !.to = token.text]

\* parse_pipeline(): the commands between "|"s, up to "&" or the end of the line;
\* what follows "&" is garbage.  The result is NULL if a command has no words.
Parse(line) ==
  LET amp == \E i \in DOMAIN line : line[i].kind = "background"
      stop == Cardinality({i \in DOMAIN line : \A j \in 1..i : line[j].kind # "background"})
      bars == {i \in 1..stop : line[i].kind = "pipe"}
      cuts == SetToSortSeq({0, stop + 1} \union bars, LAMBDA i, j : i < j)
      command(c) == FoldLeft(AddToken, NewCommand, SubSeq(line, cuts[c] + 1, cuts[c + 1] - 1))
  IN [cmds |-> [c \in 1..(Cardinality(bars) + 1) |-> command(c)], wait |-> ~amp]

IsNull(pipeline) == \E i \in DOMAIN pipeline.cmds : pipeline.cmds[i].words = <<>>

\* builtin_is_internal()
Internal(cmd) == Head(cmd.words) \in {"cd", "help", "exit"}

-----------------------------------------------------------------------------
(* Processes *)

Pipes(k, n) == {<<k, j>> : j \in 1..(n - 1)}
Ends(k, n) == Pipes(k, n) \X {"read", "write"}

\* The pipes that the lines may need.
PipesOf(lines) == UNION {Pipes(k, Len(Parse(lines[k]).cmds)) : k \in DOMAIN lines}

ASSUME ShellAssumption ==
  /\ IsFiniteSet(Pids) /\ First \in Pids /\ InitProc \notin Pids
  /\ Tty # File
  /\ \A lines \in Inputs :
       /\ lines \in Seq(Range(lines)) /\ \A line \in Range(lines) : line \in Seq(Range(line))
       /\ PipesOf(lines) \intersect {Tty, File} = {}

\* A process that runs the shell's code: pc is where; the pipeline it executes,
\* of line k, and the next command of it; pipe_fds that are open; the calls of
\* wait() it has to make; how many commands it has started in the background.
Shell(parent, in, out) ==
  [state |-> "shell", parent |-> parent, in |-> in, out |-> out, pc |-> "prompt",
   job |-> [cmds |-> <<>>, wait |-> TRUE], k |-> 0, next |-> 1, fds |-> {}, waits |-> 0, behind |-> 0,
   program |-> NULL, holds |-> 0]

Unused == [Shell(InitProc, Tty, Tty) EXCEPT !.state = "unused"]

Alive(p) == p \in Pids /\ proc[p].state \in {"shell", "running"}
At(p, label) == proc[p].state = "shell" /\ proc[p].pc = label
Children(p) == {q \in Pids : proc[q].parent = p /\ proc[q].state \in {"shell", "running", "zombie"}}

\* The ends of a pipe that a process has open.
Has(p, x, end) ==
  Alive(p) /\ (<<x, end>> \in proc[p].fds \/ (IF end = "read" THEN proc[p].in ELSE proc[p].out) = x)
Readers(x) == {p \in Pids : Has(p, x, "read")}
Writers(x) == {p \in Pids : Has(p, x, "write")}

\* The processes after p exits: a zombie for its parent to wait for.
Ended(procs, p) ==
  [q \in Pids |->
    IF q = p
      THEN [procs[p] EXCEPT !.state = IF Alive(procs[p].parent) THEN "zombie" ELSE "reaped"]
      ELSE IF procs[q].parent = p
        THEN [procs[q] EXCEPT !.parent = InitProc,
                              !.state = IF @ = "zombie" THEN "reaped" ELSE @]
        ELSE procs[q]]

Exit(p) == proc' = Ended(proc, p) /\ UNCHANGED <<input, nread, pipe>>

\* What fork() returns: a process not used yet, if there is one.
Forked == {CHOOSE q \in {r \in Pids : proc[r].state = "unused"} : TRUE}
CanFork == \E q \in Pids : proc[q].state = "unused"

-----------------------------------------------------------------------------
(* execute.c *)

\* execute_external(): redirect, and execute the program, if there is one.
External(procs, p, cmd) ==
  IF cmd.from = "missing" \/ Head(cmd.words) \notin {"source", "filter"}
    THEN Ended(procs, p)
    ELSE [procs EXCEPT ![p].state = "running", ![p].program = Head(cmd.words),
                       ![p].holds = IF Head(cmd.words) = "source" THEN 2 ELSE 0,
                       ![p].in = IF cmd.from = NULL THEN @ ELSE File,
                       ![p].out = IF cmd.to = NULL THEN @ ELSE File]

\* (mutant of AfterStarting: a wait() for each pipe, not for each command)
AfterStartingLess(procs, p) ==
  [procs EXCEPT ![p].pc = IF procs[p].job.wait THEN "wait" ELSE "prompt",
                ![p].waits = Len(procs[p].job.cmds) - 1]

\* execute_pipeline() waits as often as the pipeline had commands, if it waits.
AfterStarting(procs, p) ==
  [procs EXCEPT ![p].pc = IF procs[p].job.wait THEN "wait" ELSE "prompt",
                ![p].waits = Len(procs[p].job.cmds)]

\* p has forked the process child, which nobody will wait for if the pipeline is
\* in the background.
Started(procs, p, q, child) ==
  [procs EXCEPT ![q] = child, ![p].behind = IF procs[p].job.wait THEN @ ELSE @ + 1]

\* main(): read and parse a line.  execute_pipeline() aborts if there is no
\* pipeline, at a syntax error, an empty line or the end of the input.
ReadLine(p) ==
  /\ At(p, "prompt") /\ proc[p].in = Tty
  /\ IF input = <<>> \/ IsNull(Parse(Head(input)))
       THEN proc' = Ended(proc, p)
       ELSE proc' = [proc EXCEPT ![p].job = Parse(Head(input)), ![p].k = nread + 1, ![p].pc = "execute"]
  /\ input' = IF input = <<>> THEN <<>> ELSE Tail(input)
  /\ nread' = IF input = <<>> THEN nread ELSE nread + 1
  /\ UNCHANGED pipe

\* The shell that a builtin leaves at the end of a pipeline reads what the
\* command before it writes, which is the name of no program.
ReadData(p) == LET x == proc[p].in IN
  /\ At(p, "prompt") /\ x # Tty
  /\ IF pipe[x] > 0
       THEN /\ proc' = [proc EXCEPT ![p].job = [cmds |-> <<[NewCommand EXCEPT !.words = <<"unknown">>]>>,
                                                wait |-> TRUE],
                                    ![p].pc = "execute"]
            /\ pipe' = [pipe EXCEPT ![x] = @ - 1]
       ELSE /\ Writers(x) = {}
            /\ proc' = Ended(proc, p) /\ UNCHANGED pipe
  /\ UNCHANGED <<input, nread>>

\* execute_command(): a pipeline of one command.
ExecuteCommand(p) == LET cmd == Head(proc[p].job.cmds) IN
  /\ At(p, "execute") /\ Len(proc[p].job.cmds) = 1
  /\ IF Internal(cmd)
       THEN IF Head(cmd.words) = "exit" THEN Exit(p)
            ELSE proc' = AfterStarting(proc, p) /\ UNCHANGED <<input, nread, pipe>>
       ELSE IF ~CanFork THEN Exit(p)
            ELSE \E q \in Forked :
              /\ proc' = External(Started(AfterStarting(proc, p), p, q, Shell(p, proc[p].in, proc[p].out)), q, cmd)
              /\ UNCHANGED <<input, nread, pipe>>

\* execute_commands(): first, the pipes.
MakePipes(p) ==
  /\ At(p, "execute") /\ Len(proc[p].job.cmds) > 1
  /\ proc' = [proc EXCEPT ![p].fds = Ends(proc[p].k, Len(proc[p].job.cmds)), ![p].next = 1, ![p].pc = "fork"]
  /\ UNCHANGED <<input, nread, pipe>>

\* Then a process for each command; the child goes on from the fork.
Fork(p) ==
  /\ At(p, "fork") /\ proc[p].next <= Len(proc[p].job.cmds)
  /\ IF ~CanFork THEN Exit(p)
     ELSE \E q \in Forked :
       /\ proc' = [Started(proc, p, q, [proc[p] EXCEPT !.parent = p, !.pc = "connect", !.behind = 0])
                     EXCEPT ![p].next = @ + 1]
       /\ UNCHANGED <<input, nread, pipe>>

\* (mutant of Connect: the child keeps its pipe_fds)
ConnectOpen(p) ==
  LET n == Len(proc[p].job.cmds)
      i == proc[p].next
      connected == [proc EXCEPT ![p].in = IF i > 1 THEN <<proc[p].k, i - 1>> ELSE @,
                                ![p].out = IF i < n THEN <<proc[p].k, i>> ELSE @]
  IN /\ At(p, "connect")
     /\ proc' = External(connected, p, proc[p].job.cmds[i]) /\ UNCHANGED <<input, nread, pipe>>

\* What a builtin leaves of its command: cd takes its name away.
Consumed(cmd) == IF Head(cmd.words) = "cd" THEN [cmd EXCEPT !.words = Tail(@)] ELSE cmd

\* The child of command i takes the ends it needs as its standard input and
\* output, unless they are closed, and closes its pipe_fds.  A builtin that
\* returns leaves it in the loop, where it forks for the same command again;
\* builtin_is_internal() aborts if the command has no words left.
Connect(p) ==
  LET n == Len(proc[p].job.cmds)
      i == proc[p].next
      cmd == proc[p].job.cmds[i]
      uses == {<<<<proc[p].k, i - 1>>, "read">>, <<<<proc[p].k, i>>, "write">>} \intersect Ends(proc[p].k, n)
      connected == [proc EXCEPT ![p].fds = {},
                                ![p].in = IF i > 1 THEN <<proc[p].k, i - 1>> ELSE @,
                                ![p].out = IF i < n THEN <<proc[p].k, i>> ELSE @]
  IN /\ At(p, "connect")
     /\ IF uses \subseteq proc[p].fds /\ cmd.words # <<>> /\ Head(cmd.words) # "exit"
          THEN /\ proc' = IF Internal(cmd)
                             THEN [connected EXCEPT ![p].pc = "fork", ![p].job.cmds[i] = Consumed(cmd)]
                             ELSE External(connected, p, cmd)
               /\ UNCHANGED <<input, nread, pipe>>
          ELSE Exit(p)

\* (mutant of Close: one of the ends stays open)
CloseButOne(p) ==
  /\ At(p, "fork") /\ proc[p].next > Len(proc[p].job.cmds)
  /\ proc' = [AfterStarting(proc, p) EXCEPT ![p].fds = @ \intersect {<<<<proc[p].k, 1>>, "write">>}]
  /\ UNCHANGED <<input, nread, pipe>>

\* The pipe_fds are closed once every command has a process.
Close(p) ==
  /\ At(p, "fork") /\ proc[p].next > Len(proc[p].job.cmds)
  /\ proc' = [AfterStarting(proc, p) EXCEPT ![p].fds = {}]
  /\ UNCHANGED <<input, nread, pipe>>

\* (mutant of WaitChild: once more than there are commands)
WaitChildMore(p) ==
  /\ At(p, "wait") /\ proc[p].waits >= 0 /\ Children(p) = {}
  /\ proc' = [proc EXCEPT ![p].waits = @ - 1]
  /\ UNCHANGED <<input, nread, pipe>>

\* wait(NULL) of execute_foreground(): for any child that ends, or none if there is none.
WaitChild(p) ==
  /\ At(p, "wait") /\ proc[p].waits > 0
  /\ \/ /\ Children(p) = {}
        /\ proc' = [proc EXCEPT ![p].waits = @ - 1]
     \/ \E q \in Children(p) :
          /\ proc[q].state = "zombie"
          /\ proc' = [proc EXCEPT ![p].waits = @ - 1, ![q].state = "reaped"]
  /\ UNCHANGED <<input, nread, pipe>>

WaitsDone(p) ==
  /\ At(p, "wait") /\ proc[p].waits = 0
  /\ proc' = [proc EXCEPT ![p].pc = "prompt"]
  /\ UNCHANGED <<input, nread, pipe>>

-----------------------------------------------------------------------------
(* The programs that commands execute: a source writes two items and      *)
(* ends; a filter writes what it reads until the end of its input.          *)

IsPipe(file) == file \in DOMAIN pipe

ReadItem(p) == LET x == proc[p].in IN
  /\ proc[p].state = "running" /\ proc[p].program = "filter" /\ proc[p].holds = 0
  /\ IsPipe(x) /\ pipe[x] > 0
  /\ pipe' = [pipe EXCEPT ![x] = @ - 1]
  /\ proc' = [proc EXCEPT ![p].holds = 1]
  /\ UNCHANGED <<input, nread>>

WriteItem(p) == LET x == proc[p].out IN
  /\ proc[p].state = "running" /\ proc[p].holds > 0
  /\ IsPipe(x) => Readers(x) # {} /\ pipe[x] = 0
  /\ pipe' = IF IsPipe(x) THEN [pipe EXCEPT ![x] = @ + 1] ELSE pipe
  /\ proc' = [proc EXCEPT ![p].holds = @ - 1]
  /\ UNCHANGED <<input, nread>>

\* At the end of its input, if it reads any, or if nobody can read its output.
Finish(p) == LET x == proc[p].in IN
  /\ proc[p].state = "running"
  /\ \/ proc[p].holds > 0 /\ IsPipe(proc[p].out) /\ Readers(proc[p].out) = {}
     \/ proc[p].holds = 0 /\ (proc[p].program = "filter" /\ IsPipe(x) => pipe[x] = 0 /\ Writers(x) = {})
  /\ Exit(p)

-----------------------------------------------------------------------------

Init ==
  /\ input \in Inputs
  /\ nread = 0
  /\ proc = [p \in Pids |-> IF p = First THEN Shell(InitProc, Tty, Tty) ELSE Unused]
  /\ pipe = [x \in PipesOf(input) |-> 0]

ProcessStep(p) ==
  \/ ReadLine(p) \/ ReadData(p) \/ ExecuteCommand(p) \/ MakePipes(p) \/ Fork(p) \/ Connect(p)
  \/ Close(p) \/ WaitChild(p) \/ WaitsDone(p) \/ ReadItem(p) \/ WriteItem(p) \/ Finish(p)

Next == \E p \in Pids : ProcessStep(p)

\* The kernel always runs some process that can run.  (Every process ends, since
\* the lines and the items do: it need not be fair to each.)
Spec == Init /\ [][Next]_vars /\ WF_vars(Next)

-----------------------------------------------------------------------------
(* Properties *)

ShellTypeOK ==
  /\ nread \in Nat
  /\ \A p \in Pids :
       /\ proc[p].state \in {"unused", "shell", "running", "zombie", "reaped"}
       /\ proc[p].pc \in {"prompt", "execute", "fork", "connect", "wait"}
       /\ proc[p].parent \in Pids \union {InitProc}
       /\ proc[p].waits \in Nat /\ proc[p].behind \in Nat
       /\ proc[p].fds \subseteq (DOMAIN pipe) \X {"read", "write"}
  /\ \A x \in DOMAIN pipe : pipe[x] \in {0, 1}

\* The commands of mybash itself that have their input and output connected.
Connected == {p \in Pids : proc[p].parent = First /\ ~At(p, "connect")}

\* When mybash waits for the pipeline of a line, or has put it in the background,
\* it holds no end of any pipe, and of its commands that are connected one at
\* most can write each pipe and one at most read it: no reader waits for an end of
\* input that cannot come, and no writer fills a pipe that nobody empties.  (A
\* shell that a builtin left in a pipeline shares its ends with what it runs.)
EndsClosed ==
  At(First, "wait") \/ At(First, "prompt") =>
    \A x \in DOMAIN pipe :
      /\ First \notin Readers(x) \union Writers(x)
      /\ Cardinality(Readers(x) \intersect Connected) <= 1
      /\ Cardinality(Writers(x) \intersect Connected) <= 1

\* A shell at its prompt has no more children than it has started commands in
\* the background: each pipeline's wait() calls are enough for its commands,
\* whatever children they reap.
ChildrenReaped == \A p \in Pids : At(p, "prompt") => Cardinality(Children(p)) <= proc[p].behind

\* A shell that waits for a pipeline comes back to its prompt, or ends, whatever
\* runs in the background and whatever ends its commands; also for a pipeline
\* with a builtin, whose process keeps a pipe open until it has no more lines to read.
PromptReturns == \A p \in Pids : At(p, "wait") ~> ~At(p, "wait")

=============================================================================
