---------------------------- MODULE Shell_proofs ----------------------------
(***************************************************************************)
(* For any number of processes and whatever is typed: mybash keeps no end  *)
(* of a pipe open, two of its commands never share one, and it waits for   *)
(* every child that it has not left in the background.                     *)
(***************************************************************************)
EXTENDS Shell, FiniteSetTheorems, TLAPS

-----------------------------------------------------------------------------
(* The invariant *)

IsSeq(s) == s \in Seq(Range(s))

Fields == {"state", "parent", "in", "out", "pc", "job", "k", "next", "fds", "waits", "behind", "program", "holds"}

\* There is a pipe for each that the lines not yet read will need.
InputInv ==
  /\ IsSeq(input) /\ nread \in Nat
  /\ \A i \in DOMAIN input :
       IsSeq(input[i]) /\ Pipes(nread + i, Len(Parse(input[i]).cmds)) \subseteq DOMAIN pipe

PipeInv ==
  /\ pipe \in [DOMAIN pipe -> {0, 1}]
  /\ DOMAIN pipe \subseteq (Nat \ {0}) \X (Nat \ {0})
  /\ Tty \notin DOMAIN pipe /\ File \notin DOMAIN pipe

\* What is true of one process, r, when the pipes are P and n lines were read: the
\* types, how far it is in its pipeline, and that only a process that starts
\* one has pipe_fds.
JobOK(job) == DOMAIN job = {"cmds", "wait"} /\ job.wait \in BOOLEAN /\ IsSeq(job.cmds)

RecordOK(r, P, n) ==
  /\ DOMAIN r = Fields
  /\ r.state \in {"unused", "shell", "running", "zombie", "reaped"}
  /\ r.pc \in {"prompt", "execute", "fork", "connect", "wait"}
  /\ r.parent \in Pids \union {InitProc}
  /\ r.waits \in Nat /\ r.behind \in Nat /\ r.next \in Nat
  /\ r.k \in Nat /\ r.k <= n
  /\ r.fds \subseteq P \X {"read", "write"}
  /\ JobOK(r.job)

StageOK(r, P) ==
  /\ r.in \in {Tty} \union P
  /\ r.pc \in {"execute", "fork", "connect"} => Pipes(r.k, Len(r.job.cmds)) \subseteq P
  /\ r.pc \in {"fork", "connect"} =>
       /\ Len(r.job.cmds) > 1 /\ r.next \in 1..(Len(r.job.cmds) + 1)
       /\ r.fds \subseteq Ends(r.k, Len(r.job.cmds))
  /\ r.pc = "connect" => r.next <= Len(r.job.cmds)
  /\ r.pc \notin {"fork", "connect"} => r.fds = {}
  /\ r.pc = "execute" => Len(r.job.cmds) > 0
  /\ r.pc = "wait" => r.job.wait

LocalOK(r, P, n) ==
  /\ RecordOK(r, P, n)
  /\ r.state = "shell" => StageOK(r, P)
  /\ r.state = "running" => r.fds = {}

LocalInv == DOMAIN proc = Pids /\ \A p \in Pids : LocalOK(proc[p], DOMAIN pipe, nread)

\* The parent of a process is another one, and alive, unless it is InitProc.
FamilyInv == \A q \in Pids :
  /\ proc[q].parent # q
  /\ proc[q].parent \in Pids => proc[proc[q].parent].state # "unused"
  /\ proc[q].state \in {"shell", "running", "zombie"} => proc[q].parent = InitProc \/ Alive(proc[q].parent)

\* How many children a shell may have: those in the background, and as many as it
\* has started of a pipeline or will wait for.
Owed(r) ==
  r.behind + (IF r.pc = "wait" THEN r.waits
              ELSE IF r.pc = "fork" /\ r.job.wait THEN r.next - 1 ELSE 0)

OwedInv == \A p \in Pids : proc[p].state = "shell" =>
  /\ Cardinality(Children(p)) <= Owed(proc[p])
  /\ proc[p].pc = "connect" => Children(p) = {}

\* The shell that main() started has the terminal, and starts no command itself.
FirstInv ==
  /\ proc[First].in = Tty /\ proc[First].out = Tty
  /\ proc[First].pc # "connect" /\ proc[First].state # "unused"
  /\ proc[First].parent = InitProc
  /\ At(First, "fork") => proc[First].fds # {}

\* The commands that it started, and their input and output, once connected.
Commands == {p \in Pids : Alive(p) /\ proc[p].parent = First}

Joining(r) == r.state = "shell" /\ r.pc = "connect"
In(r) == IF Joining(r) /\ r.next > 1 THEN <<r.k, r.next - 1>> ELSE r.in
Out(r) == IF Joining(r) /\ r.next < Len(r.job.cmds) THEN <<r.k, r.next>> ELSE r.out

\* A shell that has the pipes of its line, or is about to make them.
Owns(p) ==
  \/ At(p, "execute") /\ Len(proc[p].job.cmds) > 1
  \/ At(p, "fork") /\ proc[p].fds # {}

\* No line is executed by two shells, ...
OwnerInv == \A d, e \in Pids : d # e /\ Owns(d) /\ Owns(e) => proc[d].k # proc[e].k

\* ... the commands use pipes of lines that were read, and of none that another
\* shell than the first executes; the first is at the command after theirs.
LineInv == \A c \in Commands : \A x \in DOMAIN pipe \intersect {In(proc[c]), Out(proc[c])} :
  /\ x[1] <= nread
  /\ \A d \in Pids \ {First} : Owns(d) => x[1] # proc[d].k
  /\ At(First, "execute") => x[1] # proc[First].k
  /\ At(First, "fork") /\ x[1] = proc[First].k =>
       /\ In(proc[c]) = x => x[2] + 1 < proc[First].next
       /\ Out(proc[c]) = x => x[2] < proc[First].next

\* No two commands have the same input or output.
UniqueInv == \A c, d \in Commands : c # d =>
  /\ In(proc[c]) = In(proc[d]) => In(proc[c]) \notin DOMAIN pipe
  /\ Out(proc[c]) = Out(proc[d]) => Out(proc[c]) \notin DOMAIN pipe

IInv ==
  /\ InputInv /\ PipeInv /\ LocalInv /\ FamilyInv /\ OwedInv
  /\ FirstInv /\ OwnerInv /\ LineInv /\ UniqueInv

-----------------------------------------------------------------------------
(* What parsing returns, and what the end of a process changes *)

LEMMA SeqFacts ==
  ASSUME NEW s, IsSeq(s)
  PROVE  Len(s) \in Nat /\ DOMAIN s = 1..Len(s)
BY DEF IsSeq

LEMMA FunctionIsSeq ==
  ASSUME NEW n \in Nat, NEW s, s = [i \in 1..n |-> s[i]]
  PROVE  IsSeq(s) /\ Len(s) = n
<1>1. DOMAIN s = 1..n
  OBVIOUS
<1>2. s \in [1..n -> Range(s)]
  BY DEF Range
<1>3. s \in Seq(Range(s))
  BY <1>2
<1> QED
  BY <1>1, <1>3 DEF IsSeq

LEMMA TypedIsSeq ==
  ASSUME NEW S, NEW t \in Seq(S)
  PROVE  IsSeq(t)
<1>1. Len(t) \in Nat /\ DOMAIN t = 1..Len(t) /\ t = [i \in 1..Len(t) |-> t[i]]
  OBVIOUS
<1> QED
  BY <1>1, FunctionIsSeq

LEMMA TailFacts ==
  ASSUME NEW s, IsSeq(s), s # <<>>
  PROVE  /\ IsSeq(Tail(s)) /\ Len(Tail(s)) = Len(s) - 1 /\ Len(s) - 1 \in Nat
         /\ Head(s) = s[1] /\ 1 \in DOMAIN s
         /\ \A i \in DOMAIN Tail(s) : Tail(s)[i] = s[i + 1] /\ i + 1 \in DOMAIN s
<1>1. /\ Tail(s) \in Seq(Range(s)) /\ Len(Tail(s)) = Len(s) - 1 /\ Len(s) - 1 \in Nat
      /\ Head(s) = s[1] /\ 1 \in DOMAIN s
      /\ \A i \in 1..(Len(s) - 1) : Tail(s)[i] = s[i + 1] /\ i + 1 \in DOMAIN s
  BY DEF IsSeq
<1>2. IsSeq(Tail(s))
  BY <1>1, TypedIsSeq
<1>3. DOMAIN Tail(s) = 1..(Len(s) - 1)
  BY <1>1, <1>2, SeqFacts
<1> QED
  BY <1>1, <1>2, <1>3

LEMMA ParseShape ==
  ASSUME NEW line, IsSeq(line)
  PROVE  JobOK(Parse(line)) /\ Len(Parse(line).cmds) > 0
<1> DEFINE lead == {i \in DOMAIN line : \A j \in 1..i : line[j].kind # "background"}
           stop == Cardinality(lead)
           bars == {i \in 1..stop : line[i].kind = "pipe"}
           cmds == Parse(line).cmds
<1>1. stop \in Nat
  <2>1. IsFiniteSet(1..Len(line))
    BY FS_Interval, SeqFacts
  <2>2. lead \in SUBSET (1..Len(line))
    BY SeqFacts
  <2> QED
    BY <2>1, <2>2, FS_Subset, FS_CardinalityType
<1>2. Cardinality(bars) \in Nat
  <2> HIDE DEF stop
  <2>1. IsFiniteSet(1..stop)
    BY <1>1, FS_Interval
  <2>2. bars \in SUBSET (1..stop)
    OBVIOUS
  <2> QED
    BY <2>1, <2>2, FS_Subset, FS_CardinalityType
<1>3. DOMAIN Parse(line) = {"cmds", "wait"} /\ Parse(line).wait \in BOOLEAN
  BY DEF Parse
<1>4. DOMAIN cmds = 1..(Cardinality(bars) + 1) /\ cmds = [i \in DOMAIN cmds |-> cmds[i]]
  BY DEF Parse
<1> HIDE DEF bars, cmds
<1>5. IsSeq(cmds) /\ Len(cmds) = Cardinality(bars) + 1
  BY <1>2, <1>4, FunctionIsSeq
<1> QED
  BY <1>2, <1>3, <1>5 DEF JobOK, cmds

\* Two records agree but in the fields S.
Only(r, s, S) ==
  /\ DOMAIN r = Fields
  /\ "state" \in S \/ r.state = s.state
  /\ "parent" \in S \/ r.parent = s.parent
  /\ "in" \in S \/ r.in = s.in
  /\ "out" \in S \/ r.out = s.out
  /\ "pc" \in S \/ r.pc = s.pc
  /\ "job" \in S \/ r.job = s.job
  /\ "k" \in S \/ r.k = s.k
  /\ "next" \in S \/ r.next = s.next
  /\ "fds" \in S \/ r.fds = s.fds
  /\ "waits" \in S \/ r.waits = s.waits
  /\ "behind" \in S \/ r.behind = s.behind

\* The end of p changes its state, and the parents of its children.
LEMMA EndedFacts ==
  ASSUME NEW procs, DOMAIN procs = Pids, \A q \in Pids : DOMAIN procs[q] = Fields, NEW p \in Pids
  PROVE  LET ended == Ended(procs, p) IN
         /\ DOMAIN ended = Pids
         /\ \A q \in Pids : Only(ended[q], procs[q], {"state", "parent"})
         /\ ended[p].state = IF Alive(procs[p].parent) THEN "zombie" ELSE "reaped"
         /\ ended[p].parent = procs[p].parent
         /\ \A q \in Pids \ {p} :
              IF procs[q].parent = p
                THEN /\ ended[q].parent = InitProc
                     /\ ended[q].state = IF procs[q].state = "zombie" THEN "reaped" ELSE procs[q].state
                ELSE ended[q] = procs[q]
<1> DEFINE ended == Ended(procs, p)
<1>1. DOMAIN ended = Pids
  BY DEF Ended
<1>2. ended[p] = [procs[p] EXCEPT !.state = IF Alive(procs[p].parent) THEN "zombie" ELSE "reaped"]
  BY DEF Ended
<1>3. \A q \in Pids \ {p} : procs[q].parent = p =>
        ended[q] = [procs[q] EXCEPT !.parent = InitProc, !.state = IF @ = "zombie" THEN "reaped" ELSE @]
  BY DEF Ended
<1>4. \A q \in Pids \ {p} : procs[q].parent # p => ended[q] = procs[q]
  BY DEF Ended
<1> HIDE DEF ended
<1>5. Only(ended[p], procs[p], {"state", "parent"}) /\ ended[p].parent = procs[p].parent
      /\ ended[p].state = IF Alive(procs[p].parent) THEN "zombie" ELSE "reaped"
  BY <1>2 DEF Only, Fields
<1>6. ASSUME NEW q \in Pids \ {p}, procs[q].parent = p
      PROVE  /\ Only(ended[q], procs[q], {"state", "parent"})
             /\ ended[q].parent = InitProc
             /\ ended[q].state = IF procs[q].state = "zombie" THEN "reaped" ELSE procs[q].state
  <2> DEFINE s == IF procs[q].state = "zombie" THEN "reaped" ELSE procs[q].state
  <2> HIDE DEF s
  <2>1. ended[q] = [procs[q] EXCEPT !.parent = InitProc, !.state = s]
    BY <1>3, <1>6 DEF s
  <2>2. DOMAIN procs[q] = Fields
    OBVIOUS
  <2>3. ended[q].parent = InitProc /\ ended[q].state = s
    BY ONLY <2>1, <2>2 DEF Fields
  <2>4. Only(ended[q], procs[q], {"state", "parent"})
    BY ONLY <2>1, <2>2 DEF Only, Fields
  <2> QED
    BY <2>3, <2>4 DEF s
<1>7. \A q \in Pids \ {p} : procs[q].parent # p => Only(ended[q], procs[q], {"state", "parent"})
  BY <1>4 DEF Only
<1> QED
  BY <1>1, <1>4, <1>5, <1>6, <1>7 DEF ended

-----------------------------------------------------------------------------
(* Steps by what they do to the processes: p ends, p goes on, p starts a     *)
(* process, p waits for one.                                                 *)

Frame == nread \in Nat /\ nread' \in Nat /\ nread <= nread' /\ DOMAIN pipe' = DOMAIN pipe

Others(S) == DOMAIN proc' = Pids /\ \A q \in Pids \ S : proc'[q] = proc[q]

Dies(p) ==
  /\ p \in Pids /\ Alive(p) /\ DOMAIN proc' = Pids
  /\ Only(proc'[p], proc[p], {"state", "in", "out", "fds"})
  /\ proc'[p].state = IF Alive(proc[p].parent) THEN "zombie" ELSE "reaped"
  /\ p = First => proc'[p].in = proc[p].in /\ proc'[p].out = proc[p].out
  /\ \A q \in Pids \ {p} :
       /\ Only(proc'[q], proc[q], {"state", "parent"})
       /\ IF proc[q].parent = p
            THEN /\ proc'[q].parent = InitProc
                 /\ proc'[q].state = IF proc[q].state = "zombie" THEN "reaped" ELSE proc[q].state
            ELSE proc'[q] = proc[q]

\* The input and output of p stay, or become files; if it owns a line now, that is
\* the line it owned or one just read.
Continues(p) ==
  /\ p \in Pids /\ Alive(p) /\ Others({p})
  /\ proc'[p].state \in {"shell", "running"} /\ proc'[p].parent = proc[p].parent
  /\ DOMAIN proc'[p] = Fields
  /\ In(proc'[p]) \in {In(proc[p]), File} /\ Out(proc'[p]) \in {Out(proc[p]), File}

Starts(p, q) ==
  /\ p \in Pids /\ q \in Pids /\ p # q /\ Others({p, q})
  /\ proc[p].state = "shell" /\ Only(proc'[p], proc[p], {"pc", "next", "waits", "behind"})
  /\ proc[p].pc # "connect" /\ proc'[p].pc \in {proc[p].pc, "wait", "prompt"}
  /\ proc[q].state = "unused" /\ proc'[q].state \in {"shell", "running", "zombie"}
  /\ proc'[q].parent = p

Reaps(p, q) ==
  /\ p \in Pids /\ q \in Pids /\ p # q /\ Others({p, q})
  /\ proc[p].state = "shell" /\ Only(proc'[p], proc[p], {"waits"})
  /\ proc[q].state = "zombie" /\ proc[q].parent = p
  /\ Only(proc'[q], proc[q], {"state"}) /\ proc'[q].state = "reaped"

\* LocalOK does not depend on how a process ends, and survives the reading of lines.
LEMMA LocalFacts ==
  ASSUME NEW r, NEW s, NEW P, NEW n \in Nat, NEW m \in Nat, n <= m,
         LocalOK(s, P, n), Only(r, s, {"state", "parent"}),
         r.state = s.state \/ r.state \in {"zombie", "reaped"},
         r.parent \in Pids \union {InitProc}
  PROVE  LocalOK(r, P, m)
<1>1. RecordOK(r, P, m)
  BY DEF LocalOK, RecordOK, Only
<1>2. r.state = "shell" => StageOK(r, P)
  BY DEF LocalOK, StageOK, Only
<1> QED
  BY <1>1, <1>2 DEF LocalOK, Only

LEMMA OnlyItself == \A r : DOMAIN r = Fields => \A S : Only(r, r, S)
BY DEF Only

\* Only the processes that a step names have to be looked at.
LEMMA LocalOthers ==
  ASSUME LocalInv, Frame, NEW S, Others(S),
         \A q \in Pids \intersect S : LocalOK(proc'[q], DOMAIN pipe, nread')
  PROVE  LocalInv'
<1>1. ASSUME NEW q \in Pids \ S
      PROVE  LocalOK(proc'[q], DOMAIN pipe, nread')
  <2>1. LocalOK(proc[q], DOMAIN pipe, nread) /\ proc'[q] = proc[q]
    BY DEF LocalInv, Others
  <2>2. Only(proc[q], proc[q], {"state", "parent"}) /\ proc[q].parent \in Pids \union {InitProc}
    BY <2>1, OnlyItself DEF LocalOK, RecordOK
  <2>3. nread \in Nat /\ nread' \in Nat /\ nread <= nread'
    BY DEF Frame
  <2> QED
    BY ONLY <2>1, <2>2, <2>3, LocalFacts
<1> QED
  BY <1>1 DEF LocalInv, Others, Frame

-----------------------------------------------------------------------------
(* A process ends *)

LEMMA DiesFacts ==
  ASSUME NEW p, Dies(p)
  PROVE  /\ p \in Pids /\ Alive(p) /\ DOMAIN proc' = Pids
         /\ proc'[p].state = IF Alive(proc[p].parent) THEN "zombie" ELSE "reaped"
         /\ proc'[p].parent = proc[p].parent
         /\ \A q \in Pids \ {p} :
              IF proc[q].parent = p
                THEN /\ proc'[q].parent = InitProc
                     /\ proc'[q].state = IF proc[q].state = "zombie" THEN "reaped" ELSE proc[q].state
                ELSE proc'[q] = proc[q]
         /\ \A q \in Pids : Only(proc'[q], proc[q], {"state", "parent", "in", "out", "fds"})
BY DEF Dies, Only

LEMMA DiesLocal ==
  ASSUME LocalInv, Frame, NEW p, Dies(p), RecordOK(proc'[p], DOMAIN pipe, nread')
  PROVE  LocalInv'
<1>1. ASSUME NEW q \in Pids \ {p}
      PROVE  LocalOK(proc'[q], DOMAIN pipe, nread')
  <2>1. LocalOK(proc[q], DOMAIN pipe, nread) /\ Only(proc'[q], proc[q], {"state", "parent"})
    BY DEF LocalInv, Dies
  <2>2. proc'[q].parent \in Pids \union {InitProc}
    BY <2>1, DiesFacts DEF LocalOK, RecordOK
  <2>3. proc'[q].state = proc[q].state \/ proc'[q].state \in {"zombie", "reaped"}
    BY DiesFacts
  <2>4. nread \in Nat /\ nread' \in Nat /\ nread <= nread'
    BY DEF Frame
  <2> QED
    BY ONLY <2>1, <2>2, <2>3, <2>4, LocalFacts
<1>2. LocalOK(proc'[p], DOMAIN pipe, nread')
  BY DiesFacts DEF LocalOK
<1> QED
  BY <1>1, <1>2, DiesFacts DEF LocalInv, Frame

LEMMA DiesFamily ==
  ASSUME LocalInv, FamilyInv, NEW p, Dies(p)
  PROVE  FamilyInv'
<1> SUFFICES ASSUME NEW q \in Pids
             PROVE  /\ proc'[q].parent # q
                    /\ proc'[q].parent \in Pids => proc'[proc'[q].parent].state # "unused"
                    /\ proc'[q].state \in {"shell", "running", "zombie"} =>
                         \/ proc'[q].parent = InitProc
                         \/ proc'[q].parent \in Pids /\ proc'[proc'[q].parent].state \in {"shell", "running"}
  BY DEF FamilyInv, Alive
<1>1. \A r \in Pids : /\ proc[r].state # "unused" => proc'[r].state # "unused"
                      /\ r # p /\ Alive(r) => Alive(r)'
  BY DiesFacts DEF Alive
<1>2. InitProc \notin Pids
  BY ShellAssumption
<1>3. CASE q = p
  BY <1>1, <1>3, DiesFacts DEF FamilyInv, Alive
<1>4. CASE q # p /\ proc[q].parent = p
  BY <1>1, <1>2, <1>4, DiesFacts
<1>5. CASE q # p /\ proc[q].parent # p
  BY <1>1, <1>5, DiesFacts DEF FamilyInv, Alive
<1> QED
  BY <1>3, <1>4, <1>5

LEMMA ChildrenFinite == \A p : IsFiniteSet(Children(p)) /\ Cardinality(Children(p)) \in Nat
<1>1. ASSUME NEW p
      PROVE  IsFiniteSet(Children(p)) /\ Cardinality(Children(p)) \in Nat
  <2>1. Children(p) \in SUBSET Pids /\ IsFiniteSet(Pids)
    BY ShellAssumption DEF Children
  <2> QED
    BY <2>1, FS_Subset, FS_CardinalityType
<1> QED
  BY <1>1

LEMMA DiesOwed ==
  ASSUME LocalInv, OwedInv, NEW p, Dies(p)
  PROVE  OwedInv'
<1> SUFFICES ASSUME NEW q \in Pids, proc'[q].state = "shell"
             PROVE  /\ Cardinality(Children(q)') <= Owed(proc'[q])
                    /\ proc'[q].pc = "connect" => Children(q)' = {}
  BY DEF OwedInv
<1>1. Children(q)' \in SUBSET Children(q)
  <2>1. ASSUME NEW c \in Pids, proc'[c].parent = q, proc'[c].state \in {"shell", "running", "zombie"}
        PROVE  proc[c].parent = q /\ proc[c].state \in {"shell", "running", "zombie"}
    <3>1. p \in Pids /\ proc[p].state \in {"shell", "running"}
      BY DiesFacts DEF Alive
    <3>2. c # p /\ proc[c].parent = p => FALSE
      BY <2>1, DiesFacts, ShellAssumption
    <3>3. c # p => proc'[c] = proc[c]
      BY <3>2, DiesFacts
    <3>4. c = p => proc'[c].parent = proc[c].parent
      BY DiesFacts
    <3> QED
      BY <2>1, <3>1, <3>3, <3>4
  <2> QED
    BY <2>1 DEF Children
<1>2. Cardinality(Children(q)') \in Nat /\ Cardinality(Children(q)') <= Cardinality(Children(q))
  <2>1. IsFiniteSet(Children(q))
    BY ChildrenFinite
  <2> QED
    BY <1>1, <2>1, FS_Subset, FS_CardinalityType
<1>3. proc[q].state = "shell" /\ proc'[q].pc = proc[q].pc /\ Owed(proc'[q]) = Owed(proc[q])
  BY DiesFacts DEF Owed, Only, Alive
<1>4. Cardinality(Children(q)) \in Nat /\ Owed(proc[q]) \in Int
  BY ChildrenFinite DEF LocalInv, LocalOK, RecordOK, Owed
<1>5. Cardinality(Children(q)) <= Owed(proc[q]) /\ (proc[q].pc = "connect" => Children(q) = {})
  BY <1>3 DEF OwedInv
<1> QED
  BY <1>1, <1>2, <1>3, <1>4, <1>5

LEMMA DiesFirst ==
  ASSUME FirstInv, NEW p, Dies(p)
  PROVE  FirstInv'
<1>1. First \in Pids
  BY ShellAssumption
<1>2. CASE p = First
  BY <1>1, <1>2 DEF FirstInv, Dies, Only, At
<1>3. CASE p # First
  BY <1>1, <1>3, DiesFacts, ShellAssumption DEF FirstInv, At
<1> QED
  BY <1>2, <1>3

\* The commands are among those before, and each uses what it used.
LEMMA DiesCommands ==
  ASSUME LocalInv, FirstInv, NEW p, Dies(p)
  PROVE  /\ \A c \in Commands' : c \in Commands /\ In(proc'[c]) = In(proc[c]) /\ Out(proc'[c]) = Out(proc[c])
         /\ \A d \in Pids : Owns(d)' => Owns(d) /\ proc'[d].k = proc[d].k
         /\ Commands' # {} => proc'[First] = proc[First]
<1>1. ASSUME NEW c \in Commands'
      PROVE  c \in Commands /\ In(proc'[c]) = In(proc[c]) /\ Out(proc'[c]) = Out(proc[c])
             /\ proc'[First] = proc[First]
  <2>1. c \in Pids /\ proc'[c].state \in {"shell", "running"} /\ proc'[c].parent = First
    BY DEF Commands, Alive
  <2>2. First \in Pids /\ InitProc \notin Pids
    BY ShellAssumption
  <2>3. c # p /\ proc'[c] = proc[c] /\ First # p
    BY <2>1, <2>2, DiesFacts
  <2>4. proc'[First] = proc[First]
    BY <2>2, <2>3, DiesFacts DEF FirstInv
  <2> QED
    BY <2>1, <2>3, <2>4 DEF Commands, Alive
<1>2. ASSUME NEW d \in Pids, Owns(d)'
      PROVE  Owns(d) /\ proc'[d].k = proc[d].k
  <2>1. d # p
    BY <1>2, DiesFacts DEF Owns, At
  <2>2. Only(proc'[d], proc[d], {"state", "parent"}) /\ (proc'[d].state = "shell" => proc[d].state = "shell")
    BY <2>1, DiesFacts DEF Dies
  <2> QED
    BY <1>2, <2>2 DEF Owns, At, Only
<1> QED
  BY <1>1, <1>2

-----------------------------------------------------------------------------
(* A process goes on *)

LEMMA ContinuesFamily ==
  ASSUME FamilyInv, NEW p, Continues(p)
  PROVE  FamilyInv'
<1>1. \A q \in Pids : /\ proc'[q].parent = proc[q].parent
                      /\ proc'[q].state = "unused" <=> proc[q].state = "unused"
                      /\ proc'[q].state \in {"shell", "running"} <=> proc[q].state \in {"shell", "running"}
                      /\ proc'[q].state = "zombie" <=> proc[q].state = "zombie"
  BY DEF Continues, Others, Alive
<1> QED
  BY <1>1 DEF FamilyInv, Alive

LEMMA ContinuesOwed ==
  ASSUME OwedInv, NEW p, Continues(p),
         proc'[p].state = "shell" => Cardinality(Children(p)) <= Owed(proc'[p]) /\ proc'[p].pc # "connect"
  PROVE  OwedInv'
<1>1. \A q : Children(q)' = Children(q)
  BY DEF Children, Continues, Others, Alive
<1>2. ASSUME NEW q \in Pids, proc'[q].state = "shell"
      PROVE  /\ Cardinality(Children(q)) <= Owed(proc'[q])
             /\ proc'[q].pc = "connect" => Children(q) = {}
  BY <1>2 DEF OwedInv, Continues, Others
<1> QED
  BY <1>1, <1>2 DEF OwedInv

\* The first shell's input and output do not change if p is another process; if it is
\* the first, nothing else of it may.
LEMMA ContinuesFirst ==
  ASSUME FirstInv, NEW p, Continues(p),
         p = First => /\ proc'[p].in = Tty /\ proc'[p].out = Tty /\ proc'[p].pc # "connect"
                      /\ proc'[p].state = "shell" /\ proc'[p].pc = "fork" => proc'[p].fds # {}
  PROVE  FirstInv'
<1>1. First \in Pids
  BY ShellAssumption
<1>2. CASE p # First
  BY <1>1, <1>2 DEF FirstInv, Continues, Others, At
<1>3. CASE p = First
  BY <1>1, <1>3 DEF FirstInv, Continues, At
<1> QED
  BY <1>2, <1>3

-----------------------------------------------------------------------------
(* A process starts another *)

LEMMA StartsFamily ==
  ASSUME FamilyInv, LocalInv, NEW p, NEW q, Starts(p, q)
  PROVE  FamilyInv'
<1>1. /\ p \in Pids /\ q \in Pids /\ p # q /\ proc'[q].parent = p
      /\ proc[p].state = "shell" /\ proc'[p].state = "shell" /\ proc'[p].parent = proc[p].parent
      /\ proc[q].state = "unused" /\ proc'[q].state \in {"shell", "running", "zombie"}
      /\ \A r \in Pids \ {p, q} : proc'[r] = proc[r]
  BY DEF Starts, Others, Only
<1>2. \A r \in Pids \ {q} : proc'[r].parent = proc[r].parent /\ proc'[r].state = proc[r].state
  BY <1>1
<1> SUFFICES ASSUME NEW r \in Pids
             PROVE  /\ proc'[r].parent # r
                    /\ proc'[r].parent \in Pids => proc'[proc'[r].parent].state # "unused"
                    /\ proc'[r].state \in {"shell", "running", "zombie"} =>
                         \/ proc'[r].parent = InitProc
                         \/ proc'[r].parent \in Pids /\ proc'[proc'[r].parent].state \in {"shell", "running"}
  BY DEF FamilyInv, Alive
<1>3. CASE r = q
  BY <1>1, <1>3
<1>4. CASE r # q
  <2>1. proc[r].parent # q
    BY <1>1 DEF FamilyInv
  <2> QED
    BY <1>2, <1>4, <2>1 DEF FamilyInv, Alive
<1> QED
  BY <1>3, <1>4

LEMMA StartsOwed ==
  ASSUME FamilyInv, LocalInv, OwedInv, NEW p, NEW q, Starts(p, q),
         Owed(proc'[p]) = Owed(proc[p]) + 1, proc'[q].state = "shell" => Owed(proc'[q]) = 0
  PROVE  OwedInv'
<1>1. /\ p \in Pids /\ q \in Pids /\ p # q /\ proc'[q].parent = p
      /\ proc[p].state = "shell" /\ proc'[p].state = "shell" /\ proc'[p].parent = proc[p].parent
      /\ proc[q].state = "unused" /\ proc'[q].state \in {"shell", "running", "zombie"}
      /\ proc[p].pc # "connect" /\ proc'[p].pc # "connect"
      /\ \A r \in Pids \ {p, q} : proc'[r] = proc[r]
  BY DEF Starts, Others, Only
<1>2. \A r \in Pids \ {q} : proc'[r].parent = proc[r].parent /\ proc'[r].state = proc[r].state
  BY <1>1
<1>3. Children(p)' = Children(p) \union {q} /\ q \notin Children(p)
  BY <1>1, <1>2 DEF Children
<1>4. Children(q)' = {}
  <2>1. \A r \in Pids : proc[r].parent # q
    BY <1>1 DEF FamilyInv
  <2> QED
    BY <1>1, <1>2, <2>1 DEF Children
<1>5. \A r \in Pids \ {p, q} : Children(r)' = Children(r)
  BY <1>1, <1>2 DEF Children
<1>6. Cardinality(Children(p)') = Cardinality(Children(p)) + 1
  BY <1>3, ChildrenFinite, FS_AddElement
<1>7. Cardinality(Children(p)) <= Owed(proc[p]) /\ Cardinality(Children(p)) \in Nat /\ Owed(proc[p]) \in Int
  BY <1>1, ChildrenFinite DEF OwedInv, Owed, LocalInv, LocalOK, RecordOK
<1>8. Cardinality(Children(q)') = 0
  BY <1>4, FS_EmptySet
<1>9. ASSUME NEW r \in Pids, proc'[r].state = "shell"
      PROVE  /\ Cardinality(Children(r)') <= Owed(proc'[r])
             /\ proc'[r].pc = "connect" => Children(r)' = {}
  <2>1. CASE r = p
    BY <1>1, <1>6, <1>7, <2>1
  <2>2. CASE r = q
    BY <1>4, <1>8, <1>9, <2>2
  <2>3. CASE r # p /\ r # q
    <3>1. proc'[r] = proc[r] /\ Children(r)' = Children(r)
      BY <1>1, <1>5, <2>3
    <3> QED
      BY <1>9, <3>1 DEF OwedInv
  <2> QED
    BY <2>1, <2>2, <2>3
<1> QED
  BY <1>9 DEF OwedInv

LEMMA StartsFirst ==
  ASSUME FirstInv, NEW p, NEW q, Starts(p, q)
  PROVE  FirstInv'
<1>1. First \in Pids /\ First # q
  BY ShellAssumption DEF FirstInv, Starts
<1>2. CASE First = p
  BY <1>1, <1>2 DEF FirstInv, Starts, Only, At
<1>3. CASE First # p
  BY <1>1, <1>3 DEF FirstInv, Starts, Others, At
<1> QED
  BY <1>2, <1>3

-----------------------------------------------------------------------------
(* A process waits for another *)

LEMMA ReapsFamily ==
  ASSUME FamilyInv, NEW p, NEW q, Reaps(p, q)
  PROVE  FamilyInv'
<1>1. /\ \A r \in Pids : proc'[r].parent = proc[r].parent
      /\ \A r \in Pids \ {q} : proc'[r].state = proc[r].state
      /\ proc[q].state = "zombie" /\ proc'[q].state = "reaped" /\ q \in Pids
  BY DEF Reaps, Others, Only
<1> QED
  BY <1>1 DEF FamilyInv, Alive

LEMMA ReapsOwed ==
  ASSUME LocalInv, OwedInv, NEW p, NEW q, Reaps(p, q), Owed(proc'[p]) = Owed(proc[p]) - 1
  PROVE  OwedInv'
<1>1. /\ \A r \in Pids : proc'[r].parent = proc[r].parent
      /\ \A r \in Pids \ {q} : proc'[r].state = proc[r].state
      /\ proc[q].state = "zombie" /\ proc'[q].state = "reaped" /\ proc[q].parent = p
      /\ p \in Pids /\ q \in Pids /\ p # q /\ proc[p].state = "shell" /\ proc'[p].pc = proc[p].pc
      /\ \A r \in Pids \ {p, q} : proc'[r] = proc[r]
  BY DEF Reaps, Others, Only
<1>2. q \in Children(p) /\ Children(p)' = Children(p) \ {q}
  BY <1>1 DEF Children
<1>3. \A r \in Pids \ {p} : Children(r)' = Children(r)
  BY <1>1 DEF Children
<1>4. Cardinality(Children(p)') = Cardinality(Children(p)) - 1
  BY <1>2, ChildrenFinite, FS_RemoveElement
<1>5. Cardinality(Children(p)) <= Owed(proc[p]) /\ Cardinality(Children(p)) \in Nat /\ Owed(proc[p]) \in Int
  BY <1>1, ChildrenFinite DEF OwedInv, Owed, LocalInv, LocalOK, RecordOK
<1>6. ASSUME NEW r \in Pids, proc'[r].state = "shell"
      PROVE  /\ Cardinality(Children(r)') <= Owed(proc'[r])
             /\ proc'[r].pc = "connect" => Children(r)' = {}
  <2>1. CASE r = p
    <3>1. Cardinality(Children(p)') <= Owed(proc'[p])
      BY <1>4, <1>5
    <3>2. proc[p].pc # "connect"
      BY <1>1, <1>2 DEF OwedInv
    <3> QED
      BY <1>1, <2>1, <3>1, <3>2
  <2>2. CASE r # p
    <3>1. proc'[r] = proc[r] /\ Children(r)' = Children(r)
      BY <1>1, <1>3, <1>6, <2>2
    <3> QED
      BY <1>6, <3>1 DEF OwedInv
  <2> QED
    BY <2>1, <2>2
<1> QED
  BY <1>6 DEF OwedInv

LEMMA ReapsFirst ==
  ASSUME FirstInv, NEW p, NEW q, Reaps(p, q)
  PROVE  FirstInv'
<1>1. First \in Pids
  BY ShellAssumption
<1>2. CASE First = p
  BY <1>1, <1>2 DEF FirstInv, Reaps, Only, At
<1>3. CASE First = q
  BY <1>1, <1>3 DEF FirstInv, Reaps, Only, At
<1>4. CASE First # p /\ First # q
  BY <1>1, <1>4 DEF FirstInv, Reaps, Others, At
<1> QED
  BY <1>2, <1>3, <1>4

-----------------------------------------------------------------------------
(* Pipes and those who use them *)

\* Commands get no pipe, a shell that owns a line owned it or has read it now, and
\* the first comes to no other command of a line.
KeepsLines ==
  /\ \A c \in Commands' : /\ In(proc'[c]) \in DOMAIN pipe => c \in Commands /\ In(proc'[c]) = In(proc[c])
                          /\ Out(proc'[c]) \in DOMAIN pipe => c \in Commands /\ Out(proc'[c]) = Out(proc[c])
  /\ \A d \in Pids : Owns(d)' =>
       \/ Owns(d) /\ proc'[d].k = proc[d].k
       \/ proc'[d].k = nread + 1 /\ nread' = nread + 1 /\ \A e \in Pids \ {d} : proc'[e].k = proc[e].k
  /\ Commands' # {} =>
       /\ At(First, "execute")' => \/ At(First, "execute") /\ proc'[First].k = proc[First].k
                                   \/ proc'[First].k = nread + 1
       /\ At(First, "fork")' => \/ At(First, "execute") /\ proc'[First].k = proc[First].k
                                \/ /\ At(First, "fork") /\ proc'[First].k = proc[First].k
                                   /\ proc'[First].next = proc[First].next

LEMMA KeepsLinesStep ==
  ASSUME LocalInv, PipeInv, OwnerInv, LineInv, UniqueInv, Frame, KeepsLines
  PROVE  OwnerInv' /\ LineInv' /\ UniqueInv'
<1>1. \A d \in Pids : proc[d].k \in Nat /\ proc[d].k <= nread
  BY DEF LocalInv, LocalOK, RecordOK
<1>2. nread \in Nat /\ nread' \in Nat /\ nread <= nread' /\ DOMAIN pipe' = DOMAIN pipe
  BY DEF Frame
<1>3. OwnerInv'
  <2> SUFFICES ASSUME NEW d \in Pids, NEW e \in Pids, d # e, Owns(d)', Owns(e)'
               PROVE  proc'[d].k # proc'[e].k
    BY DEF OwnerInv
  <2> QED
    BY <1>1, <1>2 DEF KeepsLines, OwnerInv
<1>4. UniqueInv'
  BY <1>2 DEF KeepsLines, UniqueInv
<1>5. LineInv'
  <2> SUFFICES ASSUME NEW c \in Commands', NEW x \in DOMAIN pipe, x \in {In(proc'[c]), Out(proc'[c])}
               PROVE  /\ x[1] <= nread'
                      /\ \A d \in Pids \ {First} : Owns(d)' => x[1] # proc'[d].k
                      /\ At(First, "execute")' => x[1] # proc'[First].k
                      /\ At(First, "fork")' /\ x[1] = proc'[First].k =>
                           /\ In(proc'[c]) = x => x[2] + 1 < proc'[First].next
                           /\ Out(proc'[c]) = x => x[2] < proc'[First].next
    BY <1>2 DEF LineInv
  <2>1. /\ c \in Commands /\ x \in {In(proc[c]), Out(proc[c])}
        /\ In(proc'[c]) = x => In(proc[c]) = x
        /\ Out(proc'[c]) = x => Out(proc[c]) = x
    BY DEF KeepsLines
  <2>2. x[1] \in Nat /\ x[2] \in Nat
    BY DEF PipeInv
  <2>3. /\ x[1] <= nread
        /\ \A d \in Pids \ {First} : Owns(d) => x[1] # proc[d].k
        /\ At(First, "execute") => x[1] # proc[First].k
        /\ At(First, "fork") /\ x[1] = proc[First].k =>
             /\ In(proc[c]) = x => x[2] + 1 < proc[First].next
             /\ Out(proc[c]) = x => x[2] < proc[First].next
    BY <2>1 DEF LineInv
  <2>4. \A d \in Pids \ {First} : Owns(d)' => x[1] # proc'[d].k
    BY <1>2, <2>2, <2>3 DEF KeepsLines
  <2>5. At(First, "execute")' => x[1] # proc'[First].k
    BY <1>2, <2>2, <2>3 DEF KeepsLines
  <2>6. At(First, "fork")' /\ x[1] = proc'[First].k =>
           /\ In(proc'[c]) = x => x[2] + 1 < proc'[First].next
           /\ Out(proc'[c]) = x => x[2] < proc'[First].next
    BY <2>1, <2>3 DEF KeepsLines
  <2> QED
    BY <1>2, <2>2, <2>3, <2>4, <2>5, <2>6
<1> QED
  BY <1>3, <1>4, <1>5

LEMMA DiesKeeps ==
  ASSUME LocalInv, FirstInv, NEW p, Dies(p)
  PROVE  KeepsLines
<1>1. First \in Pids
  BY ShellAssumption
<1> QED
  BY <1>1, DiesCommands DEF KeepsLines, At

LEMMA ContinuesKeeps ==
  ASSUME PipeInv, NEW p, Continues(p),
         Owns(p)' => \/ Owns(p) /\ proc'[p].k = proc[p].k
                     \/ proc'[p].k = nread + 1 /\ nread' = nread + 1,
         p = First /\ proc'[p].state = "shell" =>
           /\ proc'[p].pc = "execute" => proc'[p].k = nread + 1
           /\ proc'[p].pc = "fork" => proc[p].state = "shell" /\ proc[p].pc = "execute" /\ proc'[p].k = proc[p].k
  PROVE  KeepsLines
<1>1. First \in Pids
  BY ShellAssumption
<1>2. p \in Pids /\ \A q \in Pids \ {p} : proc'[q] = proc[q]
  BY DEF Continues, Others
<1>3. Commands' = Commands
  BY <1>2 DEF Commands, Continues, Alive
<1>4. ASSUME NEW c \in Commands
      PROVE  /\ In(proc'[c]) \in DOMAIN pipe => In(proc'[c]) = In(proc[c])
             /\ Out(proc'[c]) \in DOMAIN pipe => Out(proc'[c]) = Out(proc[c])
  <2>1. c \in Pids
    BY DEF Commands
  <2>2. CASE c # p
    BY <1>2, <2>1, <2>2
  <2>3. CASE c = p
    BY <2>3 DEF Continues, PipeInv
  <2> QED
    BY <2>2, <2>3
<1>5. ASSUME NEW d \in Pids, Owns(d)'
      PROVE  \/ Owns(d) /\ proc'[d].k = proc[d].k
             \/ proc'[d].k = nread + 1 /\ nread' = nread + 1 /\ \A e \in Pids \ {d} : proc'[e].k = proc[e].k
  <2>1. CASE d # p
    BY <1>2, <1>5, <2>1 DEF Owns, At
  <2>2. CASE d = p
    BY <1>2, <1>5, <2>2
  <2> QED
    BY <2>1, <2>2
<1>6. /\ At(First, "execute")' => \/ At(First, "execute") /\ proc'[First].k = proc[First].k
                                  \/ proc'[First].k = nread + 1
      /\ At(First, "fork")' => \/ At(First, "execute") /\ proc'[First].k = proc[First].k
                               \/ /\ At(First, "fork") /\ proc'[First].k = proc[First].k
                                  /\ proc'[First].next = proc[First].next
  <2>1. CASE First # p
    BY <1>1, <1>2, <2>1 DEF At
  <2>2. CASE First = p
    BY <1>1, <2>2 DEF At
  <2> QED
    BY <2>1, <2>2
<1> QED
  BY <1>3, <1>4, <1>5, <1>6 DEF KeepsLines

\* A shell that starts a process which has no pipe, or another shell than the first.
LEMMA StartsKeeps ==
  ASSUME LocalInv, FirstInv, NEW p, NEW q, Starts(p, q),
         proc'[q].state = "shell" => proc'[q].pc = "connect",
         p = First => /\ In(proc'[q]) \notin DOMAIN pipe /\ Out(proc'[q]) \notin DOMAIN pipe
                      /\ proc'[p].pc \notin {"execute", "fork"}
  PROVE  KeepsLines
<1>1. First \in Pids
  BY ShellAssumption
<1>2. /\ p \in Pids /\ q \in Pids /\ p # q /\ \A r \in Pids \ {p, q} : proc'[r] = proc[r]
      /\ proc'[q].parent = p /\ proc[q].state = "unused"
      /\ proc[p].state = "shell" /\ Only(proc'[p], proc[p], {"pc", "next", "waits", "behind"})
      /\ proc[p].pc # "connect" /\ proc'[p].pc \in {proc[p].pc, "wait", "prompt"}
  BY DEF Starts, Others
<1>3. \A c \in Commands' : c \in Commands \/ (c = q /\ p = First)
  BY <1>2 DEF Commands, Alive, Only
<1>4. In(proc'[p]) = In(proc[p]) /\ Out(proc'[p]) = Out(proc[p])
  BY <1>2 DEF In, Out, Only, Joining
<1>5. ASSUME NEW c \in Commands'
      PROVE  /\ In(proc'[c]) \in DOMAIN pipe => c \in Commands /\ In(proc'[c]) = In(proc[c])
             /\ Out(proc'[c]) \in DOMAIN pipe => c \in Commands /\ Out(proc'[c]) = Out(proc[c])
  <2>1. CASE c = q
    <3>1. c \notin Commands
      BY <1>2, <2>1 DEF Commands, Alive
    <3> QED
      BY <1>3, <2>1, <3>1
  <2>2. CASE c # q
    <3>1. c \in Commands /\ c \in Pids
      BY <1>3, <2>2 DEF Commands
    <3> QED
      BY <1>2, <1>4, <2>2, <3>1
  <2> QED
    BY <2>1, <2>2
<1>6. ASSUME NEW d \in Pids, Owns(d)'
      PROVE  Owns(d) /\ proc'[d].k = proc[d].k
  <2>1. d # q
    BY <1>6 DEF Owns, At
  <2>2. CASE d = p
    BY <1>2, <1>6, <2>2 DEF Owns, At, Only
  <2>3. CASE d # p
    BY <1>2, <1>6, <2>1, <2>3 DEF Owns, At
  <2> QED
    BY <2>2, <2>3
<1>7. CASE p = First
  BY <1>2, <1>5, <1>6, <1>7 DEF KeepsLines, At
<1>8. CASE p # First /\ q # First
  BY <1>1, <1>2, <1>5, <1>6, <1>8 DEF KeepsLines, At
<1> QED
  BY <1>2, <1>7, <1>8 DEF FirstInv

LEMMA ReapsKeeps ==
  ASSUME NEW p, NEW q, Reaps(p, q)
  PROVE  KeepsLines
<1>1. First \in Pids
  BY ShellAssumption
<1>2. /\ p \in Pids /\ q \in Pids /\ p # q /\ \A r \in Pids \ {p, q} : proc'[r] = proc[r]
      /\ proc[p].state = "shell" /\ Only(proc'[p], proc[p], {"waits"})
      /\ proc[q].state = "zombie" /\ proc'[q].state = "reaped"
  BY DEF Reaps, Others
<1>3. q \notin Commands' /\ Commands' \subseteq Commands
  BY <1>2 DEF Commands, Alive, Only
<1>4. In(proc'[p]) = In(proc[p]) /\ Out(proc'[p]) = Out(proc[p])
  BY <1>2 DEF In, Out, Only, Joining
<1>5. ASSUME NEW c \in Commands'
      PROVE  c \in Commands /\ In(proc'[c]) = In(proc[c]) /\ Out(proc'[c]) = Out(proc[c])
  BY <1>2, <1>3, <1>4 DEF Commands
<1>6. ASSUME NEW d \in Pids, Owns(d)'
      PROVE  Owns(d) /\ proc'[d].k = proc[d].k
  BY <1>2, <1>6 DEF Owns, At, Only
<1>7. /\ At(First, "execute")' => At(First, "execute") /\ proc'[First].k = proc[First].k
      /\ At(First, "fork")' => At(First, "fork") /\ proc'[First].k = proc[First].k /\ proc'[First].next = proc[First].next
  BY <1>1, <1>2 DEF At, Only
<1> QED
  BY <1>5, <1>6, <1>7 DEF KeepsLines

\* The first shell starts the next command of its line.
ForksNext(q) ==
  /\ Starts(First, q) /\ At(First, "fork")
  /\ Only(proc'[First], proc[First], {"next", "behind"})
  /\ proc'[First].next = proc[First].next + 1
  /\ proc'[q].state = "shell" /\ proc'[q].pc = "connect"
  /\ In(proc'[q]) \in {Tty, <<proc[First].k, proc[First].next - 1>>}
  /\ Out(proc'[q]) \in {Tty, <<proc[First].k, proc[First].next>>}

LEMMA ForksNextStep ==
  ASSUME LocalInv, PipeInv, FirstInv, OwnerInv, LineInv, UniqueInv, Frame, NEW q, ForksNext(q)
  PROVE  OwnerInv' /\ LineInv' /\ UniqueInv'
<1> DEFINE K == proc[First].k
           i == proc[First].next
<1>1. First \in Pids /\ q \in Pids /\ q # First /\ DOMAIN pipe' = DOMAIN pipe
      /\ nread \in Nat /\ nread' \in Nat /\ nread <= nread'
  BY ShellAssumption DEF ForksNext, Starts, Frame
<1>2. K \in Nat /\ K <= nread /\ i \in Nat /\ Tty \notin DOMAIN pipe
  BY <1>1 DEF LocalInv, LocalOK, RecordOK, PipeInv
<1>3. /\ \A r \in Pids \ {First, q} : proc'[r] = proc[r]
      /\ proc[First].state = "shell" /\ proc'[First].state = "shell"
      /\ proc[First].pc = "fork" /\ proc'[First].pc = "fork"
      /\ proc'[First].k = K /\ proc'[First].next = i + 1 /\ proc'[First].job = proc[First].job
      /\ proc'[First].fds = proc[First].fds
      /\ proc'[First].parent = InitProc /\ InitProc \notin Pids
      /\ proc[q].state = "unused" /\ proc'[q].state = "shell" /\ proc'[q].pc = "connect"
  BY ShellAssumption DEF ForksNext, Starts, Others, Only, At, FirstInv
<1>4. Owns(First) /\ At(First, "fork") /\ At(First, "fork")' /\ ~At(First, "execute")'
  BY <1>3 DEF Owns, FirstInv, At
<1>5. \A d \in Pids : Owns(d)' => d # q /\ Owns(d) /\ proc'[d].k = proc[d].k
  BY <1>3 DEF Owns, At
<1>6. OwnerInv'
  BY <1>5 DEF OwnerInv
<1>7. ASSUME NEW c \in Commands', c # q
      PROVE  c \in Commands /\ proc'[c] = proc[c]
  BY <1>1, <1>3, <1>7 DEF Commands, Alive
<1>8. \A c \in Commands : \A x \in DOMAIN pipe \intersect {In(proc[c]), Out(proc[c])} :
        /\ x[1] \in Nat /\ x[2] \in Nat /\ x[1] <= nread
        /\ \A d \in Pids \ {First} : Owns(d) => x[1] # proc[d].k
        /\ x[1] = K => /\ In(proc[c]) = x => x[2] + 1 < i
                       /\ Out(proc[c]) = x => x[2] < i
  BY <1>4 DEF LineInv, PipeInv
<1>9. \A d \in Pids \ {First} : Owns(d) => proc[d].k # K
  BY <1>1, <1>4 DEF OwnerInv
<1>10. \A x \in DOMAIN pipe : /\ x = In(proc'[q]) => x = <<K, i - 1>>
                              /\ x = Out(proc'[q]) => x = <<K, i>>
  BY <1>2 DEF ForksNext
<1>11. UniqueInv'
  <2> SUFFICES ASSUME NEW c \in Commands', NEW d \in Commands', c # d
               PROVE  /\ In(proc'[c]) = In(proc'[d]) => In(proc'[c]) \notin DOMAIN pipe
                      /\ Out(proc'[c]) = Out(proc'[d]) => Out(proc'[c]) \notin DOMAIN pipe
    BY <1>1 DEF UniqueInv
  <2>1. CASE c # q /\ d # q
    BY <1>7, <2>1 DEF UniqueInv
  <2>2. ASSUME NEW e \in Commands'
        PROVE  e # q =>
               /\ In(proc'[e]) = In(proc'[q]) => In(proc'[e]) \notin DOMAIN pipe
               /\ Out(proc'[e]) = Out(proc'[q]) => Out(proc'[e]) \notin DOMAIN pipe
    <3> SUFFICES ASSUME e # q
                 PROVE  /\ In(proc'[e]) = In(proc'[q]) => In(proc'[e]) \notin DOMAIN pipe
                        /\ Out(proc'[e]) = Out(proc'[q]) => Out(proc'[e]) \notin DOMAIN pipe
      OBVIOUS
    <3>1. e \in Commands /\ proc'[e] = proc[e]
      BY <1>7
    <3>2. ASSUME In(proc[e]) = <<K, i - 1>>, In(proc[e]) \in DOMAIN pipe
          PROVE  FALSE
      BY <1>2, <1>8, <3>1, <3>2
    <3>3. ASSUME Out(proc[e]) = <<K, i>>, Out(proc[e]) \in DOMAIN pipe
          PROVE  FALSE
      BY <1>2, <1>8, <3>1, <3>3
    <3> QED
      BY <1>10, <3>1, <3>2, <3>3
  <2> QED
    BY <2>1, <2>2
<1>12. LineInv'
  <2> SUFFICES ASSUME NEW c \in Commands', NEW x \in DOMAIN pipe, x \in {In(proc'[c]), Out(proc'[c])}
               PROVE  /\ x[1] <= nread'
                      /\ \A d \in Pids \ {First} : Owns(d)' => x[1] # proc'[d].k
                      /\ At(First, "execute")' => x[1] # proc'[First].k
                      /\ At(First, "fork")' /\ x[1] = proc'[First].k =>
                           /\ In(proc'[c]) = x => x[2] + 1 < proc'[First].next
                           /\ Out(proc'[c]) = x => x[2] < proc'[First].next
    BY <1>1 DEF LineInv
  <2>1. CASE c = q
    <3>1. x \in {<<K, i - 1>>, <<K, i>>} /\ (In(proc'[c]) = x => x = <<K, i - 1>>)
      BY <1>10, <2>1
    <3>2. x[1] = K /\ x[2] \in {i - 1, i} /\ (In(proc'[c]) = x => x[2] = i - 1)
      BY <3>1
    <3> QED
      BY <1>1, <1>2, <1>3, <1>4, <1>5, <1>9, <3>2
  <2>2. CASE c # q
    <3>1. c \in Commands /\ proc'[c] = proc[c]
      BY <1>7, <2>2
    <3>2. /\ x[1] \in Nat /\ x[2] \in Nat /\ x[1] <= nread
          /\ \A d \in Pids \ {First} : Owns(d) => x[1] # proc[d].k
          /\ x[1] = K => /\ In(proc[c]) = x => x[2] + 1 < i
                         /\ Out(proc[c]) = x => x[2] < i
      BY <1>8, <3>1
    <3> QED
      BY <1>1, <1>2, <1>3, <1>4, <1>5, <3>1, <3>2
  <2> QED
    BY <2>1, <2>2
<1> QED
  BY <1>6, <1>11, <1>12

-----------------------------------------------------------------------------
(* The whole invariant, by kinds of steps *)

LEMMA DiesStep ==
  ASSUME IInv, Frame, NEW p, Dies(p), RecordOK(proc'[p], DOMAIN pipe, nread'), InputInv', PipeInv'
  PROVE  IInv'
<1>1. KeepsLines
  BY DiesKeeps DEF IInv
<1>2. LocalInv' /\ FamilyInv' /\ OwedInv' /\ FirstInv'
  BY DiesLocal, DiesFamily, DiesOwed, DiesFirst DEF IInv
<1>3. OwnerInv' /\ LineInv' /\ UniqueInv'
  BY <1>1, KeepsLinesStep DEF IInv
<1> QED
  BY <1>2, <1>3 DEF IInv

LEMMA ContinuesStep ==
  ASSUME IInv, Frame, NEW p, Continues(p), InputInv', PipeInv',
         LocalOK(proc'[p], DOMAIN pipe, nread'),
         proc'[p].state = "shell" => Cardinality(Children(p)) <= Owed(proc'[p]) /\ proc'[p].pc # "connect",
         p = First => /\ proc'[p].in = Tty /\ proc'[p].out = Tty
                      /\ proc'[p].state = "shell" /\ proc'[p].pc = "fork" => proc'[p].fds # {},
         Owns(p)' => \/ Owns(p) /\ proc'[p].k = proc[p].k
                     \/ proc'[p].k = nread + 1 /\ nread' = nread + 1,
         p = First /\ proc'[p].state = "shell" =>
           /\ proc'[p].pc = "execute" => proc'[p].k = nread + 1
           /\ proc'[p].pc = "fork" => proc[p].state = "shell" /\ proc[p].pc = "execute" /\ proc'[p].k = proc[p].k,
         p = First => proc'[p].pc # "connect"
  PROVE  IInv'
<1>1. KeepsLines
  BY ContinuesKeeps DEF IInv
<1>2. LocalInv'
  <2>1. Others({p})
    BY DEF Continues
  <2> QED
    BY <2>1, LocalOthers DEF IInv
<1>3. FamilyInv' /\ OwedInv' /\ FirstInv'
  BY ContinuesFamily, ContinuesOwed, ContinuesFirst DEF IInv
<1>4. OwnerInv' /\ LineInv' /\ UniqueInv'
  BY <1>1, KeepsLinesStep DEF IInv
<1> QED
  BY <1>2, <1>3, <1>4 DEF IInv

LEMMA StartsStep ==
  ASSUME IInv, Frame, NEW p, NEW q, Starts(p, q), InputInv', PipeInv',
         LocalOK(proc'[p], DOMAIN pipe, nread'), LocalOK(proc'[q], DOMAIN pipe, nread'),
         Owed(proc'[p]) = Owed(proc[p]) + 1, proc'[q].state = "shell" => Owed(proc'[q]) = 0,
         proc'[q].state = "shell" => proc'[q].pc = "connect",
         p = First => \/ /\ In(proc'[q]) \notin DOMAIN pipe /\ Out(proc'[q]) \notin DOMAIN pipe
                         /\ proc'[p].pc \notin {"execute", "fork"}
                      \/ ForksNext(q)
  PROVE  IInv'
<1>1. LocalInv'
  <2>1. Others({p, q})
    BY DEF Starts
  <2> QED
    BY <2>1, LocalOthers DEF IInv
<1>2. FamilyInv' /\ OwedInv' /\ FirstInv'
  BY StartsFamily, StartsOwed, StartsFirst DEF IInv
<1>3. OwnerInv' /\ LineInv' /\ UniqueInv'
  <2>1. CASE ForksNext(q)
    BY <2>1, ForksNextStep DEF IInv
  <2>2. CASE p # First
    <3>1. KeepsLines
      BY <2>2, StartsKeeps DEF IInv
    <3> QED
      BY <3>1, KeepsLinesStep DEF IInv
  <2>3. CASE /\ In(proc'[q]) \notin DOMAIN pipe /\ Out(proc'[q]) \notin DOMAIN pipe
             /\ proc'[p].pc \notin {"execute", "fork"}
    <3>1. KeepsLines
      BY <2>3, StartsKeeps DEF IInv
    <3> QED
      BY <3>1, KeepsLinesStep DEF IInv
  <2> QED
    BY <2>1, <2>2, <2>3
<1> QED
  BY <1>1, <1>2, <1>3 DEF IInv

LEMMA ReapsStep ==
  ASSUME IInv, Frame, NEW p, NEW q, Reaps(p, q), InputInv', PipeInv',
         LocalOK(proc'[p], DOMAIN pipe, nread'), LocalOK(proc'[q], DOMAIN pipe, nread'),
         Owed(proc'[p]) = Owed(proc[p]) - 1
  PROVE  IInv'
<1>1. KeepsLines
  BY ReapsKeeps
<1>2. LocalInv'
  <2>1. Others({p, q})
    BY DEF Reaps
  <2> QED
    BY <2>1, LocalOthers DEF IInv
<1>3. FamilyInv' /\ OwedInv' /\ FirstInv'
  BY ReapsFamily, ReapsOwed, ReapsFirst DEF IInv
<1>4. OwnerInv' /\ LineInv' /\ UniqueInv'
  BY <1>1, KeepsLinesStep DEF IInv
<1> QED
  BY <1>2, <1>3, <1>4 DEF IInv

-----------------------------------------------------------------------------
(* What the actions have in common *)

LEMMA Unread ==
  ASSUME IInv, UNCHANGED <<input, nread>>, pipe' \in [DOMAIN pipe -> {0, 1}]
  PROVE  Frame /\ InputInv' /\ PipeInv'
<1>1. DOMAIN pipe' = DOMAIN pipe
  OBVIOUS
<1> QED
  BY <1>1 DEF IInv, Frame, InputInv, PipeInv

LEMMA SamePipes ==
  ASSUME IInv, UNCHANGED <<input, nread, pipe>>
  PROVE  Frame /\ InputInv' /\ PipeInv' /\ nread' = nread
<1>1. pipe' \in [DOMAIN pipe -> {0, 1}]
  BY DEF IInv, PipeInv
<1> QED
  BY <1>1, Unread

\* exit() of a process.
LEMMA ExitStep ==
  ASSUME IInv, Frame, InputInv', PipeInv', NEW p \in Pids, Alive(p), proc' = Ended(proc, p)
  PROVE  IInv'
<1>1. DOMAIN proc = Pids /\ \A q \in Pids : RecordOK(proc[q], DOMAIN pipe, nread)
  BY DEF IInv, LocalInv, LocalOK
<1>2. \A q \in Pids : DOMAIN proc[q] = Fields
  BY <1>1 DEF RecordOK
<1>3. /\ DOMAIN proc' = Pids
      /\ \A q \in Pids : Only(proc'[q], proc[q], {"state", "parent"})
      /\ proc'[p].state = IF Alive(proc[p].parent) THEN "zombie" ELSE "reaped"
      /\ proc'[p].parent = proc[p].parent
      /\ \A q \in Pids \ {p} :
           IF proc[q].parent = p
             THEN /\ proc'[q].parent = InitProc
                  /\ proc'[q].state = IF proc[q].state = "zombie" THEN "reaped" ELSE proc[q].state
             ELSE proc'[q] = proc[q]
  BY ONLY <1>1, <1>2, EndedFacts, p \in Pids, proc' = Ended(proc, p)
<1>4. Only(proc'[p], proc[p], {"state", "in", "out", "fds"}) /\ proc'[p].in = proc[p].in /\ proc'[p].out = proc[p].out
  BY <1>3 DEF Only
<1>5. Dies(p)
  BY <1>3, <1>4 DEF Dies
<1>6. RecordOK(proc'[p], DOMAIN pipe, nread')
  <2>1. RecordOK(proc[p], DOMAIN pipe, nread) /\ Only(proc'[p], proc[p], {"state", "parent"})
        /\ proc'[p].state \in {"zombie", "reaped"} /\ nread \in Nat /\ nread' \in Nat /\ nread <= nread'
    BY <1>1, <1>3 DEF Frame
  <2>2. proc'[p].parent = proc[p].parent
    BY <1>3
  <2> QED
    BY ONLY <2>1, <2>2 DEF RecordOK, Only
<1> QED
  BY <1>5, <1>6, DiesStep

LEMMA ExitAction ==
  ASSUME IInv, NEW p \in Pids, Alive(p), Exit(p)
  PROVE  IInv'
BY SamePipes, ExitStep DEF Exit

\* What is known of a process that runs the shell's code.
LEMMA ShellFacts ==
  ASSUME IInv, NEW p \in Pids
  PROVE  /\ DOMAIN proc = Pids /\ DOMAIN proc[p] = Fields
         /\ LocalOK(proc[p], DOMAIN pipe, nread) /\ RecordOK(proc[p], DOMAIN pipe, nread)
         /\ proc[p].state = "shell" =>
              /\ StageOK(proc[p], DOMAIN pipe) /\ Alive(p)
              /\ Cardinality(Children(p)) \in Nat /\ Cardinality(Children(p)) <= Owed(proc[p])
              /\ proc[p].pc = "connect" => Children(p) = {}
         /\ p = First => /\ proc[p].in = Tty /\ proc[p].out = Tty /\ proc[p].pc # "connect"
                         /\ At(p, "fork") => proc[p].fds # {}
BY ChildrenFinite DEF IInv, LocalInv, LocalOK, RecordOK, OwedInv, FirstInv, Alive

-----------------------------------------------------------------------------
(* Reading *)

LEMMA ReadLineStep ==
  ASSUME IInv, NEW p \in Pids, ReadLine(p)
  PROVE  IInv'
<1>1. /\ proc[p].state = "shell" /\ proc[p].pc = "prompt" /\ proc[p].in = Tty
      /\ input' = (IF input = <<>> THEN <<>> ELSE Tail(input))
      /\ nread' = (IF input = <<>> THEN nread ELSE nread + 1)
      /\ pipe' = pipe
  BY DEF ReadLine, At
<1>2. nread \in Nat /\ IsSeq(input) /\ PipeInv'
  BY <1>1 DEF IInv, InputInv, PipeInv
<1>3. Frame
  BY <1>1, <1>2 DEF Frame
<1>4. InputInv'
  <2>1. CASE input = <<>>
    BY <1>1, <2>1 DEF IInv, InputInv
  <2>2. CASE input # <<>>
    <3>1. input' = Tail(input) /\ nread' = nread + 1
      BY <1>1, <2>2
    <3>2. \A i \in DOMAIN Tail(input) : i \in Nat /\ nread + 1 + i = nread + (i + 1)
      <4>1. IsSeq(Tail(input))
        BY <1>2, <2>2, TailFacts
      <4>2. DOMAIN Tail(input) = 1..Len(Tail(input)) /\ Len(Tail(input)) \in Nat
        BY <4>1, SeqFacts
      <4> QED
        BY <1>2, <4>2
    <3> QED
      BY <1>1, <1>2, <2>2, <3>1, <3>2, TailFacts DEF IInv, InputInv
  <2> QED
    BY <2>1, <2>2
<1>5. CASE input = <<>> \/ IsNull(Parse(Head(input)))
  <2>1. proc' = Ended(proc, p) /\ Alive(p)
    BY <1>1, <1>5 DEF ReadLine, Alive
  <2> QED
    BY <1>2, <1>3, <1>4, <2>1, ExitStep
<1>6. CASE input # <<>> /\ ~IsNull(Parse(Head(input)))
  <2> DEFINE job == Parse(Head(input))
  <2>1. proc' = [proc EXCEPT ![p].job = job, ![p].k = nread + 1, ![p].pc = "execute"] /\ nread' = nread + 1
    BY <1>1, <1>6 DEF ReadLine
  <2>2. JobOK(job) /\ Len(job.cmds) > 0 /\ Pipes(nread + 1, Len(job.cmds)) \subseteq DOMAIN pipe
    <3>1. 1 \in DOMAIN input /\ Head(input) = input[1]
      BY <1>2, <1>6, TailFacts
    <3> QED
      BY <3>1, ParseShape DEF IInv, InputInv
  <2> HIDE DEF job
  <2>3. DOMAIN proc = Pids /\ DOMAIN proc[p] = Fields
    BY ShellFacts
  <2>4. DOMAIN proc' = Pids /\ \A q \in Pids \ {p} : proc'[q] = proc[q]
    BY <2>1, <2>3
  <2>5. proc'[p] = [proc[p] EXCEPT !.job = job, !.k = nread + 1, !.pc = "execute"]
    BY <2>1, <2>3
  <2>6. /\ Only(proc'[p], proc[p], {"job", "k", "pc"})
        /\ proc'[p].job = job /\ proc'[p].k = nread + 1 /\ proc'[p].pc = "execute"
    BY <2>3, <2>5 DEF Only, Fields
  <2>7. Continues(p)
    BY <1>1, <2>4, <2>6 DEF Continues, Only, Alive, Others, In, Out, Joining
  <2>8. LocalOK(proc'[p], DOMAIN pipe, nread')
    <3>1. RecordOK(proc[p], DOMAIN pipe, nread) /\ StageOK(proc[p], DOMAIN pipe)
      BY <1>1, ShellFacts
    <3>2. RecordOK(proc'[p], DOMAIN pipe, nread')
      <4>1. nread' = nread + 1 /\ nread \in Nat /\ JobOK(job)
        BY <1>2, <2>1, <2>2
      <4> QED
        BY ONLY <2>6, <3>1, <4>1 DEF RecordOK, Only
    <3>3. StageOK(proc'[p], DOMAIN pipe)
      BY <1>1, <2>2, <2>6, <3>1 DEF StageOK, Only
    <3> QED
      BY <1>1, <2>6, <3>2, <3>3 DEF LocalOK, Only
  <2>9. Cardinality(Children(p)) <= Owed(proc'[p]) /\ proc'[p].pc # "connect"
    BY <1>1, <2>6, ShellFacts DEF Owed, Only
  <2>10. p = First => proc'[p].in = Tty /\ proc'[p].out = Tty
    BY <2>6, ShellFacts DEF Only
  <2> QED
    BY <1>2, <1>3, <1>4, <2>1, <2>6, <2>7, <2>8, <2>9, <2>10, ContinuesStep
<1> QED
  BY <1>5, <1>6

-----------------------------------------------------------------------------
(* Steps of one shell *)

LEMMA ShellMoves ==
  ASSUME IInv, Frame, InputInv', PipeInv', NEW p \in Pids,
         proc[p].state = "shell", proc[p].pc # "connect",
         DOMAIN proc' = Pids, \A q \in Pids \ {p} : proc'[q] = proc[q],
         Only(proc'[p], proc[p], {"job", "pc", "next", "fds", "waits"}),
         proc'[p].pc \in {"prompt", "execute", "fork", "wait"}, JobOK(proc'[p].job),
         proc'[p].next \in Nat, proc'[p].waits \in Nat,
         proc'[p].fds \subseteq (DOMAIN pipe) \X {"read", "write"},
         StageOK(proc'[p], DOMAIN pipe),
         Cardinality(Children(p)) <= Owed(proc'[p]),
         p = First /\ proc'[p].pc = "fork" => proc'[p].fds # {} /\ proc[p].pc = "execute",
         p = First => proc'[p].pc # "execute",
         Owns(p)' => Owns(p)
  PROVE  IInv'
<1>1. /\ proc'[p].state = "shell" /\ proc'[p].parent = proc[p].parent /\ proc'[p].in = proc[p].in
      /\ proc'[p].out = proc[p].out /\ proc'[p].k = proc[p].k /\ proc'[p].behind = proc[p].behind
      /\ DOMAIN proc'[p] = Fields
  BY DEF Only
<1>2. Continues(p)
  BY <1>1 DEF Continues, Alive, Others, In, Out, Joining
<1>3. LocalOK(proc'[p], DOMAIN pipe, nread')
  <2>1. RecordOK(proc[p], DOMAIN pipe, nread) /\ nread \in Nat /\ nread' \in Nat /\ nread <= nread'
    BY ShellFacts DEF Frame
  <2>2. RecordOK(proc'[p], DOMAIN pipe, nread')
    BY <1>1, <2>1 DEF RecordOK
  <2> QED
    BY <1>1, <2>2 DEF LocalOK
<1>4. p = First => proc'[p].in = Tty /\ proc'[p].out = Tty
  BY <1>1, ShellFacts
<1> QED
  BY <1>1, <1>2, <1>3, <1>4, ContinuesStep

LEMMA ReadDataStep ==
  ASSUME IInv, NEW p \in Pids, ReadData(p)
  PROVE  IInv'
<1> DEFINE x == proc[p].in
<1>1. proc[p].state = "shell" /\ proc[p].pc = "prompt" /\ x # Tty /\ UNCHANGED <<input, nread>>
  BY DEF ReadData, At
<1>2. x \in DOMAIN pipe /\ p # First
  BY <1>1, ShellFacts DEF StageOK
<1>3. pipe \in [DOMAIN pipe -> {0, 1}]
  BY DEF IInv, PipeInv
<1>4. CASE pipe[x] > 0
  <2> DEFINE job == [cmds |-> <<[NewCommand EXCEPT !.words = <<"unknown">>]>>, wait |-> TRUE]
  <2>1. /\ proc' = [proc EXCEPT ![p].job = job, ![p].pc = "execute"]
        /\ pipe' = [pipe EXCEPT ![x] = @ - 1]
    BY <1>4 DEF ReadData
  <2>2. JobOK(job) /\ Len(job.cmds) = 1
    <3>1. job.cmds = [i \in 1..1 |-> job.cmds[i]] /\ 1 \in Nat
      OBVIOUS
    <3>2. IsSeq(job.cmds) /\ Len(job.cmds) = 1
      BY ONLY <3>1, FunctionIsSeq
    <3> QED
      BY <3>2 DEF JobOK
  <2> HIDE DEF job
  <2>3. pipe' \in [DOMAIN pipe -> {0, 1}]
    <3>1. pipe[x] = 1
      BY <1>2, <1>3, <1>4
    <3> QED
      BY <1>2, <1>3, <2>1, <3>1
  <2>4. Frame /\ InputInv' /\ PipeInv'
    BY <1>1, <2>3, Unread
  <2>5. DOMAIN proc = Pids /\ DOMAIN proc[p] = Fields
    BY ShellFacts
  <2>6. /\ DOMAIN proc' = Pids /\ \A q \in Pids \ {p} : proc'[q] = proc[q]
        /\ proc'[p] = [proc[p] EXCEPT !.job = job, !.pc = "execute"]
    BY <2>1, <2>5
  <2>7. /\ Only(proc'[p], proc[p], {"job", "pc"})
        /\ proc'[p].job = job /\ proc'[p].pc = "execute"
    BY <2>5, <2>6 DEF Only, Fields
  <2>8. RecordOK(proc[p], DOMAIN pipe, nread) /\ StageOK(proc[p], DOMAIN pipe)
    BY <1>1, ShellFacts
  <2>9. Len(proc'[p].job.cmds) = 1
    BY <2>2, <2>7
  <2>10. StageOK(proc'[p], DOMAIN pipe)
    <3>1. Pipes(proc[p].k, 1) = {}
      BY DEF Pipes
    <3>2. proc'[p].in = proc[p].in /\ proc'[p].k = proc[p].k /\ proc'[p].fds = proc[p].fds
      BY <2>7 DEF Only
    <3>3. proc[p].in \in {Tty} \union DOMAIN pipe /\ proc[p].fds = {}
      BY <1>1, <2>8 DEF StageOK
    <3> QED
      BY ONLY <2>7, <2>9, <3>1, <3>2, <3>3 DEF StageOK
  <2>11. Cardinality(Children(p)) <= Owed(proc'[p])
    BY <1>1, <2>7, ShellFacts DEF Owed, Only
  <2>12. ~Owns(p)'
    BY ONLY <2>7, <2>9 DEF Owns, At
  <2>13. /\ proc'[p].next \in Nat /\ proc'[p].waits \in Nat
         /\ proc'[p].fds \subseteq (DOMAIN pipe) \X {"read", "write"}
         /\ Only(proc'[p], proc[p], {"job", "pc", "next", "fds", "waits"})
    BY <2>7, <2>8 DEF RecordOK, Only
  <2> QED
    BY <1>1, <1>2, <2>2, <2>4, <2>6, <2>7, <2>10, <2>11, <2>12, <2>13, ShellMoves
<1>5. CASE ~(pipe[x] > 0)
  <2>1. proc' = Ended(proc, p) /\ UNCHANGED pipe /\ Alive(p)
    BY <1>1, <1>5 DEF ReadData, Alive
  <2> QED
    BY <1>1, <2>1, SamePipes, ExitStep
<1> QED
  BY <1>4, <1>5

LEMMA MakePipesStep ==
  ASSUME IInv, NEW p \in Pids, MakePipes(p)
  PROVE  IInv'
<1> DEFINE n == Len(proc[p].job.cmds)
           fds == Ends(proc[p].k, n)
<1>1. /\ proc[p].state = "shell" /\ proc[p].pc = "execute" /\ n > 1
      /\ proc' = [proc EXCEPT ![p].fds = fds, ![p].next = 1, ![p].pc = "fork"]
      /\ UNCHANGED <<input, nread, pipe>>
  BY DEF MakePipes, At
<1>2. RecordOK(proc[p], DOMAIN pipe, nread) /\ StageOK(proc[p], DOMAIN pipe)
  BY <1>1, ShellFacts
<1>3. n \in Nat /\ JobOK(proc[p].job)
  BY <1>2, SeqFacts DEF RecordOK, JobOK
<1>4. fds # {} /\ fds \subseteq (DOMAIN pipe) \X {"read", "write"}
  <2>1. Pipes(proc[p].k, n) \subseteq DOMAIN pipe
    BY <1>1, <1>2 DEF StageOK
  <2>2. <<proc[p].k, 1>> \in Pipes(proc[p].k, n)
    BY <1>1, <1>3 DEF Pipes
  <2>3. <<<<proc[p].k, 1>>, "read">> \in fds
    BY <2>2 DEF Ends
  <2> QED
    BY <2>1, <2>3 DEF Ends
<1> HIDE DEF fds
<1>5. DOMAIN proc = Pids /\ DOMAIN proc[p] = Fields
  BY ShellFacts
<1>6. /\ DOMAIN proc' = Pids /\ \A q \in Pids \ {p} : proc'[q] = proc[q]
      /\ proc'[p] = [proc[p] EXCEPT !.fds = fds, !.next = 1, !.pc = "fork"]
  BY <1>1, <1>5
<1>7. /\ Only(proc'[p], proc[p], {"fds", "next", "pc"})
      /\ proc'[p].fds = fds /\ proc'[p].next = 1 /\ proc'[p].pc = "fork"
  BY <1>5, <1>6 DEF Only, Fields
<1>8. StageOK(proc'[p], DOMAIN pipe)
  <2>1. 1 \in 1..(n + 1)
    BY <1>3
  <2> QED
    BY <1>1, <1>2, <1>7, <2>1 DEF StageOK, Only, fds
<1>9. Cardinality(Children(p)) <= Owed(proc'[p])
  BY <1>1, <1>2, <1>7, ShellFacts DEF Owed, Only, RecordOK
<1>10. Owns(p)
  BY <1>1 DEF Owns, At
<1>11. /\ proc'[p].job = proc[p].job /\ proc'[p].next \in Nat /\ proc'[p].waits \in Nat
       /\ Only(proc'[p], proc[p], {"job", "pc", "next", "fds", "waits"})
  BY <1>2, <1>7 DEF RecordOK, Only
<1> QED
  BY <1>1, <1>3, <1>4, <1>6, <1>7, <1>8, <1>9, <1>10, <1>11, SamePipes, ShellMoves

\* What AfterStarting changes.
LEMMA AfterStartingFacts ==
  ASSUME NEW procs, DOMAIN procs = Pids, NEW p \in Pids, DOMAIN procs[p] = Fields
  PROVE  LET after == AfterStarting(procs, p) IN
         /\ DOMAIN after = Pids /\ \A q \in Pids \ {p} : after[q] = procs[q]
         /\ Only(after[p], procs[p], {"pc", "waits"})
         /\ after[p].pc = IF procs[p].job.wait THEN "wait" ELSE "prompt"
         /\ after[p].waits = Len(procs[p].job.cmds)
<1> DEFINE after == AfterStarting(procs, p)
           label == IF procs[p].job.wait THEN "wait" ELSE "prompt"
           waits == Len(procs[p].job.cmds)
<1>1. /\ DOMAIN after = Pids /\ \A q \in Pids \ {p} : after[q] = procs[q]
      /\ after[p] = [procs[p] EXCEPT !.pc = label, !.waits = waits]
  BY DEF AfterStarting
<1> HIDE DEF after, label, waits
<1>2. Only(after[p], procs[p], {"pc", "waits"}) /\ after[p].pc = label /\ after[p].waits = waits
  BY <1>1 DEF Only, Fields
<1> QED
  BY <1>1, <1>2 DEF after, label, waits

LEMMA CloseStep ==
  ASSUME IInv, NEW p \in Pids, Close(p)
  PROVE  IInv'
<1> DEFINE after == AfterStarting(proc, p)
<1>1. /\ proc[p].state = "shell" /\ proc[p].pc = "fork" /\ proc[p].next > Len(proc[p].job.cmds)
      /\ proc' = [after EXCEPT ![p].fds = {}] /\ UNCHANGED <<input, nread, pipe>>
  BY DEF Close, At
<1>2. DOMAIN proc = Pids /\ DOMAIN proc[p] = Fields
  BY ShellFacts
<1>3. /\ DOMAIN after = Pids /\ \A q \in Pids \ {p} : after[q] = proc[q]
      /\ Only(after[p], proc[p], {"pc", "waits"})
      /\ after[p].pc = (IF proc[p].job.wait THEN "wait" ELSE "prompt")
      /\ after[p].waits = Len(proc[p].job.cmds)
  BY <1>2, AfterStartingFacts
<1> HIDE DEF after
<1>4. /\ DOMAIN proc' = Pids /\ \A q \in Pids \ {p} : proc'[q] = proc[q]
      /\ proc'[p] = [after[p] EXCEPT !.fds = {}]
  BY <1>1, <1>3
<1>5. Only(proc'[p], after[p], {"fds"}) /\ proc'[p].fds = {}
  <2>1. DOMAIN after[p] = Fields
    BY <1>3 DEF Only
  <2> QED
    BY <1>4, <2>1 DEF Only, Fields
<1>6. /\ Only(proc'[p], proc[p], {"pc", "waits", "fds"})
      /\ proc'[p].pc = (IF proc[p].job.wait THEN "wait" ELSE "prompt")
      /\ proc'[p].waits = Len(proc[p].job.cmds) /\ proc'[p].fds = {}
  BY <1>3, <1>5 DEF Only
<1>7. RecordOK(proc[p], DOMAIN pipe, nread) /\ StageOK(proc[p], DOMAIN pipe)
  BY <1>1, ShellFacts
<1>8. Len(proc[p].job.cmds) \in Nat /\ JobOK(proc[p].job)
  BY <1>7, SeqFacts DEF RecordOK, JobOK
<1>9. StageOK(proc'[p], DOMAIN pipe)
  BY <1>6, <1>7, <1>8 DEF StageOK, Only, JobOK
<1>10. Cardinality(Children(p)) <= Owed(proc'[p])
  <2>1. /\ Cardinality(Children(p)) \in Nat /\ Cardinality(Children(p)) <= Owed(proc[p])
        /\ proc[p].next <= Len(proc[p].job.cmds) + 1 /\ proc[p].next \in Nat /\ proc[p].behind \in Nat
        /\ proc[p].job.wait \in BOOLEAN
    BY <1>1, <1>7, <1>8, ShellFacts DEF StageOK, RecordOK, JobOK
  <2>2. proc'[p].behind = proc[p].behind
    BY <1>6 DEF Only
  <2>3. CASE proc[p].job.wait
    BY <1>1, <1>6, <1>8, <2>1, <2>2, <2>3 DEF Owed
  <2>4. CASE ~proc[p].job.wait
    BY <1>1, <1>6, <1>8, <2>1, <2>2, <2>4 DEF Owed
  <2> QED
    BY <2>3, <2>4
<1>11. ~Owns(p)'
  BY <1>6 DEF Owns, At
<1>12. /\ proc'[p].job = proc[p].job /\ proc'[p].next \in Nat /\ proc'[p].waits \in Nat
       /\ proc'[p].pc \in {"wait", "prompt"}
       /\ Only(proc'[p], proc[p], {"job", "pc", "next", "fds", "waits"})
  BY <1>6, <1>7, <1>8 DEF RecordOK, Only
<1> QED
  BY <1>1, <1>4, <1>6, <1>8, <1>9, <1>10, <1>11, <1>12, SamePipes, ShellMoves

LEMMA WaitsDoneStep ==
  ASSUME IInv, NEW p \in Pids, WaitsDone(p)
  PROVE  IInv'
<1>1. /\ proc[p].state = "shell" /\ proc[p].pc = "wait" /\ proc[p].waits = 0
      /\ proc' = [proc EXCEPT ![p].pc = "prompt"] /\ UNCHANGED <<input, nread, pipe>>
  BY DEF WaitsDone, At
<1>2. /\ DOMAIN proc = Pids /\ DOMAIN proc[p] = Fields
      /\ RecordOK(proc[p], DOMAIN pipe, nread) /\ StageOK(proc[p], DOMAIN pipe)
  BY <1>1, ShellFacts
<1>3. /\ DOMAIN proc' = Pids /\ \A q \in Pids \ {p} : proc'[q] = proc[q]
      /\ proc'[p] = [proc[p] EXCEPT !.pc = "prompt"]
  BY <1>1, <1>2
<1>4. Only(proc'[p], proc[p], {"pc"}) /\ proc'[p].pc = "prompt"
  BY <1>2, <1>3 DEF Only, Fields
<1>5. StageOK(proc'[p], DOMAIN pipe)
  BY <1>1, <1>2, <1>4 DEF StageOK, Only
<1>6. Cardinality(Children(p)) <= Owed(proc'[p])
  BY <1>1, <1>2, <1>4, ShellFacts DEF Owed, Only, RecordOK
<1>7. ~Owns(p)'
  BY <1>4 DEF Owns, At
<1>8. /\ JobOK(proc'[p].job) /\ proc'[p].next \in Nat /\ proc'[p].waits \in Nat
      /\ proc'[p].fds \subseteq (DOMAIN pipe) \X {"read", "write"}
      /\ Only(proc'[p], proc[p], {"job", "pc", "next", "fds", "waits"})
  BY <1>2, <1>4 DEF RecordOK, Only
<1> QED
  BY <1>1, <1>3, <1>4, <1>5, <1>6, <1>7, <1>8, SamePipes, ShellMoves

LEMMA WaitChildStep ==
  ASSUME IInv, NEW p \in Pids, WaitChild(p)
  PROVE  IInv'
<1>1. /\ proc[p].state = "shell" /\ proc[p].pc = "wait" /\ proc[p].waits > 0
      /\ UNCHANGED <<input, nread, pipe>>
  BY DEF WaitChild, At
<1>2. /\ DOMAIN proc = Pids /\ DOMAIN proc[p] = Fields
      /\ RecordOK(proc[p], DOMAIN pipe, nread) /\ StageOK(proc[p], DOMAIN pipe)
  BY <1>1, ShellFacts
<1> DEFINE less == proc[p].waits - 1
<1>3. less \in Nat
  BY <1>1, <1>2 DEF RecordOK
<1>4. CASE Children(p) = {} /\ proc' = [proc EXCEPT ![p].waits = @ - 1]
  <2>1. /\ DOMAIN proc' = Pids /\ \A q \in Pids \ {p} : proc'[q] = proc[q]
        /\ proc'[p] = [proc[p] EXCEPT !.waits = less]
    BY <1>2, <1>4
  <2> HIDE DEF less
  <2>2. Only(proc'[p], proc[p], {"waits"}) /\ proc'[p].waits = less
    BY <1>2, <2>1 DEF Only, Fields
  <2>3. StageOK(proc'[p], DOMAIN pipe) /\ proc'[p].pc = "wait"
    BY <1>1, <1>2, <2>2 DEF StageOK, Only
  <2>4. Cardinality(Children(p)) <= Owed(proc'[p])
    <3>1. Owed(proc'[p]) \in Nat
      BY <1>2, <1>3, <2>2, <2>3 DEF Owed, Only, RecordOK
    <3> QED
      BY <1>4, <3>1, FS_EmptySet
  <2>5. ~Owns(p)'
    BY <2>3 DEF Owns, At
  <2>6. /\ JobOK(proc'[p].job) /\ proc'[p].next \in Nat
        /\ proc'[p].fds \subseteq (DOMAIN pipe) \X {"read", "write"}
        /\ Only(proc'[p], proc[p], {"job", "pc", "next", "fds", "waits"})
    BY <1>2, <2>2 DEF RecordOK, Only
  <2> QED
    BY <1>1, <1>3, <2>1, <2>2, <2>3, <2>4, <2>5, <2>6, SamePipes, ShellMoves
<1>5. ASSUME NEW q \in Children(p), proc[q].state = "zombie",
             proc' = [proc EXCEPT ![p].waits = @ - 1, ![q].state = "reaped"]
      PROVE  IInv'
  <2>1. q \in Pids /\ q # p /\ proc[q].parent = p /\ LocalOK(proc[q], DOMAIN pipe, nread) /\ DOMAIN proc[q] = Fields
    BY <1>1, <1>5, ShellFacts DEF Children
  <2>2. /\ DOMAIN proc' = Pids /\ \A r \in Pids \ {p, q} : proc'[r] = proc[r]
        /\ proc'[p] = [proc[p] EXCEPT !.waits = less]
        /\ proc'[q] = [proc[q] EXCEPT !.state = "reaped"]
    BY <1>2, <1>5, <2>1
  <2> HIDE DEF less
  <2>3. Only(proc'[p], proc[p], {"waits"}) /\ proc'[p].waits = less
    BY <1>2, <2>2 DEF Only, Fields
  <2>4. Only(proc'[q], proc[q], {"state"}) /\ proc'[q].state = "reaped"
    BY <2>1, <2>2 DEF Only, Fields
  <2>5. Reaps(p, q)
    BY <1>1, <1>5, <2>1, <2>2, <2>3, <2>4 DEF Reaps, Others
  <2>6. LocalOK(proc'[q], DOMAIN pipe, nread')
    <3>1. nread \in Nat /\ nread' = nread /\ nread <= nread
      BY <1>1 DEF IInv, InputInv
    <3>2. Only(proc'[q], proc[q], {"state", "parent"}) /\ proc'[q].parent \in Pids \union {InitProc}
      BY <2>1, <2>4 DEF Only
    <3> QED
      BY <2>1, <2>4, <3>1, <3>2, LocalFacts
  <2>7. LocalOK(proc'[p], DOMAIN pipe, nread')
    <3>1. RecordOK(proc'[p], DOMAIN pipe, nread)
      BY <1>2, <1>3, <2>3 DEF RecordOK, Only
    <3>2. StageOK(proc'[p], DOMAIN pipe)
      BY <1>1, <1>2, <2>3 DEF StageOK, Only
    <3> QED
      BY <1>1, <2>3, <3>1, <3>2 DEF LocalOK, Only
  <2>8. Owed(proc'[p]) = Owed(proc[p]) - 1
    <3>1. /\ proc'[p].pc = "wait" /\ proc'[p].waits = proc[p].waits - 1 /\ proc'[p].behind = proc[p].behind
          /\ proc[p].waits \in Nat /\ proc[p].behind \in Nat
      BY <1>1, <1>2, <2>3 DEF Only, RecordOK, less
    <3> QED
      BY <1>1, <3>1 DEF Owed
  <2> QED
    BY <1>1, <2>5, <2>6, <2>7, <2>8, SamePipes, ReapsStep
<1> QED
  BY <1>4, <1>5 DEF WaitChild

-----------------------------------------------------------------------------
(* Starting a process *)

\* execute_external() ends the process, or makes it a program that reads and
\* writes what the process did, or files.
LEMMA ExternalFacts ==
  ASSUME NEW procs, DOMAIN procs = Pids, NEW q \in Pids, DOMAIN procs[q] = Fields, NEW cmd
  PROVE  LET after == External(procs, q, cmd) IN
         \/ after = Ended(procs, q)
         \/ /\ DOMAIN after = Pids /\ \A r \in Pids \ {q} : after[r] = procs[r]
            /\ Only(after[q], procs[q], {"state", "in", "out"}) /\ after[q].state = "running"
            /\ after[q].in \in {procs[q].in, File} /\ after[q].out \in {procs[q].out, File}
<1> DEFINE after == External(procs, q, cmd)
           name == Head(cmd.words)
           holds == IF name = "source" THEN 2 ELSE 0
           in == IF cmd.from = NULL THEN procs[q].in ELSE File
           out == IF cmd.to = NULL THEN procs[q].out ELSE File
<1>1. \/ after = Ended(procs, q)
      \/ after = [procs EXCEPT ![q].state = "running", ![q].program = name, ![q].holds = holds,
                               ![q].in = in, ![q].out = out]
  BY DEF External
<1>2. in \in {procs[q].in, File} /\ out \in {procs[q].out, File}
  OBVIOUS
<1> HIDE DEF after, name, holds, in, out
<1>3. CASE after # Ended(procs, q)
  <2>1. /\ DOMAIN after = Pids /\ \A r \in Pids \ {q} : after[r] = procs[r]
        /\ after[q] = [procs[q] EXCEPT !.state = "running", !.program = name, !.holds = holds,
                                       !.in = in, !.out = out]
    BY <1>1, <1>3
  <2>2. /\ Only(after[q], procs[q], {"state", "in", "out"}) /\ after[q].state = "running"
        /\ after[q].in = in /\ after[q].out = out
    BY <2>1 DEF Only, Fields
  <2> QED
    BY <1>2, <2>1, <2>2 DEF after
<1> QED
  BY <1>3 DEF after

\* What fork() returns to the parent and makes of the child.
LEMMA StartedFacts ==
  ASSUME NEW procs, DOMAIN procs = Pids, NEW p \in Pids, DOMAIN procs[p] = Fields,
         NEW q \in Pids \ {p}, NEW child
  PROVE  LET after == Started(procs, p, q, child) IN
         /\ DOMAIN after = Pids /\ \A r \in Pids \ {p, q} : after[r] = procs[r]
         /\ after[q] = child /\ Only(after[p], procs[p], {"behind"})
         /\ after[p].behind = IF procs[p].job.wait THEN procs[p].behind ELSE procs[p].behind + 1
<1> DEFINE after == Started(procs, p, q, child)
           behind == IF procs[p].job.wait THEN procs[p].behind ELSE procs[p].behind + 1
<1>1. /\ DOMAIN after = Pids /\ \A r \in Pids \ {p, q} : after[r] = procs[r]
      /\ after[q] = child /\ after[p] = [procs[p] EXCEPT !.behind = behind]
  BY DEF Started
<1> HIDE DEF after, behind
<1>2. Only(after[p], procs[p], {"behind"}) /\ after[p].behind = behind
  BY <1>1 DEF Only, Fields
<1> QED
  BY <1>1, <1>2 DEF after, behind

\* A process that fork() may return.
LEMMA ForkedFacts ==
  ASSUME IInv, CanFork, NEW q \in Forked, NEW p \in Pids, proc[p].state = "shell"
  PROVE  /\ q \in Pids /\ proc[q].state = "unused" /\ q # p /\ q # First
         /\ DOMAIN proc[q] = Fields /\ \A r \in Pids : proc[r].parent # q
<1>1. q \in Pids /\ proc[q].state = "unused"
  BY DEF Forked, CanFork
<1>2. q # p /\ q # First
  BY <1>1 DEF IInv, FirstInv
<1>3. \A r \in Pids : proc[r].parent # q
  BY <1>1 DEF IInv, FamilyInv
<1> QED
  BY <1>1, <1>2, <1>3, ShellFacts

LEMMA ExecuteCommandStep ==
  ASSUME IInv, NEW p \in Pids, ExecuteCommand(p)
  PROVE  IInv'
<1> DEFINE cmd == Head(proc[p].job.cmds)
           after == AfterStarting(proc, p)
<1>1. proc[p].state = "shell" /\ proc[p].pc = "execute" /\ Len(proc[p].job.cmds) = 1
  BY DEF ExecuteCommand, At
<1>2. /\ DOMAIN proc = Pids /\ DOMAIN proc[p] = Fields /\ Alive(p)
      /\ RecordOK(proc[p], DOMAIN pipe, nread) /\ StageOK(proc[p], DOMAIN pipe)
      /\ proc[p].in \in {Tty} \union DOMAIN pipe
      /\ p = First => proc[p].in = Tty /\ proc[p].out = Tty
  BY <1>1, ShellFacts DEF StageOK
<1>3. /\ DOMAIN after = Pids /\ \A q \in Pids \ {p} : after[q] = proc[q]
      /\ Only(after[p], proc[p], {"pc", "waits"})
      /\ after[p].pc = (IF proc[p].job.wait THEN "wait" ELSE "prompt")
      /\ after[p].waits = 1
  BY <1>1, <1>2, AfterStartingFacts
<1> HIDE DEF after
<1>4. CASE Exit(p)
  BY <1>2, <1>4, ExitAction
<1>5. CASE proc' = after /\ UNCHANGED <<input, nread, pipe>>
  <2>1. /\ Only(proc'[p], proc[p], {"pc", "waits"}) /\ proc'[p].waits = 1
        /\ proc'[p].pc = (IF proc[p].job.wait THEN "wait" ELSE "prompt")
        /\ DOMAIN proc' = Pids /\ \A q \in Pids \ {p} : proc'[q] = proc[q]
    BY <1>3, <1>5
  <2>2. StageOK(proc'[p], DOMAIN pipe)
    BY <1>1, <1>2, <2>1 DEF StageOK, Only
  <2>3. Cardinality(Children(p)) <= Owed(proc'[p])
    <3>1. proc'[p].behind = proc[p].behind /\ proc[p].behind \in Nat
      BY <1>2, <2>1 DEF Only, RecordOK
    <3>2. Cardinality(Children(p)) \in Nat /\ Cardinality(Children(p)) <= proc[p].behind
      BY <1>1, <1>2, ShellFacts DEF Owed, RecordOK
    <3> QED
      BY <2>1, <3>1, <3>2 DEF Owed
  <2>4. ~Owns(p)' /\ proc'[p].pc \in {"wait", "prompt"}
    BY <2>1 DEF Owns, At
  <2>5. /\ JobOK(proc'[p].job) /\ proc'[p].next \in Nat /\ proc'[p].waits \in Nat
        /\ proc'[p].fds \subseteq (DOMAIN pipe) \X {"read", "write"}
        /\ Only(proc'[p], proc[p], {"job", "pc", "next", "fds", "waits"})
    BY <1>2, <2>1 DEF RecordOK, Only
  <2> QED
    BY <1>1, <1>5, <2>1, <2>2, <2>3, <2>4, <2>5, SamePipes, ShellMoves
<1>6. ASSUME CanFork, NEW q \in Forked, UNCHANGED <<input, nread, pipe>>,
             proc' = External(Started(after, p, q, Shell(p, proc[p].in, proc[p].out)), q, cmd)
      PROVE  IInv'
  <2> DEFINE child == Shell(p, proc[p].in, proc[p].out)
             started == Started(after, p, q, child)
  <2>1. /\ q \in Pids /\ proc[q].state = "unused" /\ q # p /\ q # First
        /\ \A r \in Pids : proc[r].parent # q
    BY <1>1, <1>6, ForkedFacts
  <2>2. /\ DOMAIN child = Fields /\ child.parent = p /\ child.in = proc[p].in /\ child.out = proc[p].out
        /\ child.fds = {} /\ child.pc = "prompt" /\ child.waits = 0 /\ child.behind = 0 /\ child.next = 1
        /\ child.k = 0 /\ child.job = [cmds |-> <<>>, wait |-> TRUE]
    BY DEF Shell, Fields
  <2>3. JobOK(child.job)
    <3>1. IsSeq(<<>>)
      BY DEF IsSeq
    <3> QED
      BY <2>2, <3>1 DEF JobOK
  <2> HIDE DEF child
  <2>4. DOMAIN after[p] = Fields /\ after[p].job = proc[p].job /\ after[p].behind = proc[p].behind
    BY <1>3 DEF Only
  <2>5. /\ DOMAIN started = Pids /\ \A r \in Pids \ {p, q} : started[r] = after[r]
        /\ started[q] = child /\ Only(started[p], after[p], {"behind"})
        /\ started[p].behind = IF proc[p].job.wait THEN proc[p].behind ELSE proc[p].behind + 1
    BY <1>3, <2>1, <2>4, StartedFacts
  <2>6. proc' = External(started, q, cmd)
    BY <1>6 DEF child
  <2> HIDE DEF started
  <2>7. /\ Only(started[p], proc[p], {"pc", "waits", "behind"})
        /\ started[p].waits = 1 /\ started[p].pc = (IF proc[p].job.wait THEN "wait" ELSE "prompt")
        /\ \A r \in Pids \ {p, q} : started[r] = proc[r]
    BY <1>3, <2>5 DEF Only
  <2>8. \A r \in Pids : DOMAIN started[r] = Fields
    BY <2>2, <2>5, <2>7, ShellFacts DEF Only
  <2>9. /\ DOMAIN proc' = Pids /\ \A r \in Pids \ {q} : proc'[r] = started[r]
        /\ Only(proc'[q], child, {"state", "in", "out"}) /\ proc'[q].state \in {"running", "zombie"}
        /\ proc'[q].in \in {proc[p].in, File} /\ proc'[q].out \in {proc[p].out, File}
    <3>1. CASE proc' = Ended(started, q)
      <4>1. \A r \in Pids \ {q} : started[r].parent # q
        <5>1. started[p].parent = proc[p].parent
          BY <2>7 DEF Only
        <5> QED
          BY <2>1, <2>7, <5>1
      <4>2. /\ DOMAIN proc' = Pids /\ \A r \in Pids \ {q} : proc'[r] = started[r]
            /\ Only(proc'[q], started[q], {"state", "parent"}) /\ proc'[q].parent = started[q].parent
            /\ proc'[q].state = IF Alive(started[q].parent) THEN "zombie" ELSE "reaped"
        BY <2>1, <2>5, <2>8, <3>1, <4>1, EndedFacts
      <4> QED
        BY <1>2, <2>2, <2>5, <4>2 DEF Only
    <3>2. CASE proc' # Ended(started, q)
      BY <2>1, <2>2, <2>5, <2>6, <2>8, <3>2, ExternalFacts
    <3> QED
      BY <3>1, <3>2
  <2>10. /\ Only(proc'[p], proc[p], {"pc", "next", "waits", "behind"})
         /\ proc'[p].waits = 1 /\ proc'[p].pc = (IF proc[p].job.wait THEN "wait" ELSE "prompt")
         /\ proc'[p].behind = IF proc[p].job.wait THEN proc[p].behind ELSE proc[p].behind + 1
         /\ Only(proc'[p], proc[p], {"pc", "waits", "behind"})
    BY <2>1, <2>5, <2>7, <2>9 DEF Only
  <2>11. proc'[q].parent = p
    BY <2>2, <2>9 DEF Only
  <2>12. Starts(p, q)
    BY <1>1, <2>1, <2>7, <2>9, <2>10, <2>11 DEF Starts, Others
  <2>13. LocalOK(proc'[p], DOMAIN pipe, nread')
    <3>1. RecordOK(proc'[p], DOMAIN pipe, nread)
      <4>1. proc[p].behind \in Nat /\ proc'[p].behind \in Nat /\ proc'[p].waits \in Nat
        BY <1>2, <2>10 DEF RecordOK
      <4> QED
        BY <1>2, <2>10, <4>1 DEF RecordOK, Only
    <3>2. StageOK(proc'[p], DOMAIN pipe) /\ proc'[p].state = "shell"
      BY <1>1, <1>2, <2>10 DEF StageOK, Only
    <3> QED
      BY <1>6, <3>1, <3>2 DEF LocalOK
  <2>14. LocalOK(proc'[q], DOMAIN pipe, nread')
    <3>1. RecordOK(proc'[q], DOMAIN pipe, nread)
      <4>1. nread \in Nat /\ 0 <= nread
        BY DEF IInv, InputInv
      <4> QED
        BY <2>2, <2>3, <2>9, <2>11, <4>1 DEF RecordOK, Only
    <3>2. proc'[q].fds = {}
      BY <2>2, <2>9 DEF Only
    <3> QED
      BY <1>6, <2>9, <3>1, <3>2 DEF LocalOK
  <2>15. Owed(proc'[p]) = Owed(proc[p]) + 1
    <3>1. proc[p].behind \in Nat /\ proc[p].job.wait \in BOOLEAN
      BY <1>2 DEF RecordOK, JobOK
    <3>2. Owed(proc[p]) = proc[p].behind
      BY <1>1, <3>1 DEF Owed
    <3> QED
      BY <2>10, <3>1, <3>2 DEF Owed
  <2>16. p = First => /\ In(proc'[q]) \notin DOMAIN pipe /\ Out(proc'[q]) \notin DOMAIN pipe
                      /\ proc'[p].pc \notin {"execute", "fork"}
    <3>1. In(proc'[q]) = proc'[q].in /\ Out(proc'[q]) = proc'[q].out
      BY <2>9 DEF In, Out, Joining
    <3>2. Tty \notin DOMAIN pipe /\ File \notin DOMAIN pipe
      BY DEF IInv, PipeInv
    <3> QED
      BY <1>2, <2>9, <2>10, <3>1, <3>2
  <2>17. proc'[q].state # "shell"
    BY <2>9
  <2> QED
    BY <1>6, <2>12, <2>13, <2>14, <2>15, <2>16, <2>17, SamePipes, StartsStep
<1> QED
  BY <1>4, <1>5, <1>6 DEF ExecuteCommand, after

LEMMA ForkStep ==
  ASSUME IInv, NEW p \in Pids, Fork(p)
  PROVE  IInv'
<1>1. /\ proc[p].state = "shell" /\ proc[p].pc = "fork" /\ proc[p].next <= Len(proc[p].job.cmds)
  BY DEF Fork, At
<1>2. /\ DOMAIN proc = Pids /\ DOMAIN proc[p] = Fields /\ Alive(p)
      /\ RecordOK(proc[p], DOMAIN pipe, nread) /\ StageOK(proc[p], DOMAIN pipe)
  BY <1>1, ShellFacts
<1>3. CASE Exit(p)
  BY <1>2, <1>3, ExitAction
<1>4. ASSUME CanFork, NEW q \in Forked, UNCHANGED <<input, nread, pipe>>,
             proc' = [Started(proc, p, q, [proc[p] EXCEPT !.parent = p, !.pc = "connect", !.behind = 0])
                        EXCEPT ![p].next = @ + 1]
      PROVE  IInv'
  <2> DEFINE child == [proc[p] EXCEPT !.parent = p, !.pc = "connect", !.behind = 0]
             started == Started(proc, p, q, child)
             next == started[p].next + 1
  <2>1. q \in Pids /\ proc[q].state = "unused" /\ q # p /\ q # First
    BY <1>1, <1>4, ForkedFacts
  <2>2. /\ Only(child, proc[p], {"parent", "pc", "behind"})
        /\ child.parent = p /\ child.pc = "connect" /\ child.behind = 0
    BY <1>2 DEF Only, Fields
  <2> HIDE DEF child
  <2>3. /\ DOMAIN started = Pids /\ \A r \in Pids \ {p, q} : started[r] = proc[r]
        /\ started[q] = child /\ Only(started[p], proc[p], {"behind"})
        /\ started[p].behind = IF proc[p].job.wait THEN proc[p].behind ELSE proc[p].behind + 1
    BY <1>2, <2>1, StartedFacts
  <2>4. proc' = [started EXCEPT ![p].next = next]
    BY <1>4 DEF child
  <2>5. next = proc[p].next + 1 /\ DOMAIN started[p] = Fields
    BY <2>3 DEF Only
  <2> HIDE DEF started, next
  <2>6. /\ DOMAIN proc' = Pids /\ \A r \in Pids \ {p, q} : proc'[r] = proc[r]
        /\ proc'[q] = child /\ proc'[p] = [started[p] EXCEPT !.next = next]
    BY <2>1, <2>3, <2>4
  <2>7. Only(proc'[p], started[p], {"next"}) /\ proc'[p].next = next
    BY <2>5, <2>6 DEF Only, Fields
  <2>8. /\ Only(proc'[p], proc[p], {"next", "behind"}) /\ proc'[p].next = proc[p].next + 1
        /\ proc'[p].behind = IF proc[p].job.wait THEN proc[p].behind ELSE proc[p].behind + 1
    BY <2>3, <2>5, <2>7 DEF Only
  <2>9. /\ proc'[q].state = "shell" /\ proc'[q].pc = "connect" /\ proc'[q].parent = p /\ proc'[q].behind = 0
        /\ Only(proc'[q], proc[p], {"parent", "pc", "behind"})
    BY <1>1, <2>2, <2>6 DEF Only
  <2>10. Starts(p, q)
    BY <1>1, <2>1, <2>6, <2>8, <2>9 DEF Starts, Others, Only
  <2>11. /\ proc[p].next \in 1..Len(proc[p].job.cmds) /\ Len(proc[p].job.cmds) \in Nat
         /\ proc[p].behind \in Nat /\ proc[p].job.wait \in BOOLEAN
    <3>1. Len(proc[p].job.cmds) \in Nat
      BY <1>2, SeqFacts DEF RecordOK, JobOK
    <3> QED
      BY <1>1, <1>2, <3>1 DEF RecordOK, StageOK, JobOK
  <2>12. LocalOK(proc'[p], DOMAIN pipe, nread')
    <3>1. proc'[p].next \in 1..(Len(proc[p].job.cmds) + 1) /\ proc'[p].next \in Nat /\ proc'[p].behind \in Nat
      BY <2>8, <2>11
    <3>2. RecordOK(proc'[p], DOMAIN pipe, nread)
      BY <1>2, <2>8, <3>1 DEF RecordOK, Only
    <3>3. StageOK(proc'[p], DOMAIN pipe) /\ proc'[p].state = "shell"
      BY <1>1, <1>2, <2>8, <3>1 DEF StageOK, Only
    <3> QED
      BY <1>4, <3>2, <3>3 DEF LocalOK
  <2>13. LocalOK(proc'[q], DOMAIN pipe, nread')
    <3>1. RecordOK(proc'[q], DOMAIN pipe, nread)
      BY <1>2, <2>9 DEF RecordOK, Only
    <3>2. StageOK(proc'[q], DOMAIN pipe)
      BY <1>1, <1>2, <2>9 DEF StageOK, Only
    <3> QED
      BY <1>4, <2>9, <3>1, <3>2 DEF LocalOK
  <2>14. Owed(proc'[p]) = Owed(proc[p]) + 1
    <3>1. proc'[p].pc = "fork" /\ proc'[p].job = proc[p].job
      BY <1>1, <2>8 DEF Only
    <3>2. CASE proc[p].job.wait
      BY <1>1, <2>8, <2>11, <3>1, <3>2 DEF Owed
    <3>3. CASE ~proc[p].job.wait
      BY <1>1, <2>8, <2>11, <3>1, <3>3 DEF Owed
    <3> QED
      BY <3>2, <3>3
  <2>15. Owed(proc'[q]) = 0
    BY <2>9 DEF Owed
  <2>16. p = First => ForksNext(q)
    <3> SUFFICES ASSUME p = First
                 PROVE  ForksNext(q)
      OBVIOUS
    <3>1. proc[First].in = Tty /\ proc[First].out = Tty
      BY ShellFacts
    <3>2. /\ proc'[q].in = Tty /\ proc'[q].out = Tty /\ proc'[q].k = proc[First].k /\ proc'[q].next = proc[First].next
      BY <2>9, <3>1 DEF Only
    <3>3. /\ In(proc'[q]) \in {Tty, <<proc[First].k, proc[First].next - 1>>}
          /\ Out(proc'[q]) \in {Tty, <<proc[First].k, proc[First].next>>}
      BY <3>2 DEF In, Out
    <3> QED
      BY <1>1, <2>8, <2>9, <2>10, <3>3 DEF ForksNext, At
  <2> QED
    BY <1>4, <2>9, <2>10, <2>12, <2>13, <2>14, <2>15, <2>16, SamePipes, StartsStep
<1> QED
  BY <1>3, <1>4 DEF Fork

-----------------------------------------------------------------------------
(* Connecting *)

LEMMA ConnectStep ==
  ASSUME IInv, NEW p \in Pids, Connect(p)
  PROVE  IInv'
<1> DEFINE i == proc[p].next
           n == Len(proc[p].job.cmds)
           cmd == proc[p].job.cmds[i]
           in == IF i > 1 THEN <<proc[p].k, i - 1>> ELSE proc[p].in
           out == IF i < n THEN <<proc[p].k, i>> ELSE proc[p].out
           connected == [proc EXCEPT ![p].fds = {}, ![p].in = in, ![p].out = out]
           cmds == [proc[p].job.cmds EXCEPT ![i] = Consumed(cmd)]
<1>1. proc[p].state = "shell" /\ proc[p].pc = "connect"
  BY DEF Connect, At
<1>2. /\ DOMAIN proc = Pids /\ DOMAIN proc[p] = Fields /\ Alive(p) /\ p # First
      /\ RecordOK(proc[p], DOMAIN pipe, nread) /\ StageOK(proc[p], DOMAIN pipe)
  BY <1>1, ShellFacts
<1>3. /\ n \in Nat /\ i \in 1..n /\ IsSeq(proc[p].job.cmds) /\ DOMAIN proc[p].job.cmds = 1..n
      /\ DOMAIN proc[p].job = {"cmds", "wait"} /\ proc[p].job.wait \in BOOLEAN /\ proc[p].next \in Nat
  <2>1. IsSeq(proc[p].job.cmds) /\ DOMAIN proc[p].job = {"cmds", "wait"} /\ proc[p].job.wait \in BOOLEAN
    BY <1>2 DEF RecordOK, JobOK
  <2>2. n \in Nat /\ DOMAIN proc[p].job.cmds = 1..n
    BY <2>1, SeqFacts
  <2>3. i \in 1..(n + 1) /\ i <= n
    BY <1>1, <1>2 DEF StageOK
  <2> QED
    BY <2>1, <2>2, <2>3
<1>4. in = In(proc[p]) /\ out = Out(proc[p]) /\ in \in {Tty} \union DOMAIN pipe
  <2>1. i > 1 => <<proc[p].k, i - 1>> \in Pipes(proc[p].k, n)
    BY <1>3 DEF Pipes
  <2>2. Pipes(proc[p].k, n) \subseteq DOMAIN pipe /\ proc[p].in \in {Tty} \union DOMAIN pipe
    BY <1>1, <1>2 DEF StageOK
  <2> QED
    BY <1>1, <2>1, <2>2 DEF In, Out, Joining
<1>5. \/ Exit(p)
      \/ /\ UNCHANGED <<input, nread, pipe>>
         /\ \/ proc' = [connected EXCEPT ![p].pc = "fork", ![p].job.cmds[i] = Consumed(cmd)]
            \/ proc' = External(connected, p, cmd)
  BY DEF Connect
<1> HIDE DEF in, out
<1>6. /\ DOMAIN connected = Pids /\ \A q \in Pids \ {p} : connected[q] = proc[q]
      /\ connected[p] = [proc[p] EXCEPT !.fds = {}, !.in = in, !.out = out]
  BY <1>2
<1> HIDE DEF connected
<1>7. /\ Only(connected[p], proc[p], {"fds", "in", "out"})
      /\ connected[p].fds = {} /\ connected[p].in = in /\ connected[p].out = out
  BY <1>2, <1>6 DEF Only, Fields
<1>8. RecordOK(connected[p], DOMAIN pipe, nread)
  BY <1>2, <1>7 DEF RecordOK, Only
<1>9. CASE Exit(p)
  BY <1>2, <1>9, ExitAction
<1>10. ASSUME UNCHANGED <<input, nread, pipe>>,
              proc' = [connected EXCEPT ![p].pc = "fork", ![p].job.cmds[i] = Consumed(cmd)]
       PROVE  IInv'
  <2> DEFINE job == [proc[p].job EXCEPT !.cmds = cmds]
  <2>1. DOMAIN cmds = 1..n /\ cmds = [c \in 1..n |-> cmds[c]]
    BY <1>3
  <2>2. /\ DOMAIN proc' = Pids /\ \A q \in Pids \ {p} : proc'[q] = proc[q]
        /\ proc'[p] = [connected[p] EXCEPT !.pc = "fork", !.job.cmds[i] = Consumed(cmd)]
    BY <1>6, <1>10
  <2>3. DOMAIN connected[p] = Fields /\ connected[p].job = proc[p].job
    BY <1>7 DEF Only
  <2>4. proc'[p] = [connected[p] EXCEPT !.pc = "fork", !.job = job]
    BY <2>2, <2>3 DEF Fields
  <2> HIDE DEF cmds
  <2>5. IsSeq(cmds) /\ Len(cmds) = n
    BY <1>3, <2>1, FunctionIsSeq
  <2>6. JobOK(job) /\ job.cmds = cmds
    BY <1>3, <2>5 DEF JobOK
  <2> HIDE DEF job
  <2>7. Only(proc'[p], connected[p], {"pc", "job"}) /\ proc'[p].pc = "fork" /\ proc'[p].job = job
    BY <2>3, <2>4 DEF Only, Fields
  <2>8. /\ Only(proc'[p], proc[p], {"pc", "job", "fds", "in", "out"})
        /\ proc'[p].fds = {} /\ proc'[p].in = in /\ proc'[p].out = out /\ proc'[p].state = "shell"
        /\ Len(proc'[p].job.cmds) = n
    BY <1>1, <1>7, <2>5, <2>6, <2>7 DEF Only
  <2>9. Continues(p)
    BY <1>2, <1>4, <2>2, <2>7, <2>8 DEF Continues, Others, In, Out, Joining, Only
  <2>10. RecordOK(proc'[p], DOMAIN pipe, nread)
    BY <1>8, <2>6, <2>7 DEF RecordOK, Only
  <2>11. StageOK(proc'[p], DOMAIN pipe)
    BY <1>1, <1>2, <1>4, <2>7, <2>8 DEF StageOK, Only
  <2>12. LocalOK(proc'[p], DOMAIN pipe, nread')
    BY <1>10, <2>8, <2>10, <2>11 DEF LocalOK
  <2>13. Cardinality(Children(p)) <= Owed(proc'[p])
    <3>1. Children(p) = {}
      BY <1>1, ShellFacts
    <3>2. proc'[p].behind \in Nat /\ proc'[p].next \in 1..n
      BY <1>3, <2>8, <2>10 DEF RecordOK, Only
    <3>3. Owed(proc'[p]) \in Nat
      BY <1>3, <2>7, <3>2 DEF Owed
    <3> QED
      BY <3>1, <3>3, FS_EmptySet
  <2>14. ~Owns(p)' /\ proc'[p].pc # "connect"
    BY <2>7, <2>8 DEF Owns, At
  <2> QED
    BY <1>2, <1>10, <2>9, <2>12, <2>13, <2>14, SamePipes, ContinuesStep
<1>11. ASSUME UNCHANGED <<input, nread, pipe>>, proc' = External(connected, p, cmd)
       PROVE  IInv'
  <2>1. DOMAIN connected = Pids /\ DOMAIN connected[p] = Fields /\ connected[p].parent = proc[p].parent
    BY <1>6, <1>7 DEF Only
  <2>2. CASE proc' = Ended(connected, p)
    <3>1. \A q \in Pids : DOMAIN connected[q] = Fields
      BY <1>6, <2>1, ShellFacts
    <3>2. /\ DOMAIN proc' = Pids
          /\ \A q \in Pids : Only(proc'[q], connected[q], {"state", "parent"})
          /\ proc'[p].state = IF Alive(connected[p].parent) THEN "zombie" ELSE "reaped"
          /\ proc'[p].parent = connected[p].parent
          /\ \A q \in Pids \ {p} :
               IF connected[q].parent = p
                 THEN /\ proc'[q].parent = InitProc
                      /\ proc'[q].state = IF connected[q].state = "zombie" THEN "reaped" ELSE connected[q].state
                 ELSE proc'[q] = connected[q]
      BY ONLY <2>1, <2>2, <3>1, EndedFacts, p \in Pids
    <3>3. Only(proc'[p], proc[p], {"state", "in", "out", "fds"})
      BY <1>7, <3>2 DEF Only
    <3>4. Dies(p)
      BY <1>2, <1>6, <2>1, <3>2, <3>3 DEF Dies
    <3>5. RecordOK(proc'[p], DOMAIN pipe, nread')
      <4>1. /\ proc'[p].state \in {"zombie", "reaped"} /\ proc'[p].parent = connected[p].parent
            /\ Only(proc'[p], connected[p], {"state", "parent"}) /\ nread' = nread
        BY <1>11, <2>1, <3>2
      <4> QED
        BY ONLY <1>8, <4>1 DEF RecordOK, Only
    <3> QED
      BY <1>11, <3>4, <3>5, SamePipes, DiesStep
  <2>3. CASE proc' # Ended(connected, p)
    <3>1. /\ DOMAIN proc' = Pids /\ \A r \in Pids \ {p} : proc'[r] = connected[r]
          /\ Only(proc'[p], connected[p], {"state", "in", "out"}) /\ proc'[p].state = "running"
          /\ proc'[p].in \in {in, File} /\ proc'[p].out \in {out, File}
      <4> HIDE DEF cmd
      <4>1. /\ DOMAIN proc' = Pids /\ \A r \in Pids \ {p} : proc'[r] = connected[r]
            /\ Only(proc'[p], connected[p], {"state", "in", "out"}) /\ proc'[p].state = "running"
            /\ proc'[p].in \in {connected[p].in, File} /\ proc'[p].out \in {connected[p].out, File}
        BY ONLY <1>11, <2>1, <2>3, ExternalFacts, p \in Pids
      <4> QED
        BY <1>7, <4>1
    <3>2. Continues(p)
      BY <1>2, <1>4, <1>6, <2>1, <3>1 DEF Continues, Others, In, Out, Joining, Only
    <3>3. LocalOK(proc'[p], DOMAIN pipe, nread')
      <4>1. proc'[p].fds = {}
        BY <1>7, <3>1 DEF Only
      <4>2. RecordOK(proc'[p], DOMAIN pipe, nread)
        BY <1>8, <3>1 DEF RecordOK, Only
      <4> QED
        BY <1>11, <3>1, <4>1, <4>2 DEF LocalOK
    <3>4. ~Owns(p)'
      BY <3>1 DEF Owns, At
    <3> QED
      BY <1>2, <1>11, <3>1, <3>2, <3>3, <3>4, SamePipes, ContinuesStep
  <2> QED
    BY <2>2, <2>3
<1> QED
  BY <1>5, <1>9, <1>10, <1>11

-----------------------------------------------------------------------------
(* The programs *)

\* A program that reads or writes.
LEMMA ProgramRuns ==
  ASSUME IInv, NEW p \in Pids, proc[p].state = "running", NEW v, proc' = [proc EXCEPT ![p].holds = v],
         UNCHANGED <<input, nread>>, pipe' \in [DOMAIN pipe -> {0, 1}]
  PROVE  IInv'
<1>1. DOMAIN proc = Pids /\ DOMAIN proc[p] = Fields /\ LocalOK(proc[p], DOMAIN pipe, nread)
  BY ShellFacts
<1>2. /\ DOMAIN proc' = Pids /\ \A q \in Pids \ {p} : proc'[q] = proc[q]
      /\ proc'[p] = [proc[p] EXCEPT !.holds = v]
  BY <1>1
<1>3. Only(proc'[p], proc[p], {})
  BY <1>1, <1>2 DEF Only, Fields
<1>4. proc'[p].state = "running"
  BY <1>3 DEF Only
<1>5. Continues(p)
  BY <1>2, <1>3, <1>4 DEF Continues, Others, In, Out, Joining, Only, Alive
<1>6. LocalOK(proc'[p], DOMAIN pipe, nread')
  BY <1>1, <1>3, <1>4 DEF LocalOK, RecordOK, Only
<1>7. ~Owns(p)'
  BY <1>4 DEF Owns, At
<1>8. p = First => proc'[p].in = Tty /\ proc'[p].out = Tty /\ proc'[p].pc # "connect"
  BY <1>3, ShellFacts DEF Only
<1> QED
  BY <1>4, <1>5, <1>6, <1>7, <1>8, Unread, ContinuesStep

LEMMA ReadItemStep ==
  ASSUME IInv, NEW p \in Pids, ReadItem(p)
  PROVE  IInv'
<1> DEFINE x == proc[p].in
           v == 1
<1>1. /\ proc[p].state = "running" /\ x \in DOMAIN pipe /\ pipe[x] > 0 /\ UNCHANGED <<input, nread>>
      /\ pipe' = [pipe EXCEPT ![x] = @ - 1] /\ proc' = [proc EXCEPT ![p].holds = v]
  BY DEF ReadItem, IsPipe
<1>2. pipe' \in [DOMAIN pipe -> {0, 1}]
  <2>1. pipe \in [DOMAIN pipe -> {0, 1}] /\ pipe[x] = 1
    BY <1>1 DEF IInv, PipeInv
  <2> QED
    BY <1>1, <2>1
<1> QED
  BY <1>1, <1>2, ProgramRuns

LEMMA WriteItemStep ==
  ASSUME IInv, NEW p \in Pids, WriteItem(p)
  PROVE  IInv'
<1> DEFINE x == proc[p].out
           v == proc[p].holds - 1
<1>1. /\ proc[p].state = "running" /\ UNCHANGED <<input, nread>>
      /\ x \in DOMAIN pipe => pipe[x] = 0
      /\ pipe' = (IF x \in DOMAIN pipe THEN [pipe EXCEPT ![x] = @ + 1] ELSE pipe)
  BY DEF WriteItem, IsPipe
<1>2. proc' = [proc EXCEPT ![p].holds = v]
  <2>1. proc' = [proc EXCEPT ![p].holds = @ - 1] /\ DOMAIN proc = Pids
    BY ShellFacts DEF WriteItem
  <2> QED
    BY <2>1
<1>3. pipe' \in [DOMAIN pipe -> {0, 1}]
  <2>1. pipe \in [DOMAIN pipe -> {0, 1}]
    BY DEF IInv, PipeInv
  <2>2. CASE x \in DOMAIN pipe
    BY <1>1, <2>1, <2>2
  <2>3. CASE x \notin DOMAIN pipe
    BY <1>1, <2>1, <2>3
  <2> QED
    BY <2>2, <2>3
<1> HIDE DEF v
<1> QED
  BY <1>1, <1>2, <1>3, ProgramRuns

LEMMA FinishStep ==
  ASSUME IInv, NEW p \in Pids, Finish(p)
  PROVE  IInv'
BY ExitAction DEF Finish, Alive

-----------------------------------------------------------------------------
(* The invariant holds in every reachable state. *)

LEMMA InitInv == Init => IInv
<1> SUFFICES ASSUME Init
             PROVE  IInv
  OBVIOUS
<1>1. /\ input \in Inputs /\ nread = 0 /\ pipe = [x \in PipesOf(input) |-> 0]
      /\ proc = [p \in Pids |-> IF p = First THEN Shell(InitProc, Tty, Tty) ELSE Unused]
      /\ First \in Pids /\ InitProc \notin Pids
  BY ShellAssumption DEF Init
<1>2. IsSeq(input) /\ \A i \in DOMAIN input : IsSeq(input[i])
  <2>1. input \in Seq(Range(input)) /\ \A line \in Range(input) : line \in Seq(Range(line))
    BY <1>1, ShellAssumption
  <2>2. \A i \in DOMAIN input : input[i] \in Range(input)
    BY DEF Range
  <2> QED
    BY <2>1, <2>2 DEF IsSeq
<1>3. InputInv
  <2>1. \A i \in DOMAIN input : i \in Nat \ {0}
    BY <1>2, SeqFacts
  <2>2. \A i \in DOMAIN input : nread + i = i
    BY <1>1, <2>1
  <2>3. DOMAIN pipe = PipesOf(input)
    BY <1>1
  <2> QED
    BY <1>1, <1>2, <2>2, <2>3 DEF InputInv, PipesOf
<1>4. PipeInv
  <2>1. DOMAIN pipe = PipesOf(input) /\ pipe \in [DOMAIN pipe -> {0, 1}]
    BY <1>1
  <2>2. ASSUME NEW x \in PipesOf(input)
        PROVE  x \in (Nat \ {0}) \X (Nat \ {0})
    <3>1. PICK k \in DOMAIN input : x \in Pipes(k, Len(Parse(input[k]).cmds))
      BY DEF PipesOf
    <3>2. IsSeq(Parse(input[k]).cmds)
      BY <1>2, ParseShape DEF JobOK
    <3>3. k \in Nat \ {0} /\ Len(Parse(input[k]).cmds) \in Nat
      BY <1>2, <3>2, SeqFacts
    <3> QED
      BY <3>1, <3>3 DEF Pipes
  <2>3. Tty \notin PipesOf(input) /\ File \notin PipesOf(input)
    BY <1>1, ShellAssumption
  <2> QED
    BY <2>1, <2>2, <2>3 DEF PipeInv
<1>5. ASSUME NEW p \in Pids
      PROVE  /\ DOMAIN proc[p] = Fields /\ proc[p].parent = InitProc /\ proc[p].in = Tty /\ proc[p].out = Tty
             /\ proc[p].pc = "prompt" /\ proc[p].job = [cmds |-> <<>>, wait |-> TRUE] /\ proc[p].k = 0
             /\ proc[p].next = 1 /\ proc[p].fds = {} /\ proc[p].waits = 0 /\ proc[p].behind = 0
             /\ proc[p].state = IF p = First THEN "shell" ELSE "unused"
  BY <1>1 DEF Shell, Unused, Fields
<1>6. LocalInv
  <2>1. DOMAIN proc = Pids
    BY <1>1
  <2>2. ASSUME NEW p \in Pids
        PROVE  LocalOK(proc[p], DOMAIN pipe, nread)
    <3>1. JobOK(proc[p].job)
      <4>1. IsSeq(<<>>)
        BY DEF IsSeq
      <4>2. proc[p].job = [cmds |-> <<>>, wait |-> TRUE]
        BY <1>5
      <4> QED
        BY ONLY <4>1, <4>2 DEF JobOK
    <3>2. RecordOK(proc[p], DOMAIN pipe, nread)
      BY <1>1, <1>5, <3>1 DEF RecordOK
    <3>3. StageOK(proc[p], DOMAIN pipe)
      BY <1>5 DEF StageOK
    <3> QED
      BY <1>5, <3>2, <3>3 DEF LocalOK
  <2> QED
    BY <2>1, <2>2 DEF LocalInv
<1>7. FamilyInv
  BY <1>1, <1>5 DEF FamilyInv
<1>8. \A p \in Pids : Children(p) = {}
  BY <1>1, <1>5 DEF Children
<1>9. OwedInv
  <2>1. ASSUME NEW p \in Pids
        PROVE  Owed(proc[p]) = 0 /\ Cardinality(Children(p)) = 0
    <3>1. proc[p].behind = 0 /\ proc[p].pc = "prompt"
      BY <1>5
    <3> QED
      BY <1>8, <3>1, FS_EmptySet DEF Owed
  <2> QED
    BY <1>8, <2>1 DEF OwedInv
<1>10. FirstInv
  BY <1>1, <1>5 DEF FirstInv, At
<1>11. Commands = {} /\ \A p \in Pids : ~Owns(p)
  BY <1>1, <1>5 DEF Commands, Owns, At
<1> QED
  BY <1>3, <1>4, <1>6, <1>7, <1>9, <1>10, <1>11 DEF IInv, OwnerInv, LineInv, UniqueInv

LEMMA StutterInv == IInv /\ UNCHANGED vars => IInv'
<1> SUFFICES ASSUME IInv, UNCHANGED vars
             PROVE  IInv'
  OBVIOUS
<1>1. input' = input /\ nread' = nread /\ proc' = proc /\ pipe' = pipe
  BY DEF vars
<1>2. InputInv' /\ PipeInv' /\ LocalInv'
  BY <1>1 DEF IInv, InputInv, PipeInv, LocalInv
<1>3. FamilyInv' /\ OwedInv' /\ FirstInv'
  BY <1>1 DEF IInv, FamilyInv, OwedInv, FirstInv, Alive, Children, At
<1>4. OwnerInv' /\ LineInv' /\ UniqueInv'
  BY <1>1 DEF IInv, OwnerInv, LineInv, UniqueInv, Owns, Commands, Alive, At
<1> QED
  BY <1>2, <1>3, <1>4 DEF IInv

LEMMA NextInv == IInv /\ [Next]_vars => IInv'
<1> SUFFICES ASSUME IInv, [Next]_vars
             PROVE  IInv'
  OBVIOUS
<1>1. ASSUME NEW p \in Pids, ProcessStep(p)
      PROVE  IInv'
  <2>1. CASE ReadLine(p)
    BY <2>1, ReadLineStep
  <2>2. CASE ReadData(p)
    BY <2>2, ReadDataStep
  <2>3. CASE ExecuteCommand(p)
    BY <2>3, ExecuteCommandStep
  <2>4. CASE MakePipes(p)
    BY <2>4, MakePipesStep
  <2>5. CASE Fork(p)
    BY <2>5, ForkStep
  <2>6. CASE Connect(p)
    BY <2>6, ConnectStep
  <2>7. CASE Close(p)
    BY <2>7, CloseStep
  <2>8. CASE WaitChild(p)
    BY <2>8, WaitChildStep
  <2>9. CASE WaitsDone(p)
    BY <2>9, WaitsDoneStep
  <2>10. CASE ReadItem(p)
    BY <2>10, ReadItemStep
  <2>11. CASE WriteItem(p)
    BY <2>11, WriteItemStep
  <2>12. CASE Finish(p)
    BY <2>12, FinishStep
  <2> QED
    BY <1>1, <2>1, <2>2, <2>3, <2>4, <2>5, <2>6, <2>7, <2>8, <2>9, <2>10, <2>11, <2>12 DEF ProcessStep
<1>2. CASE UNCHANGED vars
  BY <1>2, StutterInv
<1> QED
  BY <1>1, <1>2 DEF Next

\* The invariant holds always: who reads and writes which pipe, how many children
\* a shell may have, and what it will wait for.
THEOREM InvariantAlways == Spec => []IInv
BY InitInv, NextInv, PTL DEF Spec

-----------------------------------------------------------------------------
(* What it implies *)

\* Every field has its type, a process has open only pipes that execute_pipeline()
\* made, and no program writes to a pipe that has something in it.
THEOREM TypeCorrect == Spec => []ShellTypeOK
<1>1. IInv => ShellTypeOK
  <2> SUFFICES ASSUME IInv
               PROVE  ShellTypeOK
    OBVIOUS
  <2>1. nread \in Nat /\ \A x \in DOMAIN pipe : pipe[x] \in {0, 1}
    BY DEF IInv, InputInv, PipeInv
  <2>2. \A p \in Pids : RecordOK(proc[p], DOMAIN pipe, nread)
    BY ShellFacts
  <2> QED
    BY <2>1, <2>2 DEF ShellTypeOK, RecordOK
<1> QED
  BY <1>1, InvariantAlways, PTL

\* Two commands of the first shell do not have the same end of a pipe open.
LEMMA OneEnd ==
  ASSUME IInv, NEW x \in DOMAIN pipe, NEW end \in {"read", "write"},
         NEW c \in Connected, NEW d \in Connected, Has(c, x, end), Has(d, x, end)
  PROVE  c = d
<1>1. ASSUME NEW e \in Connected, Has(e, x, end)
      PROVE  /\ e \in Commands /\ e \in Pids \ {First}
             /\ \/ Owns(e) /\ x[1] = proc[e].k
                \/ x = IF end = "read" THEN In(proc[e]) ELSE Out(proc[e])
  <2>1. e \in Pids /\ proc[e].parent = First /\ Alive(e) /\ ~At(e, "connect")
    BY <1>1 DEF Connected, Has
  <2>2. e # First /\ e \in Commands
    BY <2>1 DEF IInv, FamilyInv, Commands
  <2>3. In(proc[e]) = proc[e].in /\ Out(proc[e]) = proc[e].out
    BY <2>1 DEF In, Out, Joining, At
  <2>4. <<x, end>> \in proc[e].fds => Owns(e) /\ x[1] = proc[e].k
    <3> SUFFICES ASSUME <<x, end>> \in proc[e].fds
                 PROVE  Owns(e) /\ x[1] = proc[e].k
      OBVIOUS
    <3>1. LocalOK(proc[e], DOMAIN pipe, nread)
      BY <2>1, ShellFacts
    <3>2. proc[e].state = "shell" /\ StageOK(proc[e], DOMAIN pipe)
      BY <2>1, <3>1 DEF LocalOK, Alive
    <3>3. proc[e].pc = "fork" /\ proc[e].fds \subseteq Ends(proc[e].k, Len(proc[e].job.cmds))
      BY <2>1, <3>2 DEF StageOK, At
    <3>4. x \in Pipes(proc[e].k, Len(proc[e].job.cmds))
      BY <3>3 DEF Ends
    <3> QED
      BY <3>2, <3>3, <3>4 DEF Owns, At, Pipes
  <2> QED
    BY <1>1, <2>1, <2>2, <2>3, <2>4 DEF Has
<1>2. \A e \in Commands : x \in {In(proc[e]), Out(proc[e])} =>
        \A f \in Pids \ {First} : Owns(f) => x[1] # proc[f].k
  BY DEF IInv, LineInv
<1>3. Owns(c) /\ Owns(d) /\ c # d => proc[c].k # proc[d].k
  BY <1>1 DEF IInv, OwnerInv
<1>4. ASSUME c # d, x = (IF end = "read" THEN In(proc[c]) ELSE Out(proc[c])),
             x = (IF end = "read" THEN In(proc[d]) ELSE Out(proc[d]))
      PROVE  FALSE
  BY <1>1, <1>4 DEF IInv, UniqueInv
<1> QED
  BY <1>1, <1>2, <1>3, <1>4

\* The ends of pipes are closed: mybash, while it waits or asks for a line, holds no
\* end of a pipe, and one at most of its connected commands reads each pipe, and
\* one at most writes it, whatever the shells that builtins left do meanwhile.
THEOREM EndsAreClosed == Spec => []EndsClosed
<1>1. ASSUME NEW S, \A c, d \in S : c = d
      PROVE  Cardinality(S) <= 1
  <2>1. CASE S = {}
    BY <2>1, FS_EmptySet
  <2>2. CASE S # {}
    <3>1. PICK c \in S : S = {c}
      BY <1>1, <2>2
    <3>2. Cardinality({c}) = 1
      BY FS_Singleton
    <3> QED
      BY <3>1, <3>2
  <2> QED
    BY <2>1, <2>2
<1>2. IInv => EndsClosed
  <2> SUFFICES ASSUME IInv, At(First, "wait") \/ At(First, "prompt"), NEW x \in DOMAIN pipe
               PROVE  /\ First \notin Readers(x) \union Writers(x)
                      /\ Cardinality(Readers(x) \intersect Connected) <= 1
                      /\ Cardinality(Writers(x) \intersect Connected) <= 1
    BY DEF EndsClosed
  <2>1. First \notin Readers(x) \union Writers(x)
    <3>1. First \in Pids /\ Tty \notin DOMAIN pipe
      BY ShellAssumption DEF IInv, PipeInv
    <3>2. proc[First].fds = {} /\ proc[First].in = Tty /\ proc[First].out = Tty
      BY <3>1, ShellFacts DEF At, StageOK
    <3> QED
      BY <3>1, <3>2 DEF Readers, Writers, Has
  <2>2. \A c, d \in Readers(x) \intersect Connected : c = d
    BY OneEnd DEF Readers
  <2>3. \A c, d \in Writers(x) \intersect Connected : c = d
    BY OneEnd DEF Writers
  <2> QED
    BY <1>1, <2>1, <2>2, <2>3
<1> QED
  BY <1>2, InvariantAlways, PTL

\* The wait() calls of execute_foreground() are enough: a shell at its prompt has no
\* more children than the commands it has started in the background.
THEOREM ChildrenWaited == Spec => []ChildrenReaped
<1>1. IInv => ChildrenReaped
  <2> SUFFICES ASSUME IInv, NEW p \in Pids, At(p, "prompt")
               PROVE  Cardinality(Children(p)) <= proc[p].behind
    BY DEF ChildrenReaped
  <2>1. /\ proc[p].pc = "prompt" /\ proc[p].behind \in Nat
        /\ Cardinality(Children(p)) \in Nat /\ Cardinality(Children(p)) <= Owed(proc[p])
    BY ShellFacts DEF At, RecordOK
  <2> QED
    BY <2>1 DEF Owed
<1> QED
  BY <1>1, InvariantAlways, PTL

=============================================================================
