--------------------------- MODULE PingPong_proofs ---------------------------
(***************************************************************************)
(* Proofs about PingPong, for every length of the rally, every table of    *)
(* semaphores and whatever semaphores other programs have open or open     *)
(* after main() has closed them.                                           *)
(*                                                                         *)
(* The inductive invariant, IInv, follows the turn to print: TurnInv says  *)
(* that it is in one place at most (in one of the two semaphores, with a   *)
(* child that may print, or with one that has printed and calls sem_up())  *)
(* and that the place tells how many words each child has printed.         *)
(* SearchInv is what main()'s two loops need to end inside the table and   *)
(* on two semaphores nobody else uses; CallInv and PcInv tie the system    *)
(* calls to the program text.                                              *)
(***************************************************************************)
EXTENDS PingPong, FiniteSetTheorems, TLAPS

\* A child is done, so that main() may have closed the semaphores and other
\* programs may have opened them.
Done == \E p \in Children : pc[p] = "exited"

\* The sem_open() that main() has returned from succeeded.
JustOpened(label) == UserAt("main", label) /\ ret["main"] = 1

PcInv ==
  /\ pc["main"] \notin {"unborn", "loop", "downed", "upped"}
  /\ \A p \in Children : pc[p] \in {"unborn", "loop", "downed", "upped", "exited"}
  /\ ~Opened \/ pc["main"] = "fork_ping" => pc["ping"] = "unborn" /\ pc["pong"] = "unborn"
  /\ \A p \in Children : pc[p] = "unborn" => i[p] = 0
  /\ pc["main"] = "fork_pong" => pc["pong"] = "unborn"
  /\ \/ pc["main"] \in {"closed_pong", "closed_ping"}
     \/ pc["main"] = "exited" /\ pc["pong"] # "unborn"
     => Done

\* Which system calls are made where, and with which arguments.
CallInv ==
  /\ call["main"] # NoCall =>
       \/ pc["main"] = "opened_ping" /\ call["main"] = OpenCall(semaphore_ping, 0)
       \/ pc["main"] = "opened_pong" /\ call["main"] = OpenCall(semaphore_pong, 1)
       \/ pc["main"] = "closed_pong" /\ call["main"] = SemCall("close", semaphore_pong)
       \/ pc["main"] = "closed_ping" /\ call["main"] = SemCall("close", semaphore_ping)
  /\ \A p \in Children :
       /\ ret[p] = 1
       /\ call[p] # NoCall =>
            \/ pc[p] = "downed" /\ call[p] = SemCall("down", DownSem(p))
            \/ pc[p] = "upped" /\ call[p] = SemCall("up", UpSem(p))

\* Two semaphores are free until main() has found them, and other programs close
\* none of theirs.
FreeInv ==
  /\ \A s \in taken : open[s]
  /\ ~Opened => \E s, t \in Sems \ taken : s # t

\* The search for the first semaphore passes over no free one from 1 on, ...
PingInv == pc["main"] \in PingSearch =>
  /\ semaphore_pong = 0 /\ semaphore_ping >= 1
  /\ \A s \in Sems : 1 <= s /\ s < semaphore_ping => s \in taken
  /\ \A s \in Sems : open[s] => s \in taken \/ (JustOpened("opened_ping") /\ s = semaphore_ping)
  /\ UserAt("main", "opened_ping") =>
       /\ ret["main"] = 0 => semaphore_ping \in taken
       /\ ret["main"] # 0 =>
            semaphore_ping \notin taken /\ value[semaphore_ping] = 0 /\ open[semaphore_ping]

\* ... that for the second passes over none from 0 on, ...
PongInv == pc["main"] \in PongSearch =>
  /\ open[semaphore_ping] /\ value[semaphore_ping] = 0
  /\ \A s \in Sems : s < semaphore_pong => s \in taken \/ s = semaphore_ping
  /\ \A s \in Sems : open[s] =>
       s \in taken \/ s = semaphore_ping \/ (JustOpened("opened_pong") /\ s = semaphore_pong)
  /\ UserAt("main", "opened_pong") =>
       /\ ret["main"] = 0 => semaphore_pong \in taken \/ semaphore_pong = semaphore_ping
       /\ ret["main"] # 0 =>
            /\ semaphore_pong \notin taken /\ semaphore_pong # semaphore_ping
            /\ value[semaphore_pong] = 1 /\ open[semaphore_pong]

\* main() is about to close the semaphore that it closes at the label.
Closing(label) == pc["main"] = label /\ call["main"] # NoCall

\* main() has opened the semaphore and not closed it.
HasPing ==
  \/ pc["main"] \in PongSearch \union {"fork_ping", "fork_pong", "wait", "closed_pong"}
  \/ Closing("closed_ping") \/ (pc["main"] = "exited" /\ ~Done)

HasPong ==
  \/ pc["main"] \in {"fork_ping", "fork_pong", "wait"}
  \/ Closing("closed_pong") \/ (pc["main"] = "exited" /\ ~Done)

\* ... and what they find belongs to nobody else, until main() closes it.
FoundInv ==
  /\ HasPing => semaphore_ping \notin taken /\ open[semaphore_ping]
  /\ HasPong => semaphore_pong \notin taken /\ open[semaphore_pong]
  /\ Opened => semaphore_pong # semaphore_ping

SearchInv == FreeInv /\ PingInv /\ PongInv /\ FoundInv

\* How often p has printed.
Printed(p) == IF pc[p] = "upped" THEN i[p] + 1 ELSE i[p]

CountInv ==
  /\ Len(out) = Printed("ping") + Printed("pong")
  /\ \A p \in Children : pc[p] \in {"downed", "upped"} => i[p] < rally
  /\ \A p \in Children : pc[p] = "exited" => i[p] = rally

\* p may print: it has the turn and has not used it.
Holds(p) == UserAt(p, "downed")

\* p has printed and not yet given the turn away.
Gives(p) == pc[p] = "upped" /\ call[p] # NoCall

\* "Pong" is behind "Ping" by one word at most.
OrderInv == Printed("ping") \in {Printed("pong"), Printed("pong") + 1}

\* The turn is in one place at most, and agrees with what has been printed.
TurnInv == Opened /\ ~Done =>
  /\ value[semaphore_ping] \in {0, 1} /\ value[semaphore_pong] \in {0, 1}
  /\ value[semaphore_pong] = 1 \/ Holds("ping") \/ Gives("pong") =>
       Printed("ping") = Printed("pong")
  /\ value[semaphore_ping] = 1 \/ Holds("pong") \/ Gives("ping") =>
       Printed("ping") = Printed("pong") + 1
  /\ ~ (Holds("ping") /\ Gives("pong")) /\ ~ (Holds("pong") /\ Gives("ping"))
  /\ value[semaphore_pong] = 1 => ~ Holds("ping") /\ ~ Gives("pong")
  /\ value[semaphore_ping] = 1 => ~ Holds("pong") /\ ~ Gives("ping")

IInv ==
  /\ PingPongTypeOK /\ PcInv /\ CallInv /\ SearchInv
  /\ CountInv /\ OrderInv /\ TurnInv /\ Alternation

-----------------------------------------------------------------------------
(* The constants *)

\* What the assumptions say of the constants, in the form the steps use.
LEMMA Constants ==
  /\ Procs = {"main", "ping", "pong"} /\ rally \in Nat \ {0}
  /\ 0 \in Sems /\ 1 \in Sems /\ Sems \subseteq Nat
  /\ 0 \in Values /\ 1 \in Values /\ Values \subseteq Int
  /\ \A s, t \in Sems : s <= t /\ s # t => s + 1 \in Sems
<1>1. Cardinality(Sems) \in Nat /\ Cardinality(Sems) >= 2
  BY PingPongAssumption, FS_CardinalityType
<1>2. Sems = 0..(Cardinality(Sems) - 1)
  BY PingPongAssumption
<1>3. \A n \in Nat : n >= 2 => 0 \in 0..(n - 1) /\ 1 \in 0..(n - 1) /\ 0..(n - 1) \subseteq Nat
  OBVIOUS
<1>4. \A n \in Nat : \A s, t \in 0..(n - 1) : s <= t /\ s # t => s + 1 \in 0..(n - 1)
  OBVIOUS
<1> QED
  BY <1>1, <1>2, <1>3, <1>4, PingPongAssumption

\* The shape of the records that stand for pending calls.
LEMMA CallFacts ==
  /\ NoCall \notin Calls /\ NoCall.op = "none"
  /\ \A s \in Sems, v \in Values :
       /\ OpenCall(s, v) \in Calls /\ OpenCall(s, v).op = "open"
       /\ OpenCall(s, v).sem = s /\ OpenCall(s, v).value = v
  /\ \A s \in Sems, o \in {"close", "up", "down"} :
       SemCall(o, s) \in Calls /\ SemCall(o, s).op = o /\ SemCall(o, s).sem = s
BY DEF NoCall, Calls, Ops, OpenCall, SemCall

\* Two semaphores are free when the program starts.
LEMMA TwoFree ==
  ASSUME NEW T \in SUBSET Sems, Cardinality(Sems \ T) >= 2
  PROVE  \E s, t \in Sems \ T : s # t
<1>1. IsFiniteSet(Sems \ T) /\ Cardinality(Sems \ T) \in Nat
  BY PingPongAssumption, FS_Subset, FS_CardinalityType
<1>2. Sems \ T # {}
  BY <1>1, FS_EmptySet
<1>3. PICK s \in Sems \ T : TRUE
  BY <1>2
<1>4. Sems \ T # {s}
  BY <1>1, FS_Singleton
<1> QED
  BY <1>3, <1>4

\* The labels and process names differ.
LEMMA Distinct ==
  /\ Children = {"ping", "pong"} /\ Children \subseteq Procs
  /\ "main" \in Procs /\ "main" \notin Children
BY Constants DEF Children

\* Whoever is not main() is one of its children.
LEMMA NotMain == \A p \in Procs : p # "main" => p \in Children
BY Constants DEF Children

\* A pending call tells who made it, and where.
LEMMA WhoCalls ==
  ASSUME IInv
  PROVE  \A p \in Procs :
           /\ call[p].op = "open" => p = "main" /\
                \/ pc["main"] = "opened_ping" /\ call[p].sem = semaphore_ping /\ call[p].value = 0
                \/ pc["main"] = "opened_pong" /\ call[p].sem = semaphore_pong /\ call[p].value = 1
           /\ call[p].op = "close" => p = "main" /\
                \/ pc["main"] = "closed_pong" /\ call[p].sem = semaphore_pong
                \/ pc["main"] = "closed_ping" /\ call[p].sem = semaphore_ping
           /\ call[p].op = "up" => p \in Children /\ pc[p] = "upped" /\ call[p].sem = UpSem(p)
           /\ call[p].op = "down" => p \in Children /\ pc[p] = "downed" /\ call[p].sem = DownSem(p)
           /\ call[p].op \in Ops => call[p] # NoCall /\ call[p].sem \in Sems
BY Constants, CallFacts, Distinct DEF IInv, CallInv, PingPongTypeOK, UpSem, DownSem, Ops

\* The program starts in a state of the invariant.
LEMMA InitInv == PingPongInit => IInv
<1> SUFFICES ASSUME PingPongInit PROVE IInv
  OBVIOUS
<1> USE Constants DEF PingPongInit
<1>1. PingPongTypeOK
  BY DEF PingPongTypeOK, PcLabels, Children
<1>2. PcInv /\ CallInv /\ TurnInv
  BY DEF PcInv, CallInv, TurnInv, Opened, PingSearch, PongSearch, Children, Done
<1>3. SearchInv
  <2>1. \E s, t \in Sems \ taken : s # t
    <3>1. taken \in SUBSET Sems /\ Cardinality(Sems \ taken) >= 2
      OBVIOUS
    <3> QED
      BY ONLY <3>1, TwoFree
  <2>2. \A s \in Sems : open[s] <=> s \in taken
    OBVIOUS
  <2>3. \A s \in Sems : ~ (1 <= s /\ s < 1)
    OBVIOUS
  <2>4. pc["main"] = "open_ping" /\ semaphore_ping = 1 /\ semaphore_pong = 0 /\ taken \subseteq Sems
    OBVIOUS
  <2> QED
    BY ONLY <2>1, <2>2, <2>3, <2>4
       DEF SearchInv, FreeInv, PingInv, PongInv, FoundInv, PingSearch, PongSearch, Opened, UserAt,
           HasPing, HasPong, Closing
<1>4. CountInv /\ OrderInv /\ Alternation
  BY DEF CountInv, OrderInv, Printed, Children, Alternation
<1> QED
  BY <1>1, <1>2, <1>3, <1>4 DEF IInv

-----------------------------------------------------------------------------
(* What main(), the children and the system calls may do *)

\* What no step of main() touches.
MainFrame ==
  /\ UNCHANGED <<value, open, ret, taken, i, out>>
  /\ \A p \in Children :
       call'[p] = call[p] /\ (pc'[p] = pc[p] \/ (pc[p] = "unborn" /\ pc'[p] = "loop"))
  /\ Opened => Opened' /\ UNCHANGED <<semaphore_ping, semaphore_pong>>
  /\ ~Opened /\ Opened' =>
       JustOpened("opened_pong") /\ UNCHANGED <<semaphore_ping, semaphore_pong>>

\* main() leaves the children's calls, counters and words alone, and once it has
\* opened its semaphores it stays with them.
LEMMA MainEffect ==
  ASSUME IInv, MainStep
  PROVE  MainFrame
<1> USE Distinct DEF MainFrame, IInv, PingPongTypeOK, PcInv, JustOpened, Opened, PingSearch, PongSearch
<1>1. ASSUME MainOpenPing
      PROVE  MainFrame
  BY <1>1 DEF MainOpenPing, UserAt, Goto, Invoke, absVars
<1>2. ASSUME MainOpenedPing
      PROVE  MainFrame
  BY <1>2 DEF MainOpenedPing, UserAt, Goto, Invoke, absVars
<1>3. ASSUME MainOpenPong
      PROVE  MainFrame
  BY <1>3 DEF MainOpenPong, UserAt, Goto, Invoke, absVars
<1>4. ASSUME MainOpenedPong
      PROVE  MainFrame
  BY <1>4 DEF MainOpenedPong, UserAt, Goto, Invoke, absVars
<1>5. ASSUME MainFork("ping", "fork_ping", "fork_pong")
      PROVE  MainFrame
  BY <1>5 DEF MainFork, UserAt, absVars
<1>6. ASSUME MainFork("pong", "fork_pong", "wait")
      PROVE  MainFrame
  BY <1>6 DEF MainFork, UserAt, absVars
<1>7. ASSUME MainForkFails
      PROVE  MainFrame
  BY <1>7 DEF MainForkFails, UserAt, Goto, Invoke, absVars
<1>8. ASSUME MainWait
      PROVE  MainFrame
  BY <1>8 DEF MainWait, UserAt, Goto, Invoke, absVars
<1>9. ASSUME MainClosePing, ret["main"] = 0
      PROVE  MainFrame
  BY <1>9 DEF MainClosePing, UserAt, Goto, Invoke, absVars
<1>10. ASSUME MainClosePing, ret["main"] # 0
      PROVE  MainFrame
  BY <1>10 DEF MainClosePing, UserAt, Goto, Invoke, absVars
<1>11. ASSUME MainExit
      PROVE  MainFrame
  BY <1>11 DEF MainExit, UserAt, Goto, Invoke, absVars
<1> QED
  BY <1>1, <1>2, <1>3, <1>4, <1>5, <1>6, <1>7, <1>8, <1>9, <1>10, <1>11 DEF MainStep

\* A child takes one of four steps, between its system calls.
LEMMA ChildEffect ==
  ASSUME IInv, NEW p \in Children, ChildStep(p)
  PROVE  /\ UNCHANGED <<value, open, ret, taken, semaphore_ping, semaphore_pong>>
         /\ \A q \in Procs \ {p} : pc'[q] = pc[q] /\ call'[q] = call[q]
         /\ \A q \in Children \ {p} : i'[q] = i[q]
         /\ call[p] = NoCall
         /\ \/ /\ pc[p] = "loop" /\ i[p] < rally /\ UNCHANGED <<i, out>>
               /\ pc'[p] = "downed" /\ call'[p] = SemCall("down", DownSem(p))
            \/ /\ pc[p] = "loop" /\ i[p] = rally /\ UNCHANGED <<i, out>>
               /\ pc'[p] = "exited" /\ call'[p] = NoCall
            \/ /\ pc[p] = "downed" /\ UNCHANGED i /\ out' = Append(out, Word(p))
               /\ pc'[p] = "upped" /\ call'[p] = SemCall("up", UpSem(p))
            \/ /\ pc[p] = "upped" /\ UNCHANGED out /\ i'[p] = i[p] + 1
               /\ pc'[p] = "loop" /\ call'[p] = NoCall
<1> USE Distinct DEF IInv, PingPongTypeOK, CallInv, UserAt, Goto, Invoke, absVars
<1>1. CASE ChildDown(p)
  <2>1. CASE i[p] < rally
    BY <1>1, <2>1 DEF ChildDown
  <2>2. CASE ~ (i[p] < rally)
    <3>1. i[p] = rally
      BY ONLY <2>2, i \in [Children -> 0..rally], Constants
    <3> QED
      BY <1>1, <2>2, <3>1 DEF ChildDown
  <2> QED
    BY <2>1, <2>2
<1>2. CASE ChildPrint(p)
  <2>1. ret[p] = 1
    OBVIOUS
  <2> QED
    BY <1>2, <2>1 DEF ChildPrint
<1>3. CASE ChildNext(p)
  <2>1. ret[p] = 1
    OBVIOUS
  <2> QED
    BY <1>3, <2>1 DEF ChildNext
<1> QED
  BY <1>1, <1>2, <1>3 DEF ChildStep

\* The steps in which system calls take effect.
OpenEffect(s, v) ==
  /\ open'[s]
  /\ open[s] => value'[s] = value[s] /\ ret'["main"] = 0
  /\ ~ open[s] => value'[s] = v /\ ret'["main"] = 1

MainCallEffect ==
  \/ pc["main"] = "opened_ping" /\ OpenEffect(semaphore_ping, 0)
       /\ \A t \in Sems \ {semaphore_ping} : value'[t] = value[t] /\ open'[t] = open[t]
  \/ pc["main"] = "opened_pong" /\ OpenEffect(semaphore_pong, 1)
       /\ \A t \in Sems \ {semaphore_pong} : value'[t] = value[t] /\ open'[t] = open[t]
  \/ pc["main"] = "closed_pong"
       /\ \A t \in Sems \ {semaphore_pong} : value'[t] = value[t] /\ open'[t] = open[t]
  \/ pc["main"] = "closed_ping"
       /\ \A t \in Sems \ {semaphore_ping} : value'[t] = value[t] /\ open'[t] = open[t]

ChildCallEffect(p) ==
  /\ ret'[p] = 1 /\ UNCHANGED open
  /\ \/ /\ pc[p] = "upped" /\ value'[UpSem(p)] = value[UpSem(p)] + 1
        /\ \A t \in Sems \ {UpSem(p)} : value'[t] = value[t]
     \/ /\ pc[p] = "downed" /\ value[DownSem(p)] # 0 /\ value'[DownSem(p)] = value[DownSem(p)] - 1
        /\ \A t \in Sems \ {DownSem(p)} : value'[t] = value[t]

\* What the call of a process does to the semaphores.
LEMMA CallEffect ==
  ASSUME IInv, NEW p \in Procs, Effect(p)
  PROVE  /\ call[p] # NoCall /\ call'[p] = NoCall
         /\ \A q \in Procs \ {p} : call'[q] = call[q] /\ ret'[q] = ret[q]
         /\ p = "main" => MainCallEffect
         /\ p # "main" => ChildCallEffect(p)
<1> USE Distinct, WhoCalls DEF IInv, PingPongTypeOK, Return, Ops
<1>1. CASE AbsOpen(p)
  <2>1. /\ call[p] # NoCall /\ p = "main"
        /\ \/ pc["main"] = "opened_ping" /\ call[p].sem = semaphore_ping /\ call[p].value = 0
           \/ pc["main"] = "opened_pong" /\ call[p].sem = semaphore_pong /\ call[p].value = 1
    BY <1>1 DEF AbsOpen
  <2> QED
    BY <1>1, <2>1 DEF AbsOpen, MainCallEffect, OpenEffect
<1>2. CASE AbsClose(p)
  <2>1. /\ call[p] # NoCall /\ p = "main"
        /\ \/ pc["main"] = "closed_pong" /\ call[p].sem = semaphore_pong
           \/ pc["main"] = "closed_ping" /\ call[p].sem = semaphore_ping
    BY <1>2 DEF AbsClose
  <2> QED
    BY <1>2, <2>1 DEF AbsClose, MainCallEffect
<1>3. CASE AbsUp(p)
  <2>1. call[p] # NoCall /\ p \in Children /\ pc[p] = "upped" /\ call[p].sem = UpSem(p) /\ UpSem(p) \in Sems
    BY <1>3 DEF AbsUp
  <2> QED
    BY <1>3, <2>1 DEF AbsUp, ChildCallEffect
<1>4. CASE AbsDown(p)
  <2>1. call[p] # NoCall /\ p \in Children /\ pc[p] = "downed" /\ call[p].sem = DownSem(p) /\ DownSem(p) \in Sems
    BY <1>4 DEF AbsDown
  <2> QED
    BY <1>4, <2>1 DEF AbsDown, ChildCallEffect
<1> QED
  BY <1>1, <1>2, <1>3, <1>4 DEF Effect

-----------------------------------------------------------------------------
(* Every step preserves every part of the invariant *)

\* No step takes a variable out of its type: the searches for a free semaphore end
\* inside the table, and the children print no more than the rally.
LEMMA TypeStep ==
  ASSUME IInv, [PingPongNext]_ppVars
  PROVE  PingPongTypeOK'
<1> USE Constants, CallFacts, Distinct DEF IInv, PingPongTypeOK, PcLabels, CallInv
<1>1. ASSUME MainOpenPing
      PROVE  PingPongTypeOK'
  BY <1>1 DEF MainOpenPing, UserAt, Goto, Invoke, absVars
<1>2. ASSUME MainOpenedPing
      PROVE  PingPongTypeOK'
  <2>1. ret["main"] = 0 => semaphore_ping + 1 \in Sems
    <3> SUFFICES ASSUME ret["main"] = 0 PROVE semaphore_ping + 1 \in Sems
      OBVIOUS
    <3>1. semaphore_ping \in taken /\ semaphore_ping \in Sems
      BY <1>2 DEF MainOpenedPing, UserAt, SearchInv, PingInv, PingSearch
    <3>2. \A s \in Sems : 1 <= s /\ s < semaphore_ping => s \in taken
      BY <1>2 DEF MainOpenedPing, UserAt, SearchInv, PingInv, PingSearch
    <3>3. PICK s \in Sems : s \notin taken /\ s # 0
      BY <1>2 DEF MainOpenedPing, UserAt, SearchInv, FreeInv, Opened, PingSearch
    <3>4. semaphore_ping <= s /\ semaphore_ping # s
      BY ONLY <3>1, <3>2, <3>3, Constants
    <3> QED
      BY <3>1, <3>3, <3>4, Constants
  <2> QED
    BY <1>2, <2>1 DEF MainOpenedPing, UserAt, Goto, Invoke, absVars
<1>3. ASSUME MainOpenPong
      PROVE  PingPongTypeOK'
  BY <1>3 DEF MainOpenPong, UserAt, Goto, Invoke, absVars
<1>4. ASSUME MainOpenedPong
      PROVE  PingPongTypeOK'
  <2>1. ret["main"] = 0 => semaphore_pong + 1 \in Sems
    <3> SUFFICES ASSUME ret["main"] = 0 PROVE semaphore_pong + 1 \in Sems
      OBVIOUS
    <3>1. semaphore_pong \in taken \union {semaphore_ping} /\ semaphore_pong \in Sems
      BY <1>4 DEF MainOpenedPong, UserAt, SearchInv, PongInv, PongSearch
    <3>2. \A s \in Sems : s < semaphore_pong => s \in taken \union {semaphore_ping}
      BY <1>4 DEF MainOpenedPong, UserAt, SearchInv, PongInv, PongSearch
    <3>3. PICK s \in Sems : s \notin taken /\ s # semaphore_ping
      BY <1>4 DEF MainOpenedPong, UserAt, SearchInv, FreeInv, Opened, PongSearch
    <3>4. semaphore_pong <= s /\ semaphore_pong # s
      BY ONLY <3>1, <3>2, <3>3, Constants
    <3> QED
      BY <3>1, <3>3, <3>4, Constants
  <2> QED
    BY <1>4, <2>1 DEF MainOpenedPong, UserAt, Goto, Invoke, absVars
<1>5. ASSUME MainFork("ping", "fork_ping", "fork_pong")
      PROVE  PingPongTypeOK'
  BY <1>5 DEF MainFork, UserAt, absVars
<1>6. ASSUME MainFork("pong", "fork_pong", "wait")
      PROVE  PingPongTypeOK'
  BY <1>6 DEF MainFork, UserAt, absVars
<1>7. ASSUME MainForkFails
      PROVE  PingPongTypeOK'
  BY <1>7 DEF MainForkFails, UserAt, Goto, Invoke, absVars
<1>8. ASSUME MainWait
      PROVE  PingPongTypeOK'
  BY <1>8 DEF MainWait, UserAt, Goto, Invoke, absVars
<1>9. ASSUME MainClosePing, ret["main"] = 0
      PROVE  PingPongTypeOK'
  BY <1>9 DEF MainClosePing, UserAt, Goto, Invoke, absVars
<1>10. ASSUME MainClosePing, ret["main"] # 0
      PROVE  PingPongTypeOK'
  BY <1>10 DEF MainClosePing, UserAt, Goto, Invoke, absVars
<1>11. ASSUME MainExit
      PROVE  PingPongTypeOK'
  BY <1>11 DEF MainExit, UserAt, Goto, Invoke, absVars
<1>12. ASSUME NEW p \in Children, ChildStep(p)
      PROVE  PingPongTypeOK'
  <2>1. CASE ChildDown(p)
    BY <2>1 DEF ChildDown, DownSem, UserAt, Goto, Invoke, absVars
  <2>2. CASE ChildPrint(p)
    <3>1. ret[p] = 1 /\ pc[p] = "downed"
      BY <2>2 DEF ChildPrint, UserAt
    <3>2. Len(out') = Len(out) + 1 /\ out' \in Seq({"Ping", "Pong"})
      <4>1. out' = Append(out, Word(p)) /\ Word(p) \in {"Ping", "Pong"}
        BY <2>2, <3>1 DEF ChildPrint, Word
      <4> QED
        BY ONLY <4>1, out \in Seq({"Ping", "Pong"})
    <3>3. Len(out') <= 2 * rally
      <4>1. Printed(p) < rally /\ \A q \in Children : Printed(q) <= rally /\ Printed(q) \in Nat
        <5>1. i \in [Children -> 0..rally] /\ rally \in Nat /\ CountInv
          OBVIOUS
        <5> QED
          BY ONLY <3>1, <5>1, p \in Children DEF Printed, CountInv
      <4>2. Len(out) = Printed("ping") + Printed("pong") /\ Len(out') = Len(out) + 1
        BY <3>2 DEF CountInv
      <4> QED
        BY ONLY <4>1, <4>2, rally \in Nat, p \in Children, Distinct
    <3> QED
      BY <2>2, <3>1, <3>2, <3>3 DEF ChildPrint, UpSem, UserAt, Goto, Invoke, absVars
  <2>3. CASE ChildNext(p)
    <3>1. ret[p] = 1 /\ i[p] < rally
      BY <2>3 DEF ChildNext, UserAt, CountInv
    <3>2. i[p] + 1 \in 0..rally
      BY ONLY <3>1, i \in [Children -> 0..rally], rally \in Nat, p \in Children
    <3> QED
      BY <2>3, <3>1, <3>2 DEF ChildNext, UserAt, Goto, absVars
  <2> QED
    BY <1>12, <2>1, <2>2, <2>3 DEF ChildStep
<1>13. ASSUME NEW p \in Procs, Effect(p), UNCHANGED userVars
      PROVE  PingPongTypeOK'
  <2>1. call[p].op \in Ops /\ call[p].sem \in Sems
    BY <1>13, WhoCalls DEF Effect, AbsOpen, AbsClose, AbsUp, AbsDown, Ops
  <2>2. CASE AbsOpen(p)
    <3>1. call[p].value \in Int
      BY <2>2, WhoCalls DEF AbsOpen
    <3> QED
      BY <1>13, <2>1, <2>2, <3>1 DEF AbsOpen, Return, userVars
  <2>3. CASE AbsClose(p)
    BY <1>13, <2>1, <2>3 DEF AbsClose, Return, userVars
  <2>4. CASE AbsUp(p)
    <3>1. value' \in [Sems -> Int]
      BY ONLY <2>1, <2>4, value \in [Sems -> Int] DEF AbsUp
    <3> QED
      BY <1>13, <2>4, <3>1 DEF AbsUp, Return, userVars
  <2>5. CASE AbsDown(p)
    <3>1. value' \in [Sems -> Int]
      BY ONLY <2>1, <2>5, value \in [Sems -> Int] DEF AbsDown
    <3> QED
      BY <1>13, <2>5, <3>1 DEF AbsDown, Return, userVars
  <2> QED
    BY <1>13, <2>2, <2>3, <2>4, <2>5 DEF Effect
<1>14. ASSUME NEW s \in Sems, OthersUse(s)
      PROVE  PingPongTypeOK'
  BY <1>14 DEF OthersUse
<1>15. CASE UNCHANGED ppVars
  BY <1>15 DEF ppVars, absVars, userVars, UserAt
<1> QED
  BY <1>1, <1>2, <1>3, <1>4, <1>5, <1>6, <1>7, <1>8, <1>9, <1>10, <1>11, <1>12,
     <1>13, <1>14, <1>15
     DEF PingPongNext, MainStep, ChildStep, SysCall

\* The children are born when main() says, and stay inside their loop.
LEMMA PcStep ==
  ASSUME IInv, [PingPongNext]_ppVars
  PROVE  PcInv'
<1> USE Distinct DEF IInv, PingPongTypeOK, Children, PcInv, Opened, PingSearch,
        PongSearch, Done
<1>1. ASSUME MainOpenPing
      PROVE  PcInv'
  BY <1>1 DEF MainOpenPing, UserAt, Goto, Invoke, absVars
<1>2. ASSUME MainOpenedPing
      PROVE  PcInv'
  BY <1>2 DEF MainOpenedPing, UserAt, Goto, Invoke, absVars
<1>3. ASSUME MainOpenPong
      PROVE  PcInv'
  BY <1>3 DEF MainOpenPong, UserAt, Goto, Invoke, absVars
<1>4. ASSUME MainOpenedPong
      PROVE  PcInv'
  BY <1>4 DEF MainOpenedPong, UserAt, Goto, Invoke, absVars
<1>5. ASSUME MainFork("ping", "fork_ping", "fork_pong")
      PROVE  PcInv'
  BY <1>5 DEF MainFork, UserAt, absVars
<1>6. ASSUME MainFork("pong", "fork_pong", "wait")
      PROVE  PcInv'
  BY <1>6 DEF MainFork, UserAt, absVars
<1>7. ASSUME MainForkFails
      PROVE  PcInv'
  BY <1>7 DEF MainForkFails, UserAt, Goto, Invoke, absVars
<1>8. ASSUME MainWait
      PROVE  PcInv'
  BY <1>8 DEF MainWait, UserAt, Goto, Invoke, absVars
<1>9. ASSUME MainClosePing, ret["main"] = 0
      PROVE  PcInv'
  BY <1>9 DEF MainClosePing, UserAt, Goto, Invoke, absVars
<1>10. ASSUME MainClosePing, ret["main"] # 0
      PROVE  PcInv'
  BY <1>10 DEF MainClosePing, UserAt, Goto, Invoke, absVars
<1>11. ASSUME MainExit
      PROVE  PcInv'
  BY <1>11 DEF MainExit, UserAt, Goto, Invoke, absVars
<1>12. ASSUME NEW p \in Children, ChildStep(p)
      PROVE  PcInv'
  BY <1>12, ChildEffect
<1>13. ASSUME NEW p \in Procs, Effect(p), UNCHANGED userVars
      PROVE  PcInv'
  BY <1>13 DEF userVars
<1>14. ASSUME NEW s \in Sems, OthersUse(s)
      PROVE  PcInv'
  BY <1>14 DEF OthersUse, Done
<1>15. CASE UNCHANGED ppVars
  BY <1>15 DEF ppVars, absVars, userVars, UserAt
<1> QED
  BY <1>1, <1>2, <1>3, <1>4, <1>5, <1>6, <1>7, <1>8, <1>9, <1>10, <1>11, <1>12,
     <1>13, <1>14, <1>15
     DEF PingPongNext, MainStep, ChildStep, SysCall

\* Calls have the arguments the program gives them, and only main()'s fail.
LEMMA CallStep ==
  ASSUME IInv, [PingPongNext]_ppVars
  PROVE  CallInv'
<1> USE Distinct, CallFacts DEF IInv, PingPongTypeOK, PcInv, Opened, PingSearch,
        PongSearch, CallInv, UpSem, DownSem
<1>1. ASSUME MainOpenPing
      PROVE  CallInv'
  BY <1>1 DEF MainOpenPing, UserAt, Goto, Invoke, absVars
<1>2. ASSUME MainOpenedPing
      PROVE  CallInv'
  BY <1>2 DEF MainOpenedPing, UserAt, Goto, Invoke, absVars
<1>3. ASSUME MainOpenPong
      PROVE  CallInv'
  BY <1>3 DEF MainOpenPong, UserAt, Goto, Invoke, absVars
<1>4. ASSUME MainOpenedPong
      PROVE  CallInv'
  BY <1>4 DEF MainOpenedPong, UserAt, Goto, Invoke, absVars
<1>5. ASSUME MainFork("ping", "fork_ping", "fork_pong")
      PROVE  CallInv'
  BY <1>5 DEF MainFork, UserAt, absVars
<1>6. ASSUME MainFork("pong", "fork_pong", "wait")
      PROVE  CallInv'
  BY <1>6 DEF MainFork, UserAt, absVars
<1>7. ASSUME MainForkFails
      PROVE  CallInv'
  BY <1>7 DEF MainForkFails, UserAt, Goto, Invoke, absVars
<1>8. ASSUME MainWait
      PROVE  CallInv'
  BY <1>8 DEF MainWait, UserAt, Goto, Invoke, absVars
<1>9. ASSUME MainClosePing, ret["main"] = 0
      PROVE  CallInv'
  BY <1>9 DEF MainClosePing, UserAt, Goto, Invoke, absVars
<1>10. ASSUME MainClosePing, ret["main"] # 0
      PROVE  CallInv'
  BY <1>10 DEF MainClosePing, UserAt, Goto, Invoke, absVars
<1>11. ASSUME MainExit
      PROVE  CallInv'
  BY <1>11 DEF MainExit, UserAt, Goto, Invoke, absVars
<1>12. ASSUME NEW p \in Children, ChildStep(p)
      PROVE  CallInv'
  BY <1>12, ChildEffect
<1>13. ASSUME NEW p \in Procs, Effect(p), UNCHANGED userVars
      PROVE  CallInv'
  BY <1>13, CallEffect DEF userVars, ChildCallEffect
<1>14. ASSUME NEW s \in Sems, OthersUse(s)
      PROVE  CallInv'
  BY <1>14 DEF OthersUse
<1>15. CASE UNCHANGED ppVars
  BY <1>15 DEF ppVars, absVars, userVars, UserAt
<1> QED
  BY <1>1, <1>2, <1>3, <1>4, <1>5, <1>6, <1>7, <1>8, <1>9, <1>10, <1>11, <1>12,
     <1>13, <1>14, <1>15
     DEF PingPongNext, MainStep, ChildStep, SysCall

\* The searches pass over semaphores in use only, and stop at one that was free.
LEMMA SearchStep ==
  ASSUME IInv, [PingPongNext]_ppVars
  PROVE  SearchInv'
<1> USE Distinct, Constants, CallFacts DEF IInv, PingPongTypeOK, PcInv, Opened,
        PingSearch, PongSearch, SearchInv, FreeInv, PingInv, PongInv, FoundInv,
        JustOpened, UserAt, Done, HasPing, HasPong, Closing
<1>1. ASSUME MainOpenPing
      PROVE  SearchInv'
  BY <1>1 DEF MainOpenPing, UserAt, Goto, Invoke, absVars
<1>2. ASSUME MainOpenedPing
      PROVE  SearchInv'
  BY <1>2 DEF MainOpenedPing, UserAt, Goto, Invoke, absVars
<1>3. ASSUME MainOpenPong
      PROVE  SearchInv'
  BY <1>3 DEF MainOpenPong, UserAt, Goto, Invoke, absVars
<1>4. ASSUME MainOpenedPong
      PROVE  SearchInv'
  <2>1. CASE ret["main"] = 0
    BY <1>4, <2>1 DEF MainOpenedPong, UserAt, Goto, Invoke, absVars
  <2>2. CASE ret["main"] # 0
    <3>1. /\ UNCHANGED <<value, open, ret, taken, call, semaphore_ping, semaphore_pong>>
          /\ UserAt("main", "opened_pong") /\ pc'["main"] = "fork_ping"
      BY <1>4, <2>2 DEF MainOpenedPong, Goto, absVars
    <3>2. SearchInv /\ taken \subseteq Sems
      OBVIOUS
    <3> QED
      BY ONLY <2>2, <3>1, <3>2
         DEF SearchInv, FreeInv, PingInv, PongInv, FoundInv, PingSearch,
             PongSearch, Opened, JustOpened, UserAt, HasPing, HasPong, Closing
  <2> QED
    BY <2>1, <2>2
<1>5. ASSUME MainFork("ping", "fork_ping", "fork_pong")
      PROVE  SearchInv'
  <2>1. /\ UNCHANGED <<value, open, ret, taken, semaphore_ping, semaphore_pong>>
        /\ pc["main"] = "fork_ping" /\ pc'["main"] = "fork_pong"
        /\ Done' <=> Done
    BY <1>5 DEF MainFork, absVars
  <2>2. SearchInv
    OBVIOUS
  <2> QED
    BY ONLY <2>1, <2>2
       DEF SearchInv, FreeInv, PingInv, PongInv, FoundInv, PingSearch,
           PongSearch, Opened, JustOpened, UserAt, HasPing, HasPong, Closing
<1>6. ASSUME MainFork("pong", "fork_pong", "wait")
      PROVE  SearchInv'
  <2>1. /\ UNCHANGED <<value, open, ret, taken, semaphore_ping, semaphore_pong>>
        /\ pc["main"] = "fork_pong" /\ pc'["main"] = "wait"
        /\ Done' <=> Done
    BY <1>6 DEF MainFork, absVars
  <2>2. SearchInv
    OBVIOUS
  <2> QED
    BY ONLY <2>1, <2>2
       DEF SearchInv, FreeInv, PingInv, PongInv, FoundInv, PingSearch,
           PongSearch, Opened, JustOpened, UserAt, HasPing, HasPong, Closing
<1>7. ASSUME MainForkFails
      PROVE  SearchInv'
  BY <1>7 DEF MainForkFails, UserAt, Goto, Invoke, absVars
<1>8. ASSUME MainWait
      PROVE  SearchInv'
  BY <1>8 DEF MainWait, UserAt, Goto, Invoke, absVars
<1>9. ASSUME MainClosePing, ret["main"] = 0
      PROVE  SearchInv'
  <2>1. /\ UNCHANGED <<value, open, ret, taken, semaphore_ping, semaphore_pong>>
        /\ pc["main"] = "closed_pong" /\ pc'["main"] \in {"exited", "closed_ping"}
        /\ Done /\ Done'
    BY <1>9 DEF MainClosePing, Goto, Invoke, absVars
  <2>2. SearchInv
    OBVIOUS
  <2> QED
    BY ONLY <2>1, <2>2
       DEF SearchInv, FreeInv, PingInv, PongInv, FoundInv, PingSearch,
           PongSearch, Opened, JustOpened, UserAt, HasPing, HasPong, Closing
<1>10. ASSUME MainClosePing, ret["main"] # 0
      PROVE  SearchInv'
  <2>1. /\ UNCHANGED <<value, open, ret, taken, semaphore_ping, semaphore_pong>>
        /\ pc["main"] = "closed_pong" /\ pc'["main"] \in {"exited", "closed_ping"}
        /\ Done /\ Done'
    BY <1>10 DEF MainClosePing, Goto, Invoke, absVars
  <2>2. SearchInv
    OBVIOUS
  <2> QED
    BY ONLY <2>1, <2>2
       DEF SearchInv, FreeInv, PingInv, PongInv, FoundInv, PingSearch,
           PongSearch, Opened, JustOpened, UserAt, HasPing, HasPong, Closing
<1>11. ASSUME MainExit
      PROVE  SearchInv'
  BY <1>11 DEF MainExit, UserAt, Goto, Invoke, absVars
<1>12. ASSUME NEW p \in Children, ChildStep(p)
      PROVE  SearchInv'
  <2>1. /\ UNCHANGED <<value, open, ret, taken, semaphore_ping, semaphore_pong>>
        /\ pc'["main"] = pc["main"] /\ call'["main"] = call["main"]
    BY ONLY IInv, <1>12, ChildEffect, Distinct
  <2>2. Done => Done'
    <3>1. \A q \in Children : pc[q] = "exited" => pc'[q] = "exited"
      BY ONLY IInv, <1>12, ChildEffect, Distinct
    <3> QED
      BY ONLY <3>1 DEF Done
  <2>3. SearchInv
    OBVIOUS
  <2> QED
    BY ONLY <2>1, <2>2, <2>3
       DEF SearchInv, FreeInv, PingInv, PongInv, FoundInv, PingSearch,
           PongSearch, Opened, JustOpened, UserAt, HasPing, HasPong, Closing
<1>13. ASSUME NEW p \in Procs, Effect(p), UNCHANGED userVars
      PROVE  SearchInv'
  <2> DEFINE fixed(t) == value'[t] = value[t] /\ open'[t] = open[t]
  <2>1. /\ UNCHANGED <<taken, pc, semaphore_ping, semaphore_pong>> /\ (Done' <=> Done)
        /\ call[p] # NoCall /\ call'[p] = NoCall
        /\ p # "main" => call'["main"] = call["main"] /\ ret'["main"] = ret["main"]
        /\ p = "main" => MainCallEffect
        /\ p # "main" => ChildCallEffect(p) /\ p \in Children
    <3>1. UNCHANGED <<taken, pc, semaphore_ping, semaphore_pong>> /\ (Done' <=> Done)
      BY <1>13 DEF userVars
    <3>2. /\ p # "main" => call'["main"] = call["main"] /\ ret'["main"] = ret["main"]
          /\ call[p] # NoCall /\ call'[p] = NoCall
          /\ p = "main" => MainCallEffect
          /\ p # "main" => ChildCallEffect(p)
      BY ONLY IInv, <1>13, CallEffect, Distinct
    <3> QED
      BY ONLY <3>1, <3>2, NotMain
  <2>2. /\ SearchInv /\ PcInv /\ taken \subseteq Sems
        /\ semaphore_ping \in Sems /\ semaphore_pong \in Sems
    OBVIOUS
  <2>3. CASE p = "main"
    <3>1. CASE pc["main"] = "opened_ping"
      <4>1. OpenEffect(semaphore_ping, 0) /\ \A t \in Sems \ {semaphore_ping} : fixed(t)
        BY ONLY <2>1, <2>3, <3>1 DEF MainCallEffect
      <4> QED
        BY ONLY <2>1, <2>2, <2>3, <3>1, <4>1
           DEF OpenEffect, SearchInv, FreeInv, PingInv, PongInv, FoundInv, PingSearch,
           PongSearch, Opened, JustOpened, UserAt, HasPing, HasPong, Closing
    <3>2. CASE pc["main"] = "opened_pong"
      <4>1. OpenEffect(semaphore_pong, 1) /\ \A t \in Sems \ {semaphore_pong} : fixed(t)
        BY ONLY <2>1, <2>3, <3>2 DEF MainCallEffect
      <4> QED
        BY ONLY <2>1, <2>2, <2>3, <3>2, <4>1
           DEF OpenEffect, SearchInv, FreeInv, PingInv, PongInv, FoundInv, PingSearch,
           PongSearch, Opened, JustOpened, UserAt, HasPing, HasPong, Closing
    <3>3. CASE pc["main"] = "closed_pong"
      <4>1. \A t \in Sems \ {semaphore_pong} : fixed(t)
        BY ONLY <2>1, <2>3, <3>3 DEF MainCallEffect
      <4>2. semaphore_pong \notin taken /\ semaphore_pong # semaphore_ping
        BY ONLY <2>1, <2>2, <2>3, <3>3 DEF SearchInv, FoundInv, HasPong, Closing, Opened, PingSearch, PongSearch
      <4> QED
        BY ONLY <2>1, <2>2, <2>3, <3>3, <4>1, <4>2
           DEF SearchInv, FreeInv, PingInv, PongInv, FoundInv, PingSearch,
           PongSearch, Opened, JustOpened, UserAt, HasPing, HasPong, Closing
    <3>4. CASE pc["main"] = "closed_ping"
      <4>1. \A t \in Sems \ {semaphore_ping} : fixed(t)
        BY ONLY <2>1, <2>3, <3>4 DEF MainCallEffect
      <4>2. semaphore_ping \notin taken
        BY ONLY <2>1, <2>2, <2>3, <3>4 DEF SearchInv, FoundInv, HasPing, Closing
      <4> QED
        BY ONLY <2>1, <2>2, <2>3, <3>4, <4>1, <4>2
           DEF SearchInv, FreeInv, PingInv, PongInv, FoundInv, PingSearch,
           PongSearch, Opened, JustOpened, UserAt, HasPing, HasPong, Closing
    <3> QED
      BY ONLY <2>1, <2>3, <3>1, <3>2, <3>3, <3>4 DEF MainCallEffect
  <2>4. CASE p # "main"
    <3>1. Opened /\ UNCHANGED open
      BY ONLY <2>1, <2>2, <2>4, Distinct DEF ChildCallEffect, PcInv
    <3> QED
      BY ONLY <2>1, <2>2, <2>4, <3>1
         DEF SearchInv, FreeInv, PingInv, PongInv, FoundInv, PingSearch,
           PongSearch, Opened, JustOpened, UserAt, HasPing, HasPong, Closing
  <2> QED
    BY <2>3, <2>4
<1>14. ASSUME NEW s \in Sems, OthersUse(s)
      PROVE  SearchInv'
  <2>1. /\ UNCHANGED <<call, ret, pc, semaphore_ping, semaphore_pong>>
        /\ open[s] <=> s \in taken
        /\ \A t \in Sems \ {s} : value'[t] = value[t]
        /\ s \in taken \/ (Opened /\ ~open[s])
        /\ \A t \in Sems : open'[t] <=> open[t] \/ t = s
        /\ taken' = taken \union {s}
        /\ Done' <=> Done
    <3>1. /\ UNCHANGED <<call, ret, pc, semaphore_ping, semaphore_pong>>
          /\ s \in taken \/ (Opened /\ ~open[s])
          /\ \A t \in Sems \ {s} : value'[t] = value[t]
          /\ open' = [open EXCEPT ![s] = TRUE] /\ taken' = taken \union {s}
      BY <1>14 DEF OthersUse
    <3>2. open[s] <=> s \in taken
      BY <3>1
    <3>3. \A t \in Sems : open'[t] <=> open[t] \/ t = s
      BY ONLY <3>1, open \in [Sems -> BOOLEAN]
    <3>4. Done' <=> Done
      BY ONLY <3>1 DEF Done
    <3> QED
      BY ONLY <3>1, <3>2, <3>3, <3>4
  <2>2. SearchInv /\ taken \subseteq Sems /\ semaphore_ping \in Sems /\ semaphore_pong \in Sems
    OBVIOUS
  <2>3. FreeInv'
    BY ONLY <2>1, <2>2 DEF SearchInv, FreeInv, Opened
  <2>4. (PingInv /\ PongInv)'
    BY ONLY <2>1, <2>2 DEF SearchInv, PingInv, PongInv, Opened, PingSearch, PongSearch,
                            JustOpened, UserAt
  <2>5. FoundInv'
    BY ONLY <2>1, <2>2 DEF SearchInv, FoundInv, Opened, PingSearch, PongSearch, HasPing, HasPong, Closing
  <2> QED
    BY ONLY <2>3, <2>4, <2>5 DEF SearchInv
<1>15. CASE UNCHANGED ppVars
  BY <1>15 DEF ppVars, absVars, userVars, UserAt
<1> QED
  BY <1>1, <1>2, <1>3, <1>4, <1>5, <1>6, <1>7, <1>8, <1>9, <1>10, <1>11, <1>12,
     <1>13, <1>14, <1>15
     DEF PingPongNext, MainStep, ChildStep, SysCall

\* Every word printed is counted.
LEMMA CountStep ==
  ASSUME IInv, [PingPongNext]_ppVars
  PROVE  CountInv'
<1> USE Distinct DEF IInv, PingPongTypeOK, CountInv, Printed
<1>1. ASSUME MainStep
      PROVE  CountInv'
  BY <1>1, MainEffect DEF MainFrame
<1>2. ASSUME NEW p \in Children, ChildStep(p)
      PROVE  CountInv'
  <2>1. CountInv /\ out \in Seq({"Ping", "Pong"}) /\ i \in [Children -> 0..rally] /\ rally \in Nat
    BY Constants DEF PingPongTypeOK
  <2>2. \A q \in Children \ {p} : Printed(q)' = Printed(q) /\ pc'[q] = pc[q] /\ i'[q] = i[q]
    BY ONLY IInv, <1>2, ChildEffect, Distinct DEF Printed
  <2>3. /\ pc'[p] \in {"downed", "upped"} => i'[p] < rally
        /\ pc'[p] = "exited" => i'[p] = rally
        /\ \/ UNCHANGED out /\ Printed(p)' = Printed(p)
           \/ out' = Append(out, Word(p)) /\ Printed(p)' = Printed(p) + 1
    BY ONLY <2>1, IInv, <1>2, ChildEffect DEF Printed, CountInv
  <2>4. Word(p) \in {"Ping", "Pong"}
    BY ONLY TRUE DEF Word
  <2>5. \/ Len(out') = Len(out) /\ Printed(p)' = Printed(p)
        \/ Len(out') = Len(out) + 1 /\ Printed(p)' = Printed(p) + 1
    BY ONLY <2>1, <2>3, <2>4
  <2>6. Printed("ping") \in Int /\ Printed("pong") \in Int /\ Len(out) \in Int
    BY ONLY <2>1, Distinct DEF Printed
  <2>7. Len(out') = Printed("ping")' + Printed("pong")'
    <3>1. CASE p = "ping"
      <4>1. Printed("pong")' = Printed("pong")
        BY ONLY <2>2, <3>1, Distinct DEF Printed
      <4>2. \/ Len(out') = Len(out) /\ Printed("ping")' = Printed("ping")
            \/ Len(out') = Len(out) + 1 /\ Printed("ping")' = Printed("ping") + 1
        BY ONLY <2>5, <3>1 DEF Printed
      <4> QED
        BY ONLY <2>1, <2>6, <4>1, <4>2 DEF CountInv
    <3>2. CASE p = "pong"
      <4>1. Printed("ping")' = Printed("ping")
        BY ONLY <2>2, <3>2, Distinct DEF Printed
      <4>2. \/ Len(out') = Len(out) /\ Printed("pong")' = Printed("pong")
            \/ Len(out') = Len(out) + 1 /\ Printed("pong")' = Printed("pong") + 1
        BY ONLY <2>5, <3>2 DEF Printed
      <4> QED
        BY ONLY <2>1, <2>6, <4>1, <4>2 DEF CountInv
    <3> QED
      BY <3>1, <3>2, p \in Children
  <2> QED
    BY <2>1, <2>2, <2>3, <2>7
<1>3. ASSUME NEW p \in Procs, Effect(p), UNCHANGED userVars
      PROVE  CountInv'
  BY <1>3 DEF userVars
<1>4. ASSUME NEW s \in Sems, OthersUse(s)
      PROVE  CountInv'
  BY <1>4 DEF OthersUse
<1>5. CASE UNCHANGED ppVars
  BY <1>5 DEF ppVars, absVars, userVars, UserAt
<1> QED
  BY <1>1, <1>2, <1>3, <1>4, <1>5
     DEF PingPongNext, MainStep, ChildStep, SysCall

\* Printed is a number of words no greater than the rally.
LEMMA PrintedType ==
  ASSUME IInv
  PROVE  /\ rally \in Nat
         /\ \A p \in Children : Printed(p) \in 0..rally /\ (Holds(p) => Printed(p) < rally)
         /\ \A p \in Children : pc[p] = "exited" => Printed(p) = rally
<1>1. i \in [Children -> 0..rally] /\ CountInv /\ rally \in Nat
  BY Constants DEF IInv, PingPongTypeOK
<1> QED
  BY ONLY <1>1 DEF Printed, CountInv, Holds, UserAt

\* A child that may print has the turn, even when the other one is done and the
\* semaphores belong to other programs.
LEMMA HoldsTurn ==
  ASSUME IInv
  PROVE  /\ Holds("ping") => Printed("ping") = Printed("pong")
         /\ Holds("pong") => Printed("ping") = Printed("pong") + 1
<1>1. OrderInv /\ TurnInv
  BY DEF IInv
<1>2. Holds("ping") \/ Holds("pong") => Opened
  BY DEF IInv, PcInv, Holds, UserAt, Children
<1>3. CASE ~ Done
  BY ONLY <1>1, <1>2, <1>3 DEF TurnInv
<1>4. CASE Done
  <2>1. pc["ping"] = "exited" \/ pc["pong"] = "exited"
    BY ONLY <1>4 DEF Done, Children
  <2>2. Holds("ping") => pc["ping"] # "exited"
    BY ONLY TRUE DEF Holds, UserAt
  <2>3. Holds("pong") => pc["pong"] # "exited"
    BY ONLY TRUE DEF Holds, UserAt
  <2> QED
    BY ONLY <1>1, <2>1, <2>2, <2>3, PrintedType, IInv, Distinct DEF OrderInv
<1> QED
  BY <1>3, <1>4

\* The turn is handed on, never doubled.
LEMMA TurnStep ==
  ASSUME IInv, [PingPongNext]_ppVars
  PROVE  OrderInv' /\ TurnInv'
<1> USE Distinct DEF IInv, TurnInv, OrderInv
<1>1. ASSUME MainStep
      PROVE  OrderInv' /\ TurnInv'
  <2> USE <1>1, MainEffect DEF MainFrame, Holds, Gives, Printed, UserAt
  <2>1. OrderInv'
    OBVIOUS
  <2>2. CASE Opened
    <3>1. Done' <=> Done
      BY DEF Done
    <3> QED
      BY <2>1, <2>2, <3>1
  <2>3. CASE ~ Opened /\ Opened'
    BY <2>1, <2>3 DEF PcInv, SearchInv, PongInv, JustOpened, PingSearch, PongSearch
  <2> QED
    BY <2>1, <2>2, <2>3
<1>2. ASSUME NEW p \in Children, ChildStep(p)
      PROVE  OrderInv' /\ TurnInv'
  <2>1. TurnInv /\ CallInv /\ value \in [Sems -> Int] /\ i \in [Children -> 0..rally] /\ rally \in Nat
    BY Constants DEF PingPongTypeOK
  <2>2. Opened' <=> Opened
    BY ONLY IInv, <1>2, ChildEffect, Distinct DEF Opened
  <2>3. \A q \in Children \ {p} :
          (Holds(q)' <=> Holds(q)) /\ (Gives(q)' <=> Gives(q)) /\ Printed(q)' = Printed(q)
    BY ONLY IInv, <1>2, ChildEffect, Distinct DEF Holds, Gives, Printed, UserAt
  <2>4. \/ /\ Holds(p) /\ ~ Holds(p)' /\ Gives(p)' /\ ~ Gives(p)
           /\ Printed(p)' = Printed(p) + 1
        \/ /\ ~ Holds(p) /\ ~ Holds(p)' /\ ~ Gives(p)' /\ ~ Gives(p)
           /\ Printed(p)' = Printed(p)
    <3>1. /\ SemCall("down", DownSem(p)) # NoCall /\ SemCall("up", UpSem(p)) # NoCall
      BY CallFacts DEF PingPongTypeOK, UpSem, DownSem
    <3>2. i[p] \in Int /\ i \in [Children -> 0..rally]
      BY <2>1
    <3> QED
      BY ONLY IInv, <1>2, ChildEffect, <3>1, <3>2 DEF Holds, Gives, Printed, UserAt
  <2>5. UNCHANGED <<value, semaphore_ping, semaphore_pong>>
    BY ONLY IInv, <1>2, ChildEffect
  <2>6. \A q \in Children : Printed(q) \in Int
    BY ONLY <2>1 DEF Printed
  <2>7. Done => Done'
    <3>1. \A q \in Children : pc[q] = "exited" => pc'[q] = "exited"
      BY ONLY IInv, <1>2, ChildEffect, Distinct
    <3> QED
      BY ONLY <3>1 DEF Done
  <2>8. OrderInv'
    <3>1. OrderInv
      OBVIOUS
    <3>2. p = "ping" \/ p = "pong"
      BY Distinct
    <3>3. CASE p = "ping"
      <4>1. Printed("pong")' = Printed("pong")
        BY ONLY <2>3, <3>3, Distinct DEF Printed
      <4>2. Printed("ping")' = Printed("ping") \/ (Holds("ping") /\ Printed("ping")' = Printed("ping") + 1)
        BY ONLY <2>4, <3>3 DEF Printed, Holds, Gives, UserAt
      <4> QED
        BY ONLY <2>6, <3>1, <4>1, <4>2, HoldsTurn, IInv, Distinct DEF OrderInv
    <3>4. CASE p = "pong"
      <4>1. Printed("ping")' = Printed("ping")
        BY ONLY <2>3, <3>4, Distinct DEF Printed
      <4>2. Printed("pong")' = Printed("pong") \/ (Holds("pong") /\ Printed("pong")' = Printed("pong") + 1)
        BY ONLY <2>4, <3>4 DEF Printed, Holds, Gives, UserAt
      <4> QED
        BY ONLY <2>6, <3>1, <4>1, <4>2, HoldsTurn, IInv, Distinct DEF OrderInv
    <3> QED
      BY ONLY <3>2, <3>3, <3>4
  <2>9. TurnInv'
    BY ONLY <2>1, <2>2, <2>3, <2>4, <2>5, <2>6, <2>7, p \in Children, Distinct
       DEF TurnInv, Holds, Gives, Printed, UserAt
  <2> QED
    BY <2>8, <2>9
<1>3. ASSUME NEW p \in Procs, Effect(p), UNCHANGED userVars
      PROVE  OrderInv' /\ TurnInv'
  <2>1. TurnInv /\ value \in [Sems -> Int] /\ semaphore_ping \in Sems /\ semaphore_pong \in Sems
    BY DEF PingPongTypeOK
  <2>2. /\ (Opened' <=> Opened) /\ (Done' <=> Done)
        /\ UNCHANGED <<pc, semaphore_ping, semaphore_pong>>
        /\ \A q \in Children : Printed(q)' = Printed(q)
    BY <1>3 DEF userVars, Opened, Printed, Done
  <2>7. OrderInv'
    BY ONLY <2>2, OrderInv, Distinct DEF OrderInv, Printed
  <2>3. \A q \in Procs \ {p} : (Holds(q)' <=> Holds(q)) /\ (Gives(q)' <=> Gives(q))
    BY ONLY <2>2, IInv, <1>3, CallEffect DEF Holds, Gives, UserAt
  <2>4. CASE p = "main"
    <3>1. Opened => Done
      BY ONLY <2>1, <2>4, IInv, <1>3, CallEffect
         DEF MainCallEffect, Opened, PingSearch, PongSearch, IInv, PcInv
    <3> QED
      BY ONLY <2>2, <2>7, <3>1 DEF TurnInv
  <2>5. CASE p # "main" /\ Opened
    <3>1. ChildCallEffect(p) /\ call[p] # NoCall /\ call'[p] = NoCall /\ p \in Children
      BY ONLY IInv, <1>3, <2>5, CallEffect, NotMain
    <3>2. semaphore_ping # semaphore_pong
      BY <2>5 DEF SearchInv, FoundInv
    <3>3. CASE pc[p] = "upped"
      <4>1. /\ Gives(p) /\ ~ Gives(p)' /\ ~ Holds(p) /\ ~ Holds(p)'
        BY ONLY <2>2, <3>1, <3>3 DEF Gives, Holds, UserAt
      <4>2. /\ value'[UpSem(p)] = value[UpSem(p)] + 1
            /\ \A t \in Sems \ {UpSem(p)} : value'[t] = value[t]
        BY ONLY <3>1, <3>3 DEF ChildCallEffect
      <4> QED
        BY ONLY <2>1, <2>2, <2>3, <2>5, <2>7, <3>1, <3>2, <4>1, <4>2, Distinct DEF TurnInv, UpSem
    <3>4. CASE pc[p] = "downed"
      <4>1. /\ ~ Gives(p) /\ ~ Gives(p)' /\ ~ Holds(p) /\ Holds(p)'
        BY ONLY <2>2, <3>1, <3>4 DEF Gives, Holds, UserAt
      <4>2. /\ value[DownSem(p)] # 0 /\ value'[DownSem(p)] = value[DownSem(p)] - 1
            /\ \A t \in Sems \ {DownSem(p)} : value'[t] = value[t]
        BY ONLY <3>1, <3>4 DEF ChildCallEffect
      <4> QED
        BY ONLY <2>1, <2>2, <2>3, <2>5, <2>7, <3>1, <3>2, <4>1, <4>2, Distinct DEF TurnInv, DownSem
    <3> QED
      BY <3>1, <3>3, <3>4 DEF ChildCallEffect
  <2>6. CASE ~ Opened
    BY ONLY <2>2, <2>6, <2>7 DEF TurnInv
  <2> QED
    BY <2>4, <2>5, <2>6
<1>4. ASSUME NEW s \in Sems, OthersUse(s)
      PROVE  OrderInv' /\ TurnInv'
  <2>1. /\ UNCHANGED <<call, pc, i, semaphore_ping, semaphore_pong>>
        /\ \A t \in Sems \ {s} : value'[t] = value[t]
        /\ s \in taken \/ ~ open[s]
    BY <1>4 DEF OthersUse, PingPongTypeOK
  <2>2. Opened /\ ~Done => s # semaphore_ping /\ s # semaphore_pong
    <3>1. ~Done => pc["main"] \notin {"closed_pong", "closed_ping"}
      BY DEF PcInv
    <3>2. pc["main"] \in PcLabels /\ pc["main"] \notin {"unborn", "loop", "downed", "upped"}
      BY DEF PcInv, PingPongTypeOK
    <3>3. FoundInv
      BY DEF SearchInv
    <3>4. Opened /\ ~Done => pc["main"] \in {"fork_ping", "fork_pong", "wait", "exited"}
      <4> SUFFICES ASSUME Opened, ~Done
                   PROVE  pc["main"] \in {"fork_ping", "fork_pong", "wait", "exited"}
        OBVIOUS
      <4>1. pc["main"] \notin {"open_ping", "opened_ping", "open_pong", "opened_pong"}
        BY DEF Opened, PingSearch, PongSearch
      <4>2. pc["main"] \notin {"closed_pong", "closed_ping"}
        BY <3>1
      <4> QED
        BY ONLY <3>2, <4>1, <4>2 DEF PcLabels
    <3>5. Opened /\ ~Done => HasPing /\ HasPong
      BY ONLY <3>4 DEF HasPing, HasPong
    <3> QED
      BY ONLY <2>1, <3>3, <3>5 DEF FoundInv
  <2>3. semaphore_ping \in Sems /\ semaphore_pong \in Sems /\ OrderInv /\ TurnInv
    BY DEF PingPongTypeOK
  <2> QED
    BY ONLY <2>1, <2>2, <2>3 DEF OrderInv, TurnInv, Opened, Done, Holds, Gives, Printed, UserAt
<1>5. CASE UNCHANGED ppVars
  BY <1>5 DEF ppVars, absVars, userVars, UserAt, Opened, Holds, Gives, Printed, Done
<1> QED
  BY <1>1, <1>2, <1>3, <1>4, <1>5
     DEF PingPongNext, MainStep, ChildStep, SysCall

\* Even and odd.
LEMMA Parity == \A n \in Nat : (n + n + 1) % 2 = 1 /\ (n + 1 + n + 1) % 2 = 0
OBVIOUS

\* A child that may print finds an even number of words if it prints "Ping", and
\* an odd number if it prints "Pong".
LEMMA WhoseTurn ==
  ASSUME IInv, NEW p \in Children, Holds(p)
  PROVE  Word(p) = IF (Len(out) + 1) % 2 = 1 THEN "Ping" ELSE "Pong"
<1>1. CountInv
  BY DEF IInv
<1>2. Printed("ping") \in Nat /\ Printed("pong") \in Nat
  <2>1. i \in [Children -> 0..rally] /\ rally \in Nat
    BY Constants DEF IInv, PingPongTypeOK
  <2> QED
    BY ONLY <2>1, Distinct DEF Printed
<1>3. CASE p = "ping"
  <2>1. Printed("ping") = Printed("pong")
    BY ONLY IInv, <1>3, Holds(p), HoldsTurn
  <2>2. Len(out) + 1 = Printed("pong") + Printed("pong") + 1
    BY ONLY <1>1, <1>2, <2>1 DEF CountInv
  <2> QED
    BY ONLY <1>2, <1>3, <2>2, Parity DEF Word
<1>4. CASE p = "pong"
  <2>1. Printed("ping") = Printed("pong") + 1
    BY ONLY IInv, <1>4, Holds(p), HoldsTurn
  <2>2. Len(out) + 1 = Printed("pong") + 1 + Printed("pong") + 1
    BY ONLY <1>1, <1>2, <2>1 DEF CountInv
  <2> QED
    BY ONLY <1>2, <1>4, <2>2, Parity DEF Word
<1> QED
  BY <1>3, <1>4, Distinct

\* What is printed next is the word that follows.
LEMMA AlternationStep ==
  ASSUME IInv, [PingPongNext]_ppVars
  PROVE  Alternation'
<1>1. Alternation /\ out \in Seq({"Ping", "Pong"})
  BY DEF IInv, PingPongTypeOK
<1>2. CASE out' = out
  BY ONLY <1>1, <1>2 DEF Alternation
<1>3. ASSUME NEW p \in Children, ChildStep(p), out' # out
      PROVE  Alternation'
  <2>1. Holds(p) /\ out' = Append(out, Word(p))
    BY ONLY IInv, <1>3, ChildEffect DEF Holds, UserAt
  <2>2. Word(p) = IF (Len(out) + 1) % 2 = 1 THEN "Ping" ELSE "Pong"
    BY ONLY IInv, <1>3, <2>1, WhoseTurn
  <2>3. /\ Len(out) \in Nat /\ Len(out') = Len(out) + 1
        /\ out'[Len(out) + 1] = Word(p)
        /\ \A k \in 1..Len(out) : out'[k] = out[k]
    BY ONLY <1>1, <2>1, Word(p) \in {"Ping", "Pong"} DEF Word
  <2>4. ASSUME NEW k \in 1..(Len(out) + 1)
        PROVE  out'[k] = IF k % 2 = 1 THEN "Ping" ELSE "Pong"
    <3>1. CASE k = Len(out) + 1
      BY ONLY <2>2, <2>3, <3>1
    <3>2. CASE k # Len(out) + 1
      <4>1. k \in 1..Len(out)
        BY ONLY <2>3, <3>2, k \in 1..(Len(out) + 1)
      <4> QED
        BY ONLY <1>1, <2>3, <4>1 DEF Alternation
    <3> QED
      BY <3>1, <3>2
  <2> QED
    BY ONLY <2>3, <2>4 DEF Alternation
<1>4. MainStep => out' = out
  BY MainEffect DEF MainFrame
<1>5. \A p \in Procs : SysCall(p) => out' = out
  BY DEF SysCall, userVars
<1>6. \A s \in Sems : OthersUse(s) => out' = out
  BY DEF OthersUse
<1>7. UNCHANGED ppVars => out' = out
  BY DEF ppVars, userVars
<1> QED
  BY <1>2, <1>3, <1>4, <1>5, <1>6, <1>7 DEF PingPongNext

-----------------------------------------------------------------------------
(* Theorems *)

\* The inductive invariant holds in every reachable state.
THEOREM InvariantAlways == PingPongSpec => []IInv
<1>1. IInv /\ [PingPongNext]_ppVars => IInv'
  BY TypeStep, PcStep, CallStep, SearchStep, CountStep, TurnStep, AlternationStep DEF IInv
<1> QED
  BY InitInv, <1>1, PTL DEF PingPongSpec

\* main()'s searches for two free semaphores stay inside the table, whatever the
\* other programs have open, and the loops end after the rally.
THEOREM TypeCorrect == PingPongSpec => []PingPongTypeOK
<1>1. IInv => PingPongTypeOK
  BY DEF IInv
<1> QED
  BY InvariantAlways, <1>1, PTL

\* The words alternate, Ping first, in a rally of any length.
THEOREM WordsAlternate == PingPongSpec => []Alternation
<1>1. IInv => Alternation
  BY DEF IInv
<1> QED
  BY InvariantAlways, <1>1, PTL

\* When main() has returned to the shell, at most the last "Pong" is missing: main()
\* waits for one child, but neither finishes more than a word ahead of the other.
THEOREM OnlyLastWord == PingPongSpec => []OnlyLastWordLate
<1>1. IInv => OnlyLastWordLate
  <2> SUFFICES ASSUME IInv, pc["main"] = "exited", pc["pong"] # "unborn"
               PROVE  Len(out) >= 2 * rally - 1
    BY DEF OnlyLastWordLate
  <2>1. pc["ping"] = "exited" \/ pc["pong"] = "exited"
    BY DEF IInv, PcInv, Done, Children
  <2>2. OrderInv /\ Len(out) = Printed("ping") + Printed("pong")
    BY DEF IInv, CountInv
  <2> QED
    BY ONLY IInv, <2>1, <2>2, PrintedType, Distinct DEF OrderInv
<1> QED
  BY InvariantAlways, <1>1, PTL

=============================================================================
