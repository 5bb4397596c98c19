-------------------------- MODULE Recovery_proofs --------------------------
(***************************************************************************)
(* Proofs about the data in the log, the cache and the disk: that a crash  *)
(* at any point brings back all or nothing of every operation (Log         *)
(* implements AtomicDisk), that an idle machine has everything on the      *)
(* disk, and that the cache never loses a block it alone has.              *)
(***************************************************************************)
EXTENDS Log_proofs

-----------------------------------------------------------------------------
(* The invariant *)

\* Why a valid buffer may differ from its block on the disk: its process has
\* changed it and not yet logged it; or is writing it; or it is logged.
Modified(c) == \E p \in Procs : pc[p] = "log_write" /\ c \in ToSet(held[p])
Writing(c) == \E p \in Procs : io[p].write /\ io[p].buf = c
Logged(c) == ~recovering /\ bblock[c] \in ToSet(lh)

CoherentInv == \A c \in Bufs :
  valid[c] /\ ~Modified(c) /\ ~Writing(c) /\ ~Logged(c) => bdata[c] = disk[bblock[c]]

\* What is valid is a block.
ValidInv == \A c \in Bufs : valid[c] => bblock[c] \in Blocks

\* A pinned block is never read again from the disk.
PinnedInv == \A b \in Bufs : bblock[b] \in Pinned => valid[b]

\* The cache has d in block x, if it has the block.
Has(x, d) == \A c \in Bufs : valid[c] /\ bblock[c] = x => bdata[c] = d

\* The k-th block of the transaction is in the log; it is in its home too.
Copied(k) == Has(lh[k], disk[k])
Installed(k) == disk[lh[k]] = disk[k]

\* What the header on the disk speaks of is installed.
Erasable == \A k \in 1..Len(disk[header]) : disk[disk[header][k]] = disk[k]

\* The writes of commit() and of recovery: before and after bwrite() returns.
Writes(p) ==
  /\ io[p].write => pc[p] \in {"log_release", "head_release", "inst_unpin"}
  /\ pc[p] = "log_write" => io[p].step = "run"
  /\ pc[p] \in {"log_release", "inst_unpin", "inst_release"} => tail <= Len(lh)
  /\ pc[p] = "log_release" =>
       IF io[p].write THEN bblock[io[p].buf] = tail /\ Has(lh[tail], bdata[io[p].buf])
                      ELSE Copied(tail)
  /\ pc[p] = "head_release" =>
       IF io[p].write THEN /\ bblock[io[p].buf] = header /\ bdata[io[p].buf] = lh
                           /\ lh # <<>> => disk[header] \in {<<>>, lh}
                      ELSE disk[header] = lh
  /\ pc[p] = "inst_unpin" =>
       IF io[p].write THEN bblock[io[p].buf] = lh[tail] /\ bdata[io[p].buf] = disk[tail]
                      ELSE Installed(tail)
  /\ pc[p] = "inst_release" => Installed(tail)

\* How far commit() or recovery is: the header on the disk is empty until the
\* whole transaction is in the log, and is erased after it is installed.
Phase(p) ==
  /\ pc[p] \in CopyLabels \union InstLabels => tail <= Len(lh) + 1
  /\ pc[p] \in CopyLabels \/ (pc[p] \in HeadLabels /\ lh # <<>>) => ~recovering
  /\ pc[p] \in CopyLabels \union {"commit", "finish"} => disk[header] = <<>>
  /\ pc[p] \in CopyLabels => \A k \in 1..(tail - 1) : Copied(k)
  /\ pc[p] \in HeadLabels /\ lh # <<>> => \A k \in 1..Len(lh) : Copied(k)
  /\ pc[p] \in {"head_get", "head_write"} /\ lh # <<>> => disk[header] = <<>>
  /\ pc[p] \in HeadLabels /\ lh = <<>> => Erasable
  /\ pc[p] \in InstLabels => /\ disk[header] = lh
                             /\ \A k \in 1..(tail - 1) : Installed(k)
                             /\ ~recovering => \A k \in 1..Len(lh) : Copied(k)

StageInv == \A p \in Procs : Writes(p) /\ Phase(p)

QuietInv == (\A p \in Procs : pc[p] \notin Busy) => disk[header] = <<>>

DataInv == CoherentInv /\ ValidInv /\ PinnedInv /\ StageInv /\ QuietInv

\* Unlike the rest of RunInv, its parts about modes and references also hold
\* after a panic, when the device goes on.
RInv == IInv /\ ModeInv /\ RefInv /\ DataInv

Active == {p \in Procs : pc[p] \in OpLabels}

-----------------------------------------------------------------------------
(* What a crash would bring back, and what the running system sees *)

\* A crash brings back the log's copy of the blocks in the header h.
RecoveredFrom(h) ==
  /\ \A k \in 1..Len(h) : Recovered[h[k]] = disk[k]
  /\ \A x \in Home \ ToSet(h) : Recovered[x] = disk[x]

LEMMA RecoveredIs == disk[header] \in Heads => RecoveredFrom(disk[header])
<1> SUFFICES ASSUME disk[header] \in Heads
             PROVE  RecoveredFrom(disk[header])
  OBVIOUS
<1> DEFINE h == disk[header]
<1>1. h \in Seq(Home) /\ IsInjective(h)
  BY DEF Heads
<1>2. \A b \in Home : Recovered[b] =
        IF b \in ToSet(h) THEN disk[CHOOSE k \in DOMAIN h : h[k] = b] ELSE disk[b]
  BY DEF Recovered
<1> HIDE DEF h
<1>4. \A k \in 1..Len(h) : h[k] \in Home /\ h[k] \in ToSet(h)
  BY ONLY <1>1 DEF ToSet
<1>5. ASSUME NEW k \in 1..Len(h)
      PROVE  (CHOOSE i \in DOMAIN h : h[i] = h[k]) = k
  <2>1. DOMAIN h = 1..Len(h)
    BY ONLY <1>1
  <2>2. \A i \in DOMAIN h : h[i] = h[k] => i = k
    BY ONLY <1>1, <1>5, <2>1 DEF IsInjective
  <2> QED
    BY ONLY <1>5, <2>1, <2>2
<1>6. \A k \in 1..Len(h) : Recovered[h[k]] = disk[k]
  <2> TAKE k \in 1..Len(h)
  <2> QED
    BY ONLY <1>2, <1>4, <1>5, k \in 1..Len(h)
<1>7. \A b \in Home \ ToSet(h) : Recovered[b] = disk[b]
  BY ONLY <1>2
<1> QED
  BY ONLY <1>6, <1>7 DEF h, RecoveredFrom

LEMMA RecoveredEmpty ==
  ASSUME disk[header] = <<>>
  PROVE  \A b \in Home : Recovered[b] = disk[b]
<1>1. ToSet(<<>>) = {}
  BY DEF ToSet
<1> QED
  BY <1>1 DEF Recovered

\* The running system sees a block in the cache, if it is there.
Sees(b) ==
  /\ recovering => Data[b] = Recovered[b]
  /\ ~recovering => \A c \in Bufs : bblock[c] = b /\ valid[c] => Data[b] = bdata[c]
  /\ ~recovering /\ (\A c \in Bufs : ~(bblock[c] = b /\ valid[c])) => Data[b] = disk[b]

LEMMA DataIs == Unique => \A x \in Home : Sees(x)
<1> SUFFICES ASSUME Unique, NEW b \in Home
             PROVE  Sees(b)
  OBVIOUS
<1> DEFINE cached == {c \in Bufs : bblock[c] = b /\ valid[c]}
<1>1. Data[b] = IF recovering THEN Recovered[b]
                ELSE IF cached # {} THEN bdata[CHOOSE c \in cached : TRUE] ELSE disk[b]
  BY DEF Data
<1>2. \A c, d \in cached : c = d
  BY BlockFacts DEF Unique
<1>3. \A c \in cached : (CHOOSE d \in cached : TRUE) = c
  BY ONLY <1>2
<1> QED
  BY ONLY <1>1, <1>3 DEF Sees

-----------------------------------------------------------------------------
(* Frames *)

\* No buffer gets contents that it had not.
Shrinks == \A c \in Bufs : valid'[c] => valid[c] /\ bblock'[c] = bblock[c]

\* Neither the running system nor a crash sees anything of the step.
Unseen == Data' = Data /\ Recovered' = Recovered

LEMMA RecoveredSame ==
  ASSUME disk' = disk
  PROVE  Recovered' = Recovered
BY DEF Recovered

\* What a process that executes its own code may rely on.
LEMMA RRunning ==
  ASSUME RInv, NEW p \in Procs, Runs(p)
  PROVE  /\ CacheInv /\ ContentsInv /\ TypeInv /\ PlaceInv /\ ModeInv /\ RefInv
         /\ io[p] = Run /\ ~io[p].write /\ ~panicked
         /\ Knows(pc[p], held[p], bblock, tail, lh, writes[p], recovering)
         /\ recovering /\ pc[p] # "idle" => p = Boot
         /\ CoherentInv /\ ValidInv /\ PinnedInv /\ StageInv /\ QuietInv /\ Writes(p) /\ Phase(p)
         /\ disk[header] \in Heads
<1>1. IInv /\ DataInv
  BY DEF RInv
<1>2. ContentsInv /\ io[p] = Run
  BY <1>1, Running
<1>3. disk[header] \in Heads
  BY <1>2, BlockFacts DEF ContentsInv, Typed
<1> QED
  BY <1>1, <1>2, <1>3, Running DEF DataInv, StageInv, Run

\* What is true of the machine in any state, also after a panic.
LEMMA RFacts ==
  ASSUME RInv
  PROVE  /\ CacheInv /\ ContentsInv /\ TypeInv /\ ModeInv /\ RefInv /\ Unique
         /\ CoherentInv /\ ValidInv /\ PinnedInv /\ StageInv /\ QuietInv
         /\ disk[header] \in Heads
<1>1. CacheInv /\ ContentsInv /\ TypeInv /\ ModeInv /\ RefInv
  BY DEF RInv, IInv
<1>2. disk[header] \in Heads
  BY <1>1, BlockFacts DEF ContentsInv, Typed
<1> QED
  BY <1>1, <1>2 DEF RInv, DataInv, CacheInv

LEMMA SeesBoth ==
  ASSUME Unique, Unique'
  PROVE  \A x \in Home : Sees(x) /\ Sees(x)'
<1>1. (Unique => \A x \in Home : Sees(x))'
  BY DataIs, PTL
<1> QED
  BY <1>1, DataIs

LEMMA UnseenIf ==
  ASSUME disk' = disk, recovering' = recovering,
         ~recovering => \A x \in Home : Data'[x] = Data[x]
  PROVE  Unseen
<1>1. Recovered' = Recovered
  BY RecoveredSame
<1>2. \A x \in Home : Data'[x] = Data[x]
  BY <1>1 DEF Data
<1>3. Data = [x \in Home |-> Data[x]] /\ Data' = [x \in Home |-> Data'[x]]
  BY DEF Data
<1> QED
  BY ONLY <1>1, <1>2, <1>3 DEF Unseen

\* The running system sees the same after a step that changes no buffer with a
\* home block, except that it may drop one that has what the disk has.
LEMMA DataSame ==
  ASSUME Unique, Unique', disk' = disk, recovering' = recovering,
         ~recovering => \A c \in Bufs :
           /\ valid'[c] /\ bblock'[c] \in Home =>
                valid[c] /\ bblock'[c] = bblock[c] /\ bdata'[c] = bdata[c]
           /\ valid[c] /\ bblock[c] \in Home =>
                \/ valid'[c] /\ bblock'[c] = bblock[c] /\ bdata'[c] = bdata[c]
                \/ bdata[c] = disk[bblock[c]]
  PROVE  Unseen
<1>1. ASSUME NEW b \in Home, ~recovering
      PROVE  Data'[b] = Data[b]
  <2>1. Sees(b) /\ Sees(b)'
    BY ONLY <1>1, Unique, Unique', SeesBoth
  <2>2. ASSUME NEW c \in Bufs, bblock[c] = b, valid[c]
        PROVE  Data'[b] = Data[b]
    <3>1. CASE valid'[c] /\ bblock'[c] = bblock[c] /\ bdata'[c] = bdata[c]
      BY <1>1, <2>1, <2>2, <3>1 DEF Sees
    <3>2. CASE bdata[c] = disk[b] /\ ~(\E e \in Bufs : bblock'[e] = b /\ valid'[e])
      BY <1>1, <2>1, <2>2, <3>2 DEF Sees
    <3>3. ASSUME NEW e \in Bufs, bblock'[e] = b, valid'[e]
          PROVE  Data'[b] = Data[b]
      BY <1>1, <2>1, <3>3 DEF Sees
    <3> QED
      BY <1>1, <2>2, <3>1, <3>2, <3>3
  <2>3. CASE \A c \in Bufs : ~(bblock[c] = b /\ valid[c])
    BY <1>1, <2>1, <2>3 DEF Sees
  <2> QED
    BY <2>2, <2>3
<1> QED
  BY <1>1, UnseenIf

\* A process that the step leaves alone is as far as it was: it is outside of
\* commit() and recovery, or nothing of what these know has changed.
LEMMA OtherStage ==
  ASSUME NEW q \in Procs, Writes(q), Phase(q), pc'[q] = pc[q], io'[q] = io[q],
         \/ pc[q] \notin Busy
         \/ /\ disk' = disk /\ bdata' = bdata /\ Shrinks
            /\ lh' = lh /\ tail' = tail /\ recovering' = recovering
            /\ io[q].write => bblock'[io[q].buf] = bblock[io[q].buf]
  PROVE  Writes(q)' /\ Phase(q)'
<1>1. CASE pc[q] \notin Busy
  BY <1>1 DEF Writes, Phase, Busy, CopyLabels, HeadLabels, InstLabels
<1>2. CASE /\ disk' = disk /\ bdata' = bdata /\ Shrinks
           /\ lh' = lh /\ tail' = tail /\ recovering' = recovering
           /\ io[q].write => bblock'[io[q].buf] = bblock[io[q].buf]
  <2>1. \A x, d : Has(x, d) => \A c \in Bufs : valid'[c] /\ bblock'[c] = x => bdata'[c] = d
    BY ONLY <1>2 DEF Has, Shrinks
  <2>2. /\ \A k : Copied(k) => Copied(k)'
        /\ \A k : Installed(k) => Installed(k)'
        /\ Erasable => Erasable'
        /\ Has(lh[tail], bdata[io[q].buf]) => Has(lh[tail], bdata[io[q].buf])'
    <3>1. \A k : Copied(k) => Copied(k)'
      BY ONLY <1>2, <2>1 DEF Copied, Has
    <3>2. Has(lh[tail], bdata[io[q].buf]) => Has(lh[tail], bdata[io[q].buf])'
      BY ONLY <1>2, <2>1, io'[q] = io[q] DEF Has
    <3>3. (\A k : Installed(k) => Installed(k)') /\ (Erasable => Erasable')
      BY ONLY <1>2 DEF Installed, Erasable
    <3> QED
      BY ONLY <3>1, <3>2, <3>3
  <2>3. Writes(q)'
    BY ONLY <1>2, <2>2, Writes(q), pc'[q] = pc[q], io'[q] = io[q] DEF Writes
  <2>4. Phase(q)'
    BY ONLY <1>2, <2>2, Phase(q), pc'[q] = pc[q] DEF Phase
  <2> QED
    BY ONLY <2>3, <2>4
<1> QED
  BY <1>1, <1>2

\* A step of p that writes nothing, neither to a buffer nor to the disk, keeps
\* the invariant if p itself is as far as it should be.
LEMMA CalmStep ==
  ASSUME RInv, NEW p \in Procs, ~io[p].write, ~io'[p].write, pc'[p] # "log_write",
         disk' = disk, bdata' = bdata, Shrinks,
         \A q \in Procs \ {p} :
           /\ pc'[q] = pc[q] /\ io'[q] = io[q] /\ held'[q] = held[q]
           /\ io[q].buf \in Bufs => bblock'[io[q].buf] = bblock[io[q].buf],
         \/ \A q \in Procs \ {p} : pc[q] \notin Busy
         \/ lh' = lh /\ tail' = tail /\ recovering' = recovering,
         \A c \in Bufs :
           valid'[c] /\ (Logged(c) \/ (pc[p] = "log_write" /\ c \in ToSet(held[p])))
           => (~recovering' /\ bblock'[c] \in ToSet(lh')) \/ bdata[c] = disk[bblock[c]],
         \A b \in Bufs : bblock'[b] \in Pinned' => valid'[b],
         Writes(p)', Phase(p)', QuietInv'
  PROVE  DataInv'
<1>0. CacheInv /\ CoherentInv /\ ValidInv /\ StageInv
  BY DEF RInv, IInv, DataInv
<1>1. CoherentInv'
  <2> SUFFICES ASSUME NEW c \in Bufs, valid'[c], ~Modified(c)', ~Writing(c)', ~Logged(c)'
               PROVE  bdata'[c] = disk'[bblock'[c]]
    BY DEF CoherentInv
  <2>1. valid[c] /\ bblock'[c] = bblock[c]
    BY ONLY c \in Bufs, valid'[c], Shrinks DEF Shrinks
  <2>2. ~Writing(c)
    BY ONLY ~Writing(c)', ~io[p].write, \A q \in Procs \ {p} : io'[q] = io[q] DEF Writing
  <2>3. ~(~recovering' /\ bblock'[c] \in ToSet(lh'))
    BY DEF Logged
  <2>4. CASE Modified(c)
    <3>1. PICK q \in Procs : pc[q] = "log_write" /\ c \in ToSet(held[q])
      BY ONLY <2>4 DEF Modified
    <3>2. q = p
      BY ONLY <3>1, ~Modified(c)', \A s \in Procs \ {p} : pc'[s] = pc[s] /\ held'[s] = held[s]
         DEF Modified
    <3> QED
      BY <2>1, <2>3, <3>1, <3>2
  <2>5. CASE Logged(c)
    BY <2>1, <2>3, <2>5
  <2>6. CASE ~Modified(c) /\ ~Logged(c)
    BY <1>0, <2>1, <2>2, <2>6 DEF CoherentInv
  <2> QED
    BY ONLY <2>4, <2>5, <2>6
<1>2. StageInv'
  <2> SUFFICES ASSUME NEW q \in Procs \ {p}
               PROVE  Writes(q)' /\ Phase(q)'
    BY DEF StageInv
  <2>1. Writes(q) /\ Phase(q) /\ q \in Procs
    BY <1>0 DEF StageInv
  <2>2. io[q].write => io[q].buf \in Bufs
    <3>1. io[q].step = "run" => ~io[q].write
      BY ONLY <1>0, <2>1 DEF CacheInv, IoInv, Run
    <3> QED
      BY ONLY <1>0, <2>1, <3>1, IoBuf
  <2> QED
    BY <2>1, <2>2, OtherStage
<1>3. PinnedInv' /\ ValidInv'
  BY <1>0 DEF PinnedInv, ValidInv, Shrinks
<1> QED
  BY <1>1, <1>2, <1>3 DEF DataInv

LEMMA QuietSame ==
  ASSUME QuietInv, disk' = disk, \A q \in Procs : pc'[q] \in Busy <=> pc[q] \in Busy
  PROVE  QuietInv'
BY DEF QuietInv

-----------------------------------------------------------------------------
(* Steps inside bread() and bwrite(), and of the device *)

\* Modes and references are what they were, also after a panic.
LEMMA ModeRefFrame ==
  ASSUME ModeInv, RefInv, UNCHANGED <<held, bblock, refcnt, logVars>>
  PROVE  ModeInv' /\ RefInv' /\ Pinned' = Pinned
<1>1. /\ held' = held /\ bblock' = bblock /\ refcnt' = refcnt /\ lh' = lh /\ pc' = pc /\ tail' = tail
      /\ outstanding' = outstanding /\ committing' = committing /\ asleep' = asleep
      /\ recovering' = recovering
  BY DEF logVars
<1>2. Operating' = Operating
  BY ONLY <1>1 DEF Operating
<1>3. ModeInv'
  BY ONLY <1>1, <1>2, ModeInv DEF ModeInv
<1>4. Pinned' = Pinned
  <2>1. \A q \in Procs : \A k \in 1..Len(lh) : Unpinned(pc'[q], tail', k) <=> Unpinned(pc[q], tail, k)
    BY ONLY <1>1
  <2> QED
    BY ONLY <1>1, <2>1, PinnedSame
<1>5. RefInv'
  BY ONLY <1>1, <1>4, RefInv DEF RefInv
<1> QED
  BY ONLY <1>3, <1>4, <1>5

\* A process waits for the lock or for the disk, or stops doing so, and no data
\* have moved.
LEMMA IoFrame ==
  ASSUME RInv, UNCHANGED <<disk, bdata, bblock, valid, held, logVars>>, Pinned' = Pinned,
         \A q \in Procs :
           /\ io'[q].write <=> io[q].write
           /\ io[q].write => io'[q].buf = io[q].buf
           /\ io[q].step = "run" => io'[q].step = "run"
  PROVE  DataInv' /\ Unseen
<1>0. CoherentInv /\ ValidInv /\ PinnedInv /\ StageInv /\ QuietInv /\ Unique
  BY RFacts
<1>u. /\ disk' = disk /\ bdata' = bdata /\ bblock' = bblock /\ valid' = valid /\ held' = held
      /\ lh' = lh /\ pc' = pc /\ tail' = tail /\ recovering' = recovering
  BY DEF logVars
<1>1. CoherentInv'
  <2>1. \A c \in Bufs : (Modified(c)' <=> Modified(c)) /\ (Writing(c)' <=> Writing(c)) /\ (Logged(c)' <=> Logged(c))
    <3> TAKE c \in Bufs
    <3>1. Writing(c)' <=> Writing(c)
      BY DEF Writing
    <3>2. (Modified(c)' <=> Modified(c)) /\ (Logged(c)' <=> Logged(c))
      BY ONLY <1>u DEF Modified, Logged
    <3> QED
      BY ONLY <3>1, <3>2
  <2> QED
    BY ONLY <1>0, <1>u, <2>1 DEF CoherentInv
<1>2. PinnedInv' /\ ValidInv' /\ QuietInv'
  BY ONLY <1>0, <1>u, Pinned' = Pinned DEF PinnedInv, ValidInv, QuietInv
<1>3. ASSUME NEW q \in Procs
      PROVE  Writes(q)' /\ Phase(q)'
  <2>1. Writes(q) /\ Phase(q)
    BY <1>0 DEF StageInv
  <2>2. Phase(q)'
    BY ONLY <1>u, <2>1 DEF Phase, Copied, Installed, Erasable, Has
  <2>3. /\ io'[q].write <=> io[q].write
        /\ io[q].write => io'[q].buf = io[q].buf
        /\ io[q].step = "run" => io'[q].step = "run"
    BY <1>3
  <2>4. Writes(q)'
    BY ONLY <1>u, <2>1, <2>3 DEF Writes, Copied, Installed, Has
  <2> QED
    BY ONLY <2>2, <2>4
<1>4. Unseen
  <2>1. Unique'
    BY ONLY <1>0, <1>u DEF Unique
  <2> QED
    BY ONLY <1>0, <1>u, <2>1, DataSame
<1> QED
  BY ONLY <1>1, <1>2, <1>3, <1>4 DEF DataInv, StageInv

\* A request is done: the buffer and the disk agree.
LEMMA TransferredData ==
  ASSUME RInv, CacheInv', NEW p \in Procs, Transferred(p), UNCHANGED logVars, Pinned' = Pinned
  PROVE  DataInv' /\ Unseen
<1>0. CoherentInv /\ ValidInv /\ PinnedInv /\ StageInv /\ QuietInv /\ Unique /\ CacheInv /\ ModeInv /\ RefInv /\ TypeInv
  BY RFacts
<1> DEFINE b == io[p].buf
<1>b. b \in Bufs /\ bblock[b] \in Blocks /\ bdata[b] = disk[bblock[b]] /\ valid' = [valid EXCEPT ![b] = TRUE]
  BY <1>0, TransferredStep
<1>u. /\ disk' = disk /\ bdata' = bdata /\ bblock' = bblock /\ held' = held
      /\ lh' = lh /\ pc' = pc /\ tail' = tail /\ recovering' = recovering
      /\ io' = [io EXCEPT ![p] = Run] /\ io[p].step = "wait"
  BY DEF Transferred, DiskDone, logVars
<1>t. DOMAIN io = Procs /\ valid \in [Bufs -> BOOLEAN] /\ ~Run.write
  BY <1>0 DEF CacheInv, CacheTypeOK, BcacheTypeOK, Run
<1>v. /\ valid'[b] /\ \A c \in Bufs \ {b} : valid'[c] = valid[c]
      /\ ~io'[p].write /\ \A q \in Procs \ {p} : io'[q] = io[q]
  BY ONLY <1>b, <1>u, <1>t, p \in Procs
<1>w. io[p].write <=> valid[b]
  BY <1>0, <1>u DEF CacheInv, IoInv
<1>p. pc[p] # "log_write" /\ Writes(p) /\ Phase(p)
  BY <1>0, <1>u DEF StageInv, Writes
<1> HIDE DEF b
<1>q. Unseen
  <2>1. Unique'
    BY ONLY <1>0, <1>u DEF Unique
  <2>2. ASSUME NEW x \in Home, ~recovering
        PROVE  Data'[x] = Data[x]
    <3>1. Sees(x) /\ Sees(x)'
      BY ONLY <1>0, <2>1, <2>2, SeesBoth
    <3> QED
      BY ONLY <1>b, <1>u, <1>v, <2>2, <3>1 DEF Sees
  <2> QED
    BY ONLY <1>u, <2>2, UnseenIf
\* A block of the transaction that becomes valid only now is in its home.
<1>n. ASSUME NEW q \in Procs, NEW k \in 1..Len(lh), ~recovering, Phase(q), Writes(q), pc[q] \in Busy,
             bblock[b] = lh[k], ~valid[b]
      PROVE  pc[q] \in InstLabels /\ Installed(k)
  <2>1. k \notin PinnedSlots
    BY ONLY <1>0, <1>b, <1>n DEF PinnedInv, Pinned
  <2>2. PICK s \in Procs : Unpinned(pc[s], tail, k)
    BY ONLY <1>n, <2>1 DEF PinnedSlots
  <2>3. s = q
    BY ONLY <1>0, <1>n, <2>2, s \in Procs DEF ModeInv, Unpinned, Busy
  <2>4. tail \in Nat
    BY <1>0, Types
  <2> QED
    BY ONLY <1>n, <2>2, <2>3, <2>4 DEF Unpinned, Phase, Writes
<1>h. ASSUME NEW x, NEW d, Has(x, d), bblock[b] = x => bdata[b] = d
      PROVE  \A c \in Bufs : valid'[c] /\ bblock'[c] = x => bdata'[c] = d
  BY ONLY <1>h, <1>u, <1>v DEF Has
<1>c. ASSUME NEW q \in Procs, NEW k \in 1..Len(lh), ~recovering, Phase(q), Writes(q), pc[q] \in Busy,
             Copied(k)
      PROVE  Copied(k)'
  <2>1. bblock[b] = lh[k] => bdata[b] = disk[k]
    <3>1. CASE valid[b]
      BY ONLY <1>b, <1>c, <3>1 DEF Copied, Has
    <3>2. CASE ~valid[b]
      BY ONLY <1>b, <1>c, <1>n, <3>2 DEF Installed
    <3> QED
      BY ONLY <3>1, <3>2
  <2>2. \A c \in Bufs : valid'[c] /\ bblock'[c] = lh[k] => bdata'[c] = disk[k]
    BY ONLY <1>c, <1>h, <2>1 DEF Copied
  <2> QED
    BY ONLY <1>u, <2>2 DEF Copied, Has
<1>1. CoherentInv'
  <2> SUFFICES ASSUME NEW c \in Bufs, valid'[c], ~Modified(c)', ~Writing(c)', ~Logged(c)'
               PROVE  bdata'[c] = disk'[bblock'[c]]
    BY DEF CoherentInv
  <2>1. CASE c = b
    BY ONLY <1>b, <1>u, <2>1
  <2>2. CASE c # b
    <3>1. ~Modified(c) /\ ~Logged(c) /\ valid[c]
      BY ONLY <1>u, <1>v, <2>2, c \in Bufs, valid'[c], ~Modified(c)', ~Logged(c)' DEF Modified, Logged
    <3>2. ~Writing(c)
      BY ONLY <1>v, <2>2, ~Writing(c)', p \in Procs DEF Writing, b
    <3> QED
      BY ONLY <1>0, <1>u, <3>1, <3>2, c \in Bufs DEF CoherentInv
  <2> QED
    BY ONLY <2>1, <2>2
<1>2. PinnedInv' /\ ValidInv' /\ QuietInv'
  <2>1. \A c \in Bufs : valid[c] => valid'[c]
    BY ONLY <1>v
  <2> QED
    BY ONLY <1>0, <1>u, <1>b, <1>v, <2>1, Pinned' = Pinned DEF PinnedInv, ValidInv, QuietInv
<1>l. /\ \A q \in Procs : pc[q] \in Busy => \A k \in 1..Len(lh) : ~recovering /\ Copied(k) => Copied(k)'
      /\ \A k : Installed(k)' <=> Installed(k)
      /\ Erasable' <=> Erasable
  BY ONLY <1>0, <1>c, <1>u DEF StageInv, Installed, Erasable
<1>m. tail \in Nat \ {0} /\ Len(lh) \in Nat
  BY <1>0, Types
<1>3. ASSUME NEW q \in Procs, pc[q] \in Busy
      PROVE  Writes(q)' /\ Phase(q)'
  <2>0. Writes(q) /\ Phase(q)
    BY <1>0 DEF StageInv
  <2>1. Phase(q)'
    <3>1. /\ pc[q] \in CopyLabels => \A k \in 1..(tail - 1) : k \in 1..Len(lh)
          /\ pc[q] \in CopyLabels \/ (pc[q] \in HeadLabels /\ lh # <<>>) => ~recovering
      BY ONLY <1>m, <2>0 DEF Phase
    <3>2. \A k \in 1..Len(lh) : ~recovering /\ Copied(k) => Copied(k)'
      BY ONLY <1>3, <1>l
    <3>3. /\ pc[q] \in CopyLabels => \A k \in 1..(tail - 1) : Copied(k)'
          /\ pc[q] \in HeadLabels /\ lh # <<>> => \A k \in 1..Len(lh) : Copied(k)'
          /\ pc[q] \in InstLabels /\ ~recovering => \A k \in 1..Len(lh) : Copied(k)'
      BY ONLY <2>0, <3>1, <3>2 DEF Phase
    <3> QED
      BY ONLY <1>u, <1>l, <2>0, <3>3 DEF Phase
  <2>2. CASE pc[q] = "log_release"
    <3>1. ~recovering /\ tail \in 1..Len(lh)
      BY ONLY <1>m, <2>0, <2>2 DEF Phase, Writes, CopyLabels
    <3>2. \A d : Has(lh[tail], d) => \A c \in Bufs : valid'[c] /\ bblock'[c] = lh[tail] => bdata'[c] = d
      <4> SUFFICES ASSUME NEW d, Has(lh[tail], d)
                   PROVE  bblock[b] = lh[tail] => bdata[b] = d
        BY <1>h
      <4>1. CASE valid[b]
        BY ONLY <1>b, <4>1, Has(lh[tail], d) DEF Has
      <4>2. CASE ~valid[b]
        BY ONLY <1>3, <1>n, <2>0, <2>2, <3>1, <4>2 DEF InstLabels
      <4> QED
        BY <4>1, <4>2
    <3>3. Copied(tail) => Copied(tail)'
      BY ONLY <1>u, <3>2 DEF Copied, Has
    <3>4. CASE q = p /\ io[p].write
      <4>1. bblock[b] = tail /\ Has(lh[tail], bdata[b])
        BY ONLY <2>0, <2>2, <3>4 DEF Writes, b
      <4>2. \A c \in Bufs : valid'[c] /\ bblock'[c] = lh[tail] => bdata'[c] = disk[tail]
        BY ONLY <1>b, <3>2, <4>1
      <4>3. Copied(tail)'
        BY ONLY <1>u, <4>2 DEF Copied, Has
      <4> QED
        BY ONLY <1>u, <1>v, <2>0, <2>1, <2>2, <3>4, <4>3 DEF Writes
    <3>5. CASE q = p /\ ~io[p].write
      BY ONLY <1>u, <1>v, <2>0, <2>1, <2>2, <3>3, <3>5 DEF Writes
    <3>6. CASE q # p /\ io[q].write
      <4>1. Has(lh[tail], bdata[io[q].buf])'
        BY ONLY <1>u, <1>v, <2>0, <2>2, <3>2, <3>6 DEF Writes, Has
      <4> QED
        BY ONLY <1>u, <1>v, <2>0, <2>1, <2>2, <3>6, <4>1 DEF Writes
    <3>7. CASE q # p /\ ~io[q].write
      BY ONLY <1>u, <1>v, <2>0, <2>1, <2>2, <3>3, <3>7 DEF Writes
    <3> QED
      BY ONLY <3>4, <3>5, <3>6, <3>7
  <2>3. CASE pc[q] = "head_release"
    <3>1. io[p].write /\ q = p => disk[header] = lh
      BY ONLY <1>b, <2>0, <2>3 DEF Writes, b
    <3> QED
      BY ONLY <1>u, <1>v, <2>0, <2>1, <2>3, <3>1 DEF Writes
  <2>4. CASE pc[q] = "inst_unpin"
    <3>1. io[p].write /\ q = p => disk[lh[tail]] = disk[tail]
      BY ONLY <1>b, <2>0, <2>4 DEF Writes, b
    <3> QED
      BY ONLY <1>u, <1>v, <2>0, <2>1, <2>4, <3>1 DEF Writes, Installed
  <2>5. CASE pc[q] \notin {"log_release", "head_release", "inst_unpin"}
    <3>1. ~io'[q].write
      BY ONLY <1>v, <2>0, <2>5 DEF Writes
    <3> QED
      BY ONLY <1>u, <1>v, <1>l, <1>p, <2>0, <2>1, <2>5, <3>1 DEF Writes
  <2> QED
    BY ONLY <2>1, <2>2, <2>3, <2>4, <2>5
<1>4. ASSUME NEW q \in Procs, pc[q] \notin Busy
      PROVE  Writes(q)' /\ Phase(q)'
  <2>0. Writes(q) /\ Phase(q)
    BY <1>0 DEF StageInv
  <2>1. Phase(q)'
    BY ONLY <1>u, <1>4 DEF Phase, Busy, CopyLabels, HeadLabels, InstLabels
  <2>2. ~io'[q].write /\ (pc[q] = "log_write" => io'[q].step = "run")
    BY ONLY <1>v, <1>p, <2>0, <1>4, p \in Procs DEF Writes, Busy, CopyLabels, HeadLabels, InstLabels
  <2> QED
    BY ONLY <1>u, <1>4, <2>1, <2>2 DEF Writes, Busy, CopyLabels, HeadLabels, InstLabels
<1> QED
  BY ONLY <1>q, <1>1, <1>2, <1>3, <1>4 DEF DataInv, StageInv
\* A process in bwrite() has the lock of the buffer.
LEMMA WriteValid ==
  ASSUME CacheInv, NEW q \in Procs, io[q].write
  PROVE  /\ io[q].step \in {"start", "wait"} /\ io[q].buf \in Bufs /\ valid[io[q].buf]
         /\ holder[io[q].buf] = q /\ bblock[io[q].buf] \in Blocks
<1>1. io[q].step \in {"start", "wait"}
  BY DEF CacheInv, CacheTypeOK, BcacheTypeOK, IoInv, Run, Steps
<1> QED
  BY <1>1, IoBuf DEF CacheInv, IoInv

\* The header reaches the disk: all that the running system sees is durable.
Commits == Active = {} /\ Data' = Data /\ Recovered' = Data

\* A block is read, into a buffer that is not valid yet.
LEMMA DeviceReads ==
  ASSUME RInv, CacheInv', NEW b \in Bufs, ~valid[b], bdata' = [bdata EXCEPT ![b] = bdata'[b]],
         UNCHANGED <<disk, io, bblock, valid, held, logVars>>, Pinned' = Pinned
  PROVE  DataInv' /\ Unseen
<1>0. CoherentInv /\ ValidInv /\ PinnedInv /\ StageInv /\ QuietInv /\ Unique /\ CacheInv
  BY RFacts
<1>u. /\ disk' = disk /\ bblock' = bblock /\ held' = held /\ io' = io /\ valid' = valid
      /\ lh' = lh /\ pc' = pc /\ tail' = tail /\ recovering' = recovering
  BY DEF logVars
<1>v. \A c \in Bufs : valid[c] => bdata'[c] = bdata[c]
  BY <1>0 DEF CacheInv, CacheTypeOK
<1>1. CoherentInv'
  BY ONLY <1>0, <1>u, <1>v DEF CoherentInv, Modified, Writing, Logged
<1>2. PinnedInv' /\ ValidInv' /\ QuietInv'
  BY ONLY <1>0, <1>u, Pinned' = Pinned DEF PinnedInv, ValidInv, QuietInv
<1>3. ASSUME NEW q \in Procs
      PROVE  Writes(q)' /\ Phase(q)'
  <2>1. Writes(q) /\ Phase(q)
    BY <1>0 DEF StageInv
  <2>2. /\ \A k : Copied(k)' <=> Copied(k)
        /\ \A k : Installed(k)' <=> Installed(k)
        /\ Erasable' <=> Erasable
    BY ONLY <1>u, <1>v DEF Copied, Has, Installed, Erasable
  <2>3. Phase(q)'
    BY ONLY <1>u, <2>1, <2>2 DEF Phase
  <2>4. io[q].write => bdata'[io[q].buf] = bdata[io[q].buf]
    BY <1>0, <1>v, <1>3, WriteValid
  <2>5. io[q].write => (Has(lh[tail], bdata[io[q].buf])' <=> Has(lh[tail], bdata[io[q].buf]))
    BY ONLY <1>u, <1>v, <2>4 DEF Has
  <2>6. Writes(q)'
    BY ONLY <1>u, <2>1, <2>2, <2>4, <2>5 DEF Writes
  <2> QED
    BY ONLY <2>3, <2>6
<1>4. Unseen
  <2>1. Unique'
    BY DEF CacheInv
  <2> QED
    BY ONLY <1>0, <1>u, <1>v, <2>1, DataSame
<1> QED
  BY ONLY <1>1, <1>2, <1>3, <1>4 DEF DataInv, StageInv

\* A block is written: to the log, to the header, or to its home.
LEMMA DeviceWrites ==
  ASSUME RInv, CacheInv', NEW q \in Procs, io[q].write,
         disk' = [disk EXCEPT ![bblock[io[q].buf]] = bdata[io[q].buf]],
         UNCHANGED <<bdata, io, bblock, valid, held, logVars>>, Pinned' = Pinned
  PROVE  DataInv' /\ (Unseen \/ Commits)
<1>0. /\ CoherentInv /\ ValidInv /\ PinnedInv /\ StageInv /\ QuietInv /\ Unique /\ CacheInv /\ ModeInv /\ TypeInv
      /\ Writes(q) /\ Phase(q) /\ disk[header] \in Heads
  BY RFacts DEF StageInv
<1> DEFINE b == io[q].buf
           n == bblock[b]
<1>b. b \in Bufs /\ valid[b] /\ n \in Blocks /\ n # NoBlock
  BY <1>0, WriteValid, DiskAssumption
<1>u. /\ bdata' = bdata /\ bblock' = bblock /\ held' = held /\ io' = io /\ valid' = valid
      /\ lh' = lh /\ pc' = pc /\ tail' = tail /\ recovering' = recovering
  BY DEF logVars
<1>v. /\ disk'[n] = bdata[b] /\ \A x \in Blocks \ {n} : disk'[x] = disk[x]
  BY <1>0, <1>b DEF CacheInv, CacheTypeOK
<1>w. io[q].write
  OBVIOUS
<1>l. pc[q] \in {"log_release", "head_release", "inst_unpin"} /\ pc[q] \in Busy
  BY <1>0 DEF Writes, Busy, CopyLabels, HeadLabels, InstLabels
<1>t. /\ tail \in Nat \ {0} /\ Len(lh) \in Nat /\ Len(lh) <= nlog - 1 /\ lh \in Seq(Home) /\ IsInjective(lh)
      /\ \A k \in 1..Len(lh) : lh[k] \in Home
      /\ nlog \in Nat
  BY <1>0, Types, BlockFacts
<1>s. /\ \A k \in Slots : k \in Blocks /\ k # header /\ k \notin Home
      /\ \A x \in Home : x \in Blocks /\ x # header
      /\ header \in Blocks /\ Slots = 1..(nlog - 1)
  BY BlockFacts DEF Slots
<1> HIDE DEF b, n
<1>1. CoherentInv'
  <2> SUFFICES ASSUME NEW c \in Bufs, valid'[c], ~Modified(c)', ~Writing(c)', ~Logged(c)'
               PROVE  bdata'[c] = disk'[bblock'[c]]
    BY DEF CoherentInv
  <2>1. ~Modified(c) /\ ~Writing(c) /\ ~Logged(c) /\ valid[c]
    BY ONLY <1>u, ~Modified(c)', ~Writing(c)', ~Logged(c)', valid'[c] DEF Modified, Writing, Logged
  <2>2. c # b
    BY ONLY <1>w, <2>1, q \in Procs DEF Writing, b
  <2>3. bblock[c] # n
    BY ONLY <1>0, <1>b, <2>2, c \in Bufs DEF Unique, n
  <2>4. bblock[c] \in Blocks
    BY <1>0, <2>1 DEF ValidInv
  <2> QED
    BY ONLY <1>0, <1>u, <1>v, <2>1, <2>3, <2>4, c \in Bufs DEF CoherentInv
<1>2. PinnedInv' /\ ValidInv' /\ QuietInv'
  BY ONLY <1>0, <1>u, <1>l, Pinned' = Pinned, q \in Procs DEF PinnedInv, ValidInv, QuietInv
<1>3. ASSUME NEW s \in Procs \ {q}
      PROVE  Writes(s)' /\ Phase(s)'
  <2>1. Writes(s) /\ Phase(s)
    BY <1>0 DEF StageInv
  <2>2. pc[s] \notin Busy
    BY ONLY <1>0, <1>l, <1>3, q \in Procs DEF ModeInv
  <2> QED
    BY ONLY <1>u, <1>3, <2>1, <2>2, OtherStage
<1>a. Active = {}
  <2>1. outstanding = Cardinality(Operating) /\ (committing \/ recovering)
        /\ (committing => outstanding = 0)
        /\ (recovering => \A s \in Procs \ {Boot} : pc[s] = "idle")
    BY <1>0, <1>l DEF ModeInv
  <2>2. CASE committing
    <3>1. IsFiniteSet(Operating)
      BY BlockFacts, FS_Subset DEF Operating
    <3> QED
      BY <2>1, <2>2, <3>1, FS_EmptySet DEF Operating, Active
  <2>3. CASE recovering
    <3>1. "idle" \notin OpLabels /\ pc[Boot] \notin OpLabels
      BY <1>0, <1>l, <2>1, <2>3, RecoveringBoot DEF OpLabels
    <3> QED
      BY <2>1, <2>3, <3>1 DEF Active
  <2> QED
    BY <2>1, <2>2, <2>3
<1>p. (disk[header] \in Heads => RecoveredFrom(disk[header]))'
  BY RecoveredIs, PTL
<1>r. disk'[header] = lh =>
        /\ \A k \in 1..Len(lh) : Recovered'[lh[k]] = disk'[k]
        /\ \A x \in Home \ ToSet(lh) : Recovered'[x] = disk'[x]
  <2>1. lh \in Heads
    BY <1>0, Types
  <2> QED
    BY ONLY <1>p, <2>1 DEF RecoveredFrom
<1>4. CASE pc[q] = "log_release"
  <2>1. /\ n = tail /\ tail \in 1..Len(lh) /\ tail \in Slots /\ Has(lh[tail], bdata[b])
        /\ disk[header] = <<>> /\ ~recovering
        /\ \A k \in 1..(tail - 1) : k \in Slots /\ Copied(k)
    <3>1. n = tail /\ tail <= Len(lh) /\ Has(lh[tail], bdata[b])
      BY ONLY <1>0, <1>w, <1>4 DEF Writes, b, n
    <3>2. disk[header] = <<>> /\ ~recovering /\ \A k \in 1..(tail - 1) : Copied(k)
      BY ONLY <1>0, <1>4 DEF Phase, CopyLabels
    <3> QED
      BY ONLY <1>t, <1>s, <3>1, <3>2
  <2>2. disk'[header] = <<>> /\ \A k \in 1..(tail - 1) : disk'[k] = disk[k]
    BY ONLY <1>v, <1>s, <1>t, <2>1
  <2>3. Writes(q)'
    <3>1. Has(lh[tail], bdata[b])'
      BY ONLY <1>u, <2>1 DEF Has, b
    <3> QED
      BY ONLY <1>u, <1>w, <1>4, <1>0, <2>1, <3>1 DEF Writes, b, n
  <2>4. Phase(q)'
    <3>1. \A k \in 1..(tail - 1) : Copied(k)'
      BY ONLY <1>u, <2>1, <2>2 DEF Copied, Has
    <3> QED
      BY ONLY <1>u, <1>4, <1>0, <2>1, <2>2, <3>1 DEF Phase, HeadLabels, InstLabels
  <2>5. ASSUME NEW x \in Home
        PROVE  disk'[x] = disk[x]
    BY ONLY <1>v, <1>s, <2>1, <2>5
  <2>6. Unseen
    <3>1. \A x \in Home : Recovered[x] = disk[x]
      BY ONLY <2>1, RecoveredEmpty
    <3>2. \A x \in Home : Recovered'[x] = disk'[x]
      <4>1. ToSet(<<>>) = {}
        BY DEF ToSet
      <4> QED
        BY ONLY <2>2, <4>1 DEF Recovered
    <3>3. \A x \in Home : Data'[x] = Data[x]
      <4> SUFFICES ASSUME NEW x \in Home PROVE Data'[x] = Data[x]
        OBVIOUS
      <4>1. Sees(x) /\ Sees(x)'
        <5>1. Unique'
          BY DEF CacheInv
        <5> QED
          BY ONLY <1>0, <5>1, SeesBoth, x \in Home
      <4> QED
        BY ONLY <1>u, <2>1, <2>5, <4>1, x \in Home DEF Sees
    <3> QED
      BY ONLY <2>5, <3>1, <3>2, <3>3 DEF Unseen, Recovered, Data
  <2> QED
    BY ONLY <1>1, <1>2, <1>3, <2>3, <2>4, <2>6 DEF DataInv, StageInv
<1>5. CASE pc[q] = "head_release"
  <2>1. /\ n = header /\ bdata[b] = lh /\ (lh # <<>> => disk[header] \in {<<>>, lh})
        /\ lh # <<>> => ~recovering /\ \A k \in 1..Len(lh) : k \in Slots /\ Copied(k)
        /\ lh = <<>> => Erasable
    <3>1. n = header /\ bdata[b] = lh /\ (lh # <<>> => disk[header] \in {<<>>, lh})
      BY ONLY <1>0, <1>w, <1>5 DEF Writes, b, n
    <3>2. /\ lh # <<>> => ~recovering /\ \A k \in 1..Len(lh) : Copied(k)
          /\ lh = <<>> => Erasable
      BY ONLY <1>0, <1>5 DEF Phase, HeadLabels
    <3> QED
      BY ONLY <1>t, <1>s, <3>1, <3>2
  <2>2. disk'[header] = lh /\ \A x \in Home \union Slots : disk'[x] = disk[x]
    BY ONLY <1>v, <1>s, <2>1
  <2>3. Writes(q)'
    BY ONLY <1>u, <1>w, <1>5, <1>0, <2>1, <2>2 DEF Writes, b, n
  <2>4. Phase(q)'
    <3>1. \A k \in 1..Len(lh) : lh # <<>> => Copied(k)'
      BY ONLY <1>u, <2>1, <2>2 DEF Copied, Has
    <3>2. lh = <<>> => Erasable'
      <4>1. Len(<<>>) = 0
        OBVIOUS
      <4> QED
        BY ONLY <2>2, <4>1 DEF Erasable
    <3> QED
      BY ONLY <1>u, <1>5, <1>0, <3>1, <3>2 DEF Phase, CopyLabels, InstLabels
  <2>s. \A x \in Home : Sees(x) /\ Sees(x)'
    <3>1. Unique'
      BY DEF CacheInv
    <3> QED
      BY ONLY <1>0, <3>1, SeesBoth
  <2>r. /\ \A k \in 1..Len(lh) : Recovered'[lh[k]] = disk'[k]
        /\ \A x \in Home \ ToSet(lh) : Recovered'[x] = disk'[x]
    BY ONLY <1>r, <2>2
  <2>5. CASE lh = <<>>
    <3>1. /\ \A k \in 1..Len(disk[header]) : Recovered[disk[header][k]] = disk[k]
          /\ \A x \in Home \ ToSet(disk[header]) : Recovered[x] = disk[x]
      BY ONLY <1>0, RecoveredIs DEF RecoveredFrom
    <3>2. \A x \in Home : Recovered[x] = disk[x]
      <4>1. \A x \in ToSet(disk[header]) : \E k \in 1..Len(disk[header]) : x = disk[header][k]
        BY <1>0 DEF Heads, ToSet
      <4> QED
        BY ONLY <2>1, <2>5, <3>1, <4>1 DEF Erasable
    <3>3. \A x \in Home : Recovered'[x] = disk[x]
      <4>1. ToSet(<<>>) = {}
        BY DEF ToSet
      <4> QED
        BY ONLY <2>2, <2>r, <2>5, <4>1
    <3>4. Recovered' = Recovered
      BY ONLY <3>2, <3>3 DEF Recovered
    <3>5. ASSUME NEW x \in Home
          PROVE  Data'[x] = Data[x]
      BY ONLY <1>u, <2>2, <2>s, <3>4, <3>5 DEF Sees
    <3> QED
      BY ONLY <1>1, <1>2, <1>3, <2>3, <2>4, <3>4, <3>5 DEF Unseen, Data, DataInv, StageInv
  <2>6. CASE lh # <<>>
    <3>1. ASSUME NEW x \in Home
          PROVE  Data'[x] = Data[x]
      BY ONLY <1>u, <2>1, <2>2, <2>s, <2>6, <3>1 DEF Sees
    <3>2. ASSUME NEW k \in 1..Len(lh)
          PROVE  Recovered'[lh[k]] = Data[lh[k]]
      <4>1. \E c \in Bufs : bblock[c] = lh[k] /\ valid[c]
        <5>1. \A s \in Procs : ~Unpinned(pc[s], tail, k)
          <6>1. \A s \in Procs : pc[s] \notin InstLabels
            BY ONLY <1>0, <1>l, <1>5, q \in Procs DEF ModeInv, Busy, InstLabels
          <6> QED
            BY ONLY <6>1 DEF Unpinned
        <5>2. lh[k] \in Pinned
          BY ONLY <2>1, <2>6, <3>2, <5>1 DEF Pinned, PinnedSlots
        <5> QED
          BY <1>0, <5>2, RFacts DEF RefInv, PinnedInv
      <4>2. Recovered'[lh[k]] = disk[k]
        BY ONLY <2>1, <2>2, <2>6, <2>r, <3>2
      <4> QED
        BY ONLY <1>t, <2>1, <2>6, <2>s, <3>2, <4>1, <4>2 DEF Sees, Copied, Has
    <3>3. ASSUME NEW x \in Home \ ToSet(lh)
          PROVE  Recovered'[x] = Data[x]
      <4>1. ASSUME NEW c \in Bufs, bblock[c] = x, valid[c]
            PROVE  bdata[c] = disk[x]
        <5>1. ~Modified(c)
          BY ONLY <1>a DEF Modified, Active, OpLabels
        <5>2. ~Writing(c)
          <6>1. ASSUME NEW s \in Procs, io[s].write
                PROVE  s = q
            <7>1. Writes(s)
              BY ONLY <1>0, <6>1 DEF StageInv
            <7>2. pc[s] \in Busy
              BY ONLY <6>1, <7>1 DEF Writes, Busy, CopyLabels, HeadLabels, InstLabels
            <7> QED
              BY ONLY <1>0, <1>l, <6>1, <7>2, q \in Procs DEF ModeInv
          <6>2. c # b
            BY ONLY <1>s, <2>1, <3>3, <4>1 DEF n
          <6> QED
            BY ONLY <6>1, <6>2 DEF Writing, b
        <5>3. ~Logged(c)
          BY ONLY <3>3, <4>1 DEF Logged
        <5> QED
          BY ONLY <1>0, <4>1, <5>1, <5>2, <5>3 DEF CoherentInv
      <4>2. Recovered'[x] = disk[x]
        BY ONLY <2>2, <2>r, <3>3
      <4> QED
        BY ONLY <2>1, <2>6, <2>s, <3>3, <4>1, <4>2 DEF Sees
    <3>4. Recovered' = Data /\ Data' = Data
      <4>1. \A x \in ToSet(lh) : \E k \in 1..Len(lh) : x = lh[k]
        BY ONLY <1>t DEF ToSet
      <4>2. \A x \in Home : Recovered'[x] = Data[x]
        BY ONLY <3>2, <3>3, <4>1
      <4> QED
        BY ONLY <3>1, <4>2 DEF Recovered, Data
    <3> QED
      BY ONLY <1>1, <1>2, <1>3, <1>a, <2>3, <2>4, <3>4 DEF Commits, DataInv, StageInv
  <2> QED
    BY ONLY <2>5, <2>6
<1>6. CASE pc[q] = "inst_unpin"
  <2>1. /\ n = lh[tail] /\ bdata[b] = disk[tail] /\ tail \in 1..Len(lh) /\ n \in Home
        /\ disk[header] = lh /\ (\A k \in 1..(tail - 1) : Installed(k))
        /\ \A k \in 1..Len(lh) : k \in Slots /\ (~recovering => Copied(k))
    <3>1. n = lh[tail] /\ bdata[b] = disk[tail] /\ tail <= Len(lh)
      BY ONLY <1>0, <1>w, <1>6 DEF Writes, b, n
    <3>2. /\ disk[header] = lh /\ (\A k \in 1..(tail - 1) : Installed(k))
          /\ \A k \in 1..Len(lh) : ~recovering => Copied(k)
      BY ONLY <1>0, <1>6 DEF Phase, InstLabels
    <3> QED
      BY ONLY <1>t, <1>s, <3>1, <3>2
  <2>2. /\ disk'[header] = lh /\ \A k \in Slots : disk'[k] = disk[k]
        /\ disk'[n] = disk[tail] /\ \A x \in Home \ {n} : disk'[x] = disk[x]
    BY ONLY <1>v, <1>s, <2>1
  <2>3. Writes(q)'
    <3>1. bdata[b] = disk'[tail] /\ n = lh[tail]
      BY ONLY <2>1, <2>2
    <3> QED
      BY ONLY <1>u, <1>w, <1>6, <1>0, <2>1, <3>1 DEF Writes, b, n
  <2>4. Phase(q)'
    <3>1. \A k \in 1..Len(lh) : ~recovering => Copied(k)'
      BY ONLY <1>u, <2>1, <2>2 DEF Copied, Has
    <3>2. \A k \in 1..(tail - 1) : Installed(k)'
      <4>1. ASSUME NEW k \in 1..(tail - 1)
            PROVE  disk'[lh[k]] = disk'[k]
        <5>1. k \in 1..Len(lh) /\ k # tail /\ tail \in 1..Len(lh)
          BY ONLY <1>t, <2>1, <4>1
        <5>2. DOMAIN lh = 1..Len(lh)
          BY ONLY <1>t
        <5>3. lh[k] # lh[tail]
          BY ONLY <1>t, <5>1, <5>2 DEF IsInjective
        <5> QED
          BY ONLY <1>t, <2>1, <2>2, <5>1, <5>3, <4>1 DEF Installed
      <4> QED
        BY ONLY <1>u, <4>1 DEF Installed
    <3> QED
      BY ONLY <1>u, <1>6, <1>0, <2>2, <3>1, <3>2 DEF Phase, CopyLabels, HeadLabels
  <2>s. \A x \in Home : Sees(x) /\ Sees(x)'
    <3>1. Unique'
      BY DEF CacheInv
    <3> QED
      BY ONLY <1>0, <3>1, SeesBoth
  <2>5. ASSUME NEW x \in Home
        PROVE  Recovered'[x] = Recovered[x]
    <3>1. /\ \A k \in 1..Len(disk[header]) : Recovered[disk[header][k]] = disk[k]
          /\ \A y \in Home \ ToSet(disk[header]) : Recovered[y] = disk[y]
      BY ONLY <1>0, RecoveredIs DEF RecoveredFrom
    <3>2. /\ \A k \in 1..Len(lh) : Recovered'[lh[k]] = disk'[k]
          /\ \A y \in Home \ ToSet(lh) : Recovered'[y] = disk'[y]
      BY ONLY <1>r, <2>2
    <3>3. \A y \in ToSet(lh) : \E k \in 1..Len(lh) : y = lh[k]
      BY ONLY <1>t DEF ToSet
    <3>4. n \in ToSet(lh)
      BY ONLY <1>t, <2>1 DEF ToSet
    <3> QED
      BY ONLY <2>1, <2>2, <2>5, <3>1, <3>2, <3>3, <3>4
  <2>6. ASSUME NEW x \in Home
        PROVE  Data'[x] = Data[x]
    <3>1. CASE x = n
      BY ONLY <1>u, <1>b, <2>5, <2>6, <2>s, <3>1 DEF Sees, n
    <3>2. CASE x # n
      BY ONLY <1>u, <2>2, <2>5, <2>6, <2>s, <3>2 DEF Sees
    <3> QED
      BY ONLY <3>1, <3>2
  <2> QED
    BY ONLY <1>1, <1>2, <1>3, <2>3, <2>4, <2>5, <2>6 DEF Unseen, Recovered, Data, DataInv, StageInv
<1> QED
  BY ONLY <1>l, <1>4, <1>5, <1>6

\* Every step inside bread() and bwrite(), and of the device.
LEMMA IoData ==
  ASSUME RInv, IInv', (\E p \in Procs : IoStep(p)) \/ DeviceStep, UNCHANGED logVars
  PROVE  RInv' /\ (Unseen \/ Commits) /\ Active' = Active
<1>0. CacheInv /\ ModeInv /\ RefInv /\ CacheInv'
  BY RFacts DEF IInv
<1>1. held' = held /\ bblock' = bblock /\ refcnt' = refcnt
  BY DEF IoStep, DeviceStep, Acquiresleep, DiskSubmit, DiskWait, Transferred, DiskDone, DiskIntr,
         DevicePerform, cacheVars
<1>2. ModeInv' /\ RefInv' /\ Pinned' = Pinned
  BY <1>0, <1>1, ModeRefFrame
<1>3. Active' = Active
  BY DEF Active, logVars
<1>t. io \in [Procs -> [step : Steps, buf : Bufs \union {NoBuf}, write : BOOLEAN]]
  BY <1>0 DEF CacheInv, CacheTypeOK, BcacheTypeOK
<1>4. ASSUME NEW p \in Procs, Acquiresleep(p)
      PROVE  DataInv' /\ Unseen
  <2>1. ~io[p].write /\ io[p].step = "lock" /\ ~Run.write
    BY <1>0, <1>4 DEF CacheInv, IoInv, Acquiresleep, Run
  <2>2. ~io'[p].write /\ \A q \in Procs \ {p} : io'[q] = io[q]
    BY <1>t, <1>4, <2>1 DEF Acquiresleep
  <2>3. UNCHANGED <<disk, bdata, bblock, valid, held>>
    BY <1>4 DEF Acquiresleep
  <2> QED
    BY <1>2, <2>1, <2>2, <2>3, IoFrame
<1>5. ASSUME NEW p \in Procs, DiskSubmit(p), UNCHANGED cacheVars
      PROVE  DataInv' /\ Unseen
  <2>1. /\ io'[p].write = io[p].write /\ io'[p].buf = io[p].buf /\ io[p].step # "run"
        /\ \A q \in Procs \ {p} : io'[q] = io[q]
    BY <1>t, <1>5 DEF DiskSubmit
  <2>2. UNCHANGED <<disk, bdata, bblock, valid, held>>
    BY <1>5 DEF DiskSubmit, cacheVars
  <2>3. \A q \in Procs :
           /\ io'[q].write <=> io[q].write
           /\ io[q].write => io'[q].buf = io[q].buf
           /\ io[q].step = "run" => io'[q].step = "run"
    BY <2>1
  <2> QED
    BY <1>2, <2>2, <2>3, IoFrame
<1>6. ASSUME (\E p \in Procs : DiskWait(p)) \/ DiskIntr, UNCHANGED cacheVars
      PROVE  DataInv' /\ Unseen
  <2>1. UNCHANGED <<disk, bdata, bblock, valid, held, io>>
    BY <1>6 DEF DiskWait, DiskIntr, cacheVars
  <2> QED
    BY <1>2, <2>1, IoFrame
<1>7. ASSUME NEW p \in Procs, Transferred(p)
      PROVE  DataInv' /\ Unseen
  BY <1>0, <1>2, <1>7, TransferredData
<1>8. ASSUME DevicePerform, UNCHANGED cacheVars
      PROVE  DataInv' /\ (Unseen \/ Commits)
  <2>1. PICK q \in Procs : Moves(q)
    BY <1>0, <1>8, PerformStep
  <2>2. UNCHANGED <<io, bblock, valid, held>>
    BY <1>8 DEF DevicePerform, cacheVars
  <2>3. CASE valid[io[q].buf]
    <3>1. io[q].write
      BY <1>0, <2>1, <2>3 DEF Moves, CacheInv, IoInv
    <3>2. disk' = [disk EXCEPT ![bblock[io[q].buf]] = bdata[io[q].buf]] /\ bdata' = bdata
      BY <2>1, <2>3 DEF Moves
    <3> QED
      BY <1>0, <1>2, <2>2, <3>1, <3>2, DeviceWrites
  <2>4. CASE ~valid[io[q].buf]
    <3>1. /\ io[q].buf \in Bufs /\ disk' = disk
          /\ bdata' = [bdata EXCEPT ![io[q].buf] = disk[bblock[io[q].buf]]]
      BY <2>1, <2>4 DEF Moves
    <3>2. bdata' = [bdata EXCEPT ![io[q].buf] = bdata'[io[q].buf]]
      BY <1>0, <3>1 DEF CacheInv, CacheTypeOK
    <3> QED
      BY <1>0, <1>2, <2>2, <2>4, <3>1, <3>2, DeviceReads
  <2> QED
    BY <2>3, <2>4
<1>9. DataInv' /\ (Unseen \/ Commits)
  BY <1>4, <1>5, <1>6, <1>7, <1>8 DEF IoStep, DeviceStep
<1> QED
  BY <1>2, <1>3, <1>9 DEF RInv

\* What bget() may recycle is on the disk.
LEMMA Droppable ==
  ASSUME RInv, ~recovering, NEW c \in Bufs, valid[c], bblock[c] \in Home, refcnt[c] = 0
  PROVE  bdata[c] = disk[bblock[c]]
<1>0. CacheInv /\ CoherentInv /\ ModeInv /\ RefInv /\ StageInv /\ TypeInv
  BY RFacts
<1>1. \A q \in Procs : c \notin ToSet(held[q]) /\ io[q].buf # c
  BY <1>0, Unreferenced
<1>2. ~Modified(c) /\ ~Writing(c)
  BY ONLY <1>1 DEF Modified, Writing
<1>3. CASE ~Logged(c)
  BY <1>0, <1>2, <1>3 DEF CoherentInv
<1>4. CASE Logged(c)
  <2>1. PICK k \in 1..Len(lh) : lh[k] = bblock[c]
    BY <1>0, <1>4, Types DEF Logged, ToSet
  <2>2. bblock[c] \notin Pinned
    <3>1. {q \in Procs : c \in ToSet(held[q])} = {}
      BY <1>1
    <3>2. refcnt[c] = Cardinality({q \in Procs : c \in ToSet(held[q])})
                      + (IF bblock[c] \in Pinned THEN 1 ELSE 0)
      BY ONLY <1>0, c \in Bufs DEF RefInv, RefsAre
    <3>3. Cardinality({}) = 0
      BY FS_EmptySet
    <3>4. bblock[c] \in Pinned => 0 = 0 + 1
      BY ONLY <3>1, <3>2, <3>3, refcnt[c] = 0
    <3> QED
      BY ONLY <3>4
  <2>3. PICK s \in Procs : Unpinned(pc[s], tail, k)
    BY ONLY <2>1, <2>2, ~recovering DEF Pinned, PinnedSlots
  <2>4. Phase(s) /\ Writes(s)
    BY <1>0 DEF StageInv
  <2>5. tail \in Nat
    BY <1>0, Types
  <2>6. Installed(k) /\ Copied(k)
    BY ONLY <2>1, <2>3, <2>4, <2>5, ~recovering DEF Unpinned, Phase, Writes
  <2> QED
    BY <2>1, <2>6 DEF Installed, Copied, Has
<1> QED
  BY <1>3, <1>4

-----------------------------------------------------------------------------
(* Steps of a process: bread() *)

LEMMA KeptFacts ==
  ASSUME disk' = disk, bdata' = bdata, Shrinks, lh' = lh
  PROVE  /\ \A k : Copied(k) => Copied(k)'
         /\ \A k : Installed(k)' <=> Installed(k)
         /\ Erasable' <=> Erasable
<1>1. \A k : Copied(k) => Copied(k)'
  BY DEF Copied, Has, Shrinks
<1> QED
  BY <1>1 DEF Installed, Erasable

\* The labels after a bread().
ReadLabels == {"modify", "read", "log_from", "log_copy", "head_write", "inst_home", "inst_copy", "head_load"}

SameStage(l, m) ==
  /\ l \in OpLabels <=> m \in OpLabels
  /\ l \in Busy <=> m \in Busy
  /\ l \in CopyLabels <=> m \in CopyLabels
  /\ l \in HeadLabels <=> m \in HeadLabels
  /\ l \in InstLabels <=> m \in InstLabels

LEMMA BreadData ==
  ASSUME RInv, IInv', NEW p \in Procs, Runs(p), NEW blk \in Blocks, NEW l \in ReadLabels,
         GotoWith(p, blk, l),
         UNCHANGED <<lh, outstanding, committing, asleep, tail, writes, recovering>>,
         SameStage(l, pc[p]), l = "head_write" => pc[p] = "head_get",
         pc[p] \notin {"inst_release", "log_write"},
         pc[p] = "idle" => ~recovering,
         \A c \in ToSet(held[p]) : bblock[c] # blk
  PROVE  RInv' /\ Unseen /\ Active' = Active
<1>0. /\ CacheInv /\ TypeInv /\ ModeInv /\ RefInv /\ Unique /\ PinnedInv /\ QuietInv
      /\ Writes(p) /\ Phase(p) /\ io[p] = Run /\ ~panicked
      /\ (recovering /\ pc[p] # "idle" => p = Boot)
  BY RRunning DEF CacheInv
<1>u. /\ lh' = lh /\ outstanding' = outstanding /\ committing' = committing /\ asleep' = asleep
      /\ tail' = tail /\ writes' = writes /\ recovering' = recovering
      /\ pc' = [pc EXCEPT ![p] = l] /\ Bread(p, blk)
  BY DEF GotoWith, Goto
<1>p. pc'[p] = l /\ \A q \in Procs \ {p} : pc'[q] = pc[q]
  <2>1. pc \in [Procs -> PcLabels]
    BY <1>0, Types
  <2> QED
    BY ONLY <1>u, <2>1, p \in Procs
<1>l. /\ l \notin {"log_write", "log_release", "head_release", "inst_unpin", "inst_release", "commit", "finish"}
      /\ l \in OpLabels <=> pc[p] \in OpLabels
      /\ l \in Busy <=> pc[p] \in Busy
      /\ l \in CopyLabels <=> pc[p] \in CopyLabels
      /\ l \in HeadLabels <=> pc[p] \in HeadLabels
      /\ l \in InstLabels <=> pc[p] \in InstLabels
      /\ l = "head_get" => FALSE
  BY DEF SameStage, ReadLabels
<1>b. recovering => p = Boot
  BY ONLY <1>0, pc[p] = "idle" => ~recovering
<1>m. ModeInv' /\ Active' = Active
  <2>1. recovering => p = Boot /\ asleep' = {}
    BY ONLY <1>0, <1>b, <1>u DEF ModeInv
  <2> QED
    BY ONLY <1>0, <1>u, <1>l, <2>1, p \in Procs, ModeSame DEF Active, Operating
<1>n. Pinned' = Pinned
  <2>1. \A k \in 1..Len(lh) : Unpinned(pc[p], tail, k) <=> Unpinned(l, tail', k)
    BY ONLY <1>l, <1>u, pc[p] \notin {"inst_release", "log_write"} DEF Unpinned
  <2> QED
    BY ONLY <1>0, <1>u, <1>l, <2>1, p \in Procs, PinnedMoves
<1>q. disk' = disk => QuietInv'
  BY ONLY <1>0, <1>p, <1>l, p \in Procs, QuietSame
<1>w. ASSUME ~io'[p].write
      PROVE  Writes(p)'
  BY ONLY <1>w, <1>p, <1>l DEF Writes
<1>f. ASSUME disk' = disk, bdata' = bdata, Shrinks
      PROVE  Phase(p)'
  <2>1. /\ \A k : Copied(k) => Copied(k)'
        /\ \A k : Installed(k)' <=> Installed(k)
        /\ Erasable' <=> Erasable
    BY ONLY <1>f, <1>u, KeptFacts
  <2> QED
    BY ONLY <1>f, <1>0, <1>u, <1>p, <1>l, <2>1, l = "head_write" => pc[p] = "head_get" DEF Phase
<1>1. CASE \E b \in Bufs : Gets(p, blk, b)
  <2>1. PICK b \in Bufs : Gets(p, blk, b)
    BY <1>1
  <2>2. Got(p, blk, b)
    BY <1>0, <2>1, GetsEffect
  <2>3. /\ disk' = disk /\ bdata' = bdata /\ panicked' = panicked
        /\ \/ bblock[b] = blk /\ valid' = valid
           \/ refcnt[b] = 0 /\ (\A c \in Bufs : bblock[c] # blk) /\ ~valid'[b]
    BY <1>0, <2>1 DEF Gets, CacheInv, CacheTypeOK, BcacheTypeOK
  <2>4. /\ io'[p] = [step |-> "lock", buf |-> b, write |-> FALSE]
        /\ \A q \in Procs \ {p} : held'[q] = held[q] /\ io'[q] = io[q]
        /\ bblock'[b] = blk
        /\ \A c \in Bufs \ {b} : bblock'[c] = bblock[c] /\ valid'[c] = valid[c]
        /\ \A q \in Procs : io[q].buf \in Bufs => bblock'[io[q].buf] = bblock[io[q].buf]
    BY ONLY <2>2 DEF Got
  <2>5. Shrinks
    BY ONLY <2>3, <2>4 DEF Shrinks
  <2>6. \A c \in Bufs : bblock'[c] \in Pinned' => valid'[c]
    BY ONLY <1>0, <1>n, <2>3, <2>4, b \in Bufs DEF PinnedInv, RefInv
  <2>7. ~io'[p].write /\ ~io[p].write
    BY <1>0, <2>4 DEF Run
  <2>8. \A c \in Bufs :
           valid'[c] /\ (Logged(c) \/ (pc[p] = "log_write" /\ c \in ToSet(held[p])))
           => (~recovering' /\ bblock'[c] \in ToSet(lh')) \/ bdata[c] = disk[bblock[c]]
    BY ONLY <1>u, <2>5, pc[p] \notin {"inst_release", "log_write"} DEF Logged, Shrinks
  <2>9. \A q \in Procs \ {p} :
           /\ pc'[q] = pc[q] /\ io'[q] = io[q] /\ held'[q] = held[q]
           /\ io[q].buf \in Bufs => bblock'[io[q].buf] = bblock[io[q].buf]
    BY ONLY <1>p, <2>4
  <2>10. DataInv'
    <3>1. Writes(p)' /\ Phase(p)' /\ QuietInv'
      BY ONLY <1>q, <1>w, <1>f, <2>3, <2>5, <2>7
    <3>2. pc'[p] # "log_write"
      BY ONLY <1>p, <1>l
    <3> QED
      BY ONLY RInv, p \in Procs, <1>u, <2>3, <2>5, <2>6, <2>7, <2>8, <2>9, <3>1, <3>2, CalmStep
  <2>11. Unseen
    <3>1. \A c \in Bufs :
            /\ valid'[c] /\ bblock'[c] \in Home =>
                 valid[c] /\ bblock'[c] = bblock[c] /\ bdata'[c] = bdata[c]
            /\ valid[c] /\ bblock[c] \in Home /\ ~recovering =>
                 \/ valid'[c] /\ bblock'[c] = bblock[c] /\ bdata'[c] = bdata[c]
                 \/ bdata[c] = disk[bblock[c]]
      BY ONLY RInv, Droppable, <2>3, <2>4, <2>5 DEF Shrinks
    <3>2. Unique'
      BY DEF IInv, CacheInv
    <3> QED
      BY ONLY <1>0, <1>u, <2>3, <3>1, <3>2, DataSame
  <2>12. RefInv'
    BY <1>0, <2>3 DEF IInv, RunInv
  <2> QED
    BY <1>m, <2>10, <2>11, <2>12 DEF RInv
<1>2. CASE UNCHANGED <<diskVars, valid, refcnt, holder, lru, held>>
  <2>1. /\ disk' = disk /\ bdata' = bdata /\ bblock' = bblock /\ valid' = valid /\ held' = held
        /\ io' = io /\ refcnt' = refcnt
    BY <1>2 DEF diskVars
  <2>2. Shrinks
    BY ONLY <2>1 DEF Shrinks
  <2>3. ~io'[p].write /\ ~io[p].write
    BY ONLY <1>0, <2>1 DEF Run
  <2>4. \A c \in Bufs : bblock'[c] \in Pinned' => valid'[c]
    BY ONLY <1>0, <1>n, <2>1 DEF PinnedInv
  <2>8. \A c \in Bufs :
           valid'[c] /\ (Logged(c) \/ (pc[p] = "log_write" /\ c \in ToSet(held[p])))
           => (~recovering' /\ bblock'[c] \in ToSet(lh')) \/ bdata[c] = disk[bblock[c]]
    BY ONLY <1>u, <2>1, pc[p] \notin {"inst_release", "log_write"} DEF Logged
  <2>9. \A q \in Procs \ {p} :
           /\ pc'[q] = pc[q] /\ io'[q] = io[q] /\ held'[q] = held[q]
           /\ io[q].buf \in Bufs => bblock'[io[q].buf] = bblock[io[q].buf]
    BY ONLY <1>p, <2>1
  <2>10. DataInv'
    <3>1. Writes(p)' /\ Phase(p)' /\ QuietInv'
      BY ONLY <1>q, <1>w, <1>f, <2>1, <2>2, <2>3
    <3>2. pc'[p] # "log_write"
      BY ONLY <1>p, <1>l
    <3> QED
      BY ONLY RInv, p \in Procs, <1>u, <2>1, <2>2, <2>3, <2>4, <2>8, <2>9, <3>1, <3>2, CalmStep
  <2>11. Unseen
    <3>2. Unique'
      BY DEF IInv, CacheInv
    <3> QED
      BY ONLY <1>0, <1>u, <2>1, <3>2, DataSame
  <2>12. RefInv'
    BY ONLY <1>0, <1>n, <2>1 DEF RefInv
  <2> QED
    BY <1>m, <2>10, <2>11, <2>12 DEF RInv
<1> QED
  BY <1>0, <1>1, <1>2, <1>u, BreadGets

LEMMA BreadStepsData ==
  ASSUME RInv, IInv', NEW p \in Procs,
         \/ OpBread(p) \/ ReadBlock(p) \/ LogFrom(p) \/ HeadGet(p) \/ InstHome(p) \/ HeadRead(p)
         \/ (LogTo(p) \/ InstLog(p)) /\ tail <= Len(lh)
  PROVE  RInv' /\ Unseen /\ Active' = Active
<1>r. Runs(p)
  BY DEF OpBread, ReadBlock, LogFrom, HeadGet, InstHome, HeadRead, LogTo, InstLog, At
<1>0. /\ CacheInv /\ TypeInv
      /\ Knows(pc[p], held[p], bblock, tail, lh, writes[p], recovering)
  BY <1>r, RRunning
<1>e. ToSet(<<>>) = {}
  BY DEF ToSet
<1>t. /\ tail \in Nat \ {0} /\ Len(lh) \in Nat /\ Len(lh) <= nlog - 1 /\ nlog \in Nat
      /\ \A k \in 1..Len(lh) : lh[k] \in Home
  BY <1>0, Types, BlockFacts
<1>u. /\ ~(ReadBlock(p) \/ OpBread(p)) => UNCHANGED <<lh, outstanding, committing, asleep, tail, writes, recovering>>
      /\ ReadBlock(p) \/ OpBread(p) => UNCHANGED <<lh, outstanding, committing, asleep, tail, writes, recovering>>
  BY DEF OpBread, ReadBlock, LogFrom, HeadGet, InstHome, HeadRead, LogTo, InstLog, logUnchanged
<1>1. CASE OpBread(p)
  <2>1. PICK b \in Home : GotoWith(p, b, "modify")
    BY <1>1 DEF OpBread
  <2>2. pc[p] = "op" /\ b \in Blocks
    BY <1>1, BlockFacts DEF OpBread, At
  <2>3. \A c \in ToSet(held[p]) : bblock[c] # b
    BY <1>0, <1>e, <2>2 DEF Knows
  <2>4. SameStage("modify", pc[p]) /\ "modify" \in ReadLabels
    BY ONLY <2>2 DEF SameStage, ReadLabels, OpLabels, Busy, CopyLabels, HeadLabels, InstLabels
  <2> QED
    BY <1>r, <1>u, <1>1, <2>1, <2>2, <2>3, <2>4, BreadData
<1>2. CASE ReadBlock(p)
  <2>1. PICK b \in Home : GotoWith(p, b, "read")
    BY <1>2 DEF ReadBlock
  <2>2. pc[p] = "idle" /\ ~recovering /\ b \in Blocks
    BY <1>2, BlockFacts DEF ReadBlock, At
  <2>3. \A c \in ToSet(held[p]) : bblock[c] # b
    BY <1>0, <1>e, <2>2 DEF Knows
  <2>4. SameStage("read", pc[p]) /\ "read" \in ReadLabels
    BY ONLY <2>2 DEF SameStage, ReadLabels, OpLabels, Busy, CopyLabels, HeadLabels, InstLabels
  <2> QED
    BY <1>r, <1>u, <1>2, <2>1, <2>2, <2>3, <2>4, BreadData
<1>3. CASE LogFrom(p) \/ InstHome(p)
  <2> DEFINE l == IF pc[p] = "log_from" THEN "log_copy" ELSE "inst_copy"
  <2>2. pc[p] \in {"log_from", "inst_home"} /\ tail <= Len(lh) /\ Len(held[p]) = 1 /\ bblock[held[p][1]] = tail
    BY <1>0, <1>3 DEF LogFrom, InstHome, At, Knows, CopyLabels, InstLabels
  <2>1. GotoWith(p, lh[tail], l)
    BY <1>3 DEF LogFrom, InstHome, At
  <2>3. tail \in Slots /\ lh[tail] \in Home /\ lh[tail] \in Blocks /\ lh[tail] # tail
    BY <1>t, <2>2, BlockFacts DEF Slots
  <2>4. \A c \in ToSet(held[p]) : bblock[c] # lh[tail]
    <3>1. \A c \in ToSet(held[p]) : c = held[p][1]
      BY <1>0, <2>2, CacheTypes DEF ToSet
    <3> QED
      BY <2>2, <2>3, <3>1
  <2>5. /\ SameStage(l, pc[p]) /\ l \in ReadLabels /\ l # "head_write"
        /\ pc[p] \notin {"inst_release", "log_write", "idle"}
    BY ONLY <2>2 DEF SameStage, ReadLabels, OpLabels, Busy, CopyLabels, HeadLabels, InstLabels
  <2>6. UNCHANGED <<lh, outstanding, committing, asleep, tail, writes, recovering>>
    BY <1>u
  <2> HIDE DEF l
  <2> QED
    BY <1>r, <2>1, <2>3, <2>4, <2>5, <2>6, BreadData
<1>4. CASE HeadGet(p) \/ HeadRead(p)
  <2> DEFINE l == IF pc[p] = "head_get" THEN "head_write" ELSE "head_load"
  <2>1. pc[p] \in {"head_get", "head_read"} /\ GotoWith(p, header, l)
    BY <1>4 DEF HeadGet, HeadRead, At
  <2>3. \A c \in ToSet(held[p]) : bblock[c] # header
    BY <1>0, <1>e, <2>1 DEF Knows
  <2>5. /\ SameStage(l, pc[p]) /\ l \in ReadLabels /\ (l = "head_write" => pc[p] = "head_get")
        /\ pc[p] \notin {"inst_release", "log_write", "idle"}
    BY ONLY <2>1 DEF SameStage, ReadLabels, OpLabels, Busy, CopyLabels, HeadLabels, InstLabels
  <2>6. UNCHANGED <<lh, outstanding, committing, asleep, tail, writes, recovering>>
    BY <1>u
  <2> HIDE DEF l
  <2> QED
    BY <1>r, <2>1, <2>3, <2>5, <2>6, BlockFacts, BreadData
<1>5. CASE (LogTo(p) \/ InstLog(p)) /\ tail <= Len(lh)
  <2> DEFINE l == IF pc[p] = "log_to" THEN "log_from" ELSE "inst_home"
  <2>1. pc[p] \in {"log_to", "inst_log"} /\ GotoWith(p, tail, l)
    BY <1>5 DEF LogTo, InstLog, At
  <2>2. tail \in Blocks
    BY <1>t, <1>5, BlockFacts DEF Slots
  <2>3. \A c \in ToSet(held[p]) : bblock[c] # tail
    BY <1>0, <1>e, <2>1 DEF Knows
  <2>5. /\ SameStage(l, pc[p]) /\ l \in ReadLabels /\ l # "head_write"
        /\ pc[p] \notin {"inst_release", "log_write", "idle"}
    BY ONLY <2>1 DEF SameStage, ReadLabels, OpLabels, Busy, CopyLabels, HeadLabels, InstLabels
  <2>6. UNCHANGED <<lh, outstanding, committing, asleep, tail, writes, recovering>>
    BY <1>5 DEF LogTo, InstLog, logUnchanged
  <2> HIDE DEF l
  <2> QED
    BY <1>r, <2>1, <2>2, <2>3, <2>5, <2>6, BreadData
<1> QED
  BY <1>1, <1>2, <1>3, <1>4, <1>5

-----------------------------------------------------------------------------
(* Steps of a process: it writes to a buffer *)

\* One process at most is in commit() or in recovery, and none while an
\* operation is under way.
LEMMA Alone ==
  ASSUME RInv, NEW p \in Procs, pc[p] \in Busy \union OpLabels
  PROVE  \A q \in Procs \ {p} : pc[q] \notin Busy
<1>0. ModeInv /\ TypeInv
  BY RFacts
<1>1. CASE pc[p] \in Busy
  BY <1>0, <1>1 DEF ModeInv
<1>2. CASE pc[p] \in OpLabels
  <2>1. outstanding # 0
    BY <1>0, <1>2, NoneOperates
  <2>2. ~recovering
    <3>1. pc[p] \notin Busy /\ pc[p] # "idle"
      BY ONLY <1>2 DEF OpLabels, Busy, CopyLabels, HeadLabels, InstLabels
    <3> QED
      BY <1>0, <3>1, RecoveringBoot
  <2> QED
    BY ONLY <1>0, <2>1, <2>2 DEF ModeInv
<1> QED
  BY <1>1, <1>2

LEMMA PutData ==
  ASSUME RInv, IInv', ~panicked', NEW p \in Procs, Runs(p), NEW b \in ToSet(held[p]), NEW v, NEW l,
         bdata' = [bdata EXCEPT ![b] = v], pc' = [pc EXCEPT ![p] = l],
         UNCHANGED <<disk, bblock, valid, held, lh, tail, recovering>>,
         \/ io' = io /\ l = "log_write"
         \/ io' = [io EXCEPT ![p] = [step |-> "start", buf |-> b, write |-> TRUE]],
         pc[p] # "log_write", pc[p] \in Busy \union OpLabels,
         pc[p] # "inst_release" /\ l # "inst_release",
         l \in OpLabels <=> pc[p] \in OpLabels, l \in Busy <=> pc[p] \in Busy,
         l \in InstLabels <=> pc[p] \in InstLabels,
         Writes(p)', Phase(p)'
  PROVE  RInv' /\ Active' = Active
<1>0. /\ CacheInv /\ TypeInv /\ ModeInv /\ CoherentInv /\ ValidInv /\ PinnedInv /\ QuietInv /\ StageInv
      /\ io[p] = Run /\ ~io[p].write
  BY RRunning
<1>b. b \in Bufs
  BY <1>0, Locked
<1>p. pc'[p] = l /\ \A q \in Procs \ {p} : pc'[q] = pc[q]
  <2>1. pc \in [Procs -> PcLabels]
    BY <1>0, Types
  <2> QED
    BY ONLY <2>1, p \in Procs, pc' = [pc EXCEPT ![p] = l]
<1>u. disk' = disk /\ bblock' = bblock /\ valid' = valid /\ held' = held /\ lh' = lh /\ tail' = tail /\ recovering' = recovering
  OBVIOUS
<1>d. \A c \in Bufs \ {b} : bdata'[c] = bdata[c]
  BY <1>0 DEF CacheInv, CacheTypeOK
<1>i. /\ \A q \in Procs \ {p} : io'[q] = io[q]
      /\ (l = "log_write" /\ io' = io) \/ (io'[p].write /\ io'[p].buf = b)
  BY <1>0 DEF CacheInv, CacheTypeOK, BcacheTypeOK
<1>1. CoherentInv'
  <2> SUFFICES ASSUME NEW c \in Bufs, valid'[c], ~Modified(c)', ~Writing(c)', ~Logged(c)'
               PROVE  bdata'[c] = disk'[bblock'[c]]
    BY DEF CoherentInv
  <2>1. c # b
    BY ONLY <1>i, <1>p, <1>u, p \in Procs, b \in ToSet(held[p]), ~Modified(c)', ~Writing(c)' DEF Modified, Writing
  <2>2. ~Modified(c) /\ ~Logged(c)
    BY ONLY <1>p, <1>u, ~Modified(c)', ~Logged(c)', pc[p] # "log_write" DEF Modified, Logged
  <2>3. ~Writing(c)
    BY ONLY <1>0, <1>i, ~Writing(c)' DEF Writing
  <2> QED
    BY ONLY <1>0, <1>u, <1>d, <2>1, <2>2, <2>3, c \in Bufs, valid'[c] DEF CoherentInv
<1>2. Pinned' = Pinned
  <2>1. \A k \in 1..Len(lh) : Unpinned(pc[p], tail, k) <=> Unpinned(l, tail', k)
    BY DEF Unpinned
  <2> QED
    BY <1>0, <2>1, PinnedMoves
<1>3. ValidInv' /\ PinnedInv'
  BY ONLY <1>0, <1>u, <1>2 DEF ValidInv, PinnedInv
<1>4. QuietInv'
  <2>1. \A q \in Procs : pc'[q] \in Busy <=> pc[q] \in Busy
    BY <1>p
  <2> QED
    BY ONLY <1>0, <1>u, <2>1, QuietSame
<1>5. ASSUME NEW q \in Procs \ {p}
      PROVE  Writes(q)' /\ Phase(q)'
  <2>1. pc[q] \notin Busy
    BY Alone
  <2> QED
    BY <1>0, <1>p, <1>i, <2>1, OtherStage DEF StageInv
<1>6. StageInv'
  BY <1>5 DEF StageInv
<1>7. ModeInv' /\ RefInv'
  BY DEF IInv, RunInv
<1>8. Active' = Active
  BY ONLY <1>p, p \in Procs, l \in OpLabels <=> pc[p] \in OpLabels DEF Active
<1> QED
  BY <1>1, <1>3, <1>4, <1>6, <1>7, <1>8 DEF RInv, DataInv

\* The buffers that a step of commit() or of recovery works on.
LEMMA PairFacts ==
  ASSUME RInv, NEW p \in Procs, Runs(p), pc[p] \in {"log_copy", "inst_copy"}
  PROVE  /\ held[p][1] \in ToSet(held[p]) /\ held[p][2] \in ToSet(held[p])
         /\ held[p][1] \in Bufs /\ held[p][2] \in Bufs /\ held[p][1] # held[p][2]
         /\ valid[held[p][1]] /\ valid[held[p][2]]
         /\ bblock[held[p][1]] = tail /\ bblock[held[p][2]] = lh[tail]
         /\ tail \in 1..Len(lh) /\ tail \in Slots /\ tail \notin Home /\ lh[tail] \in Home
         /\ \A c \in Bufs : bblock[c] = tail => c = held[p][1]
         /\ \A c \in Bufs : bblock[c] = lh[tail] => c = held[p][2]
         /\ bdata[held[p][1]] = disk[tail] \/ pc[p] = "log_copy"
<1>0. /\ CacheInv /\ TypeInv /\ PlaceInv /\ CoherentInv /\ Writes(p) /\ Phase(p) /\ io[p] = Run
      /\ Knows(pc[p], held[p], bblock, tail, lh, writes[p], recovering)
  BY RRunning
<1>t. /\ tail \in Nat \ {0} /\ Len(lh) \in Nat /\ Len(lh) <= nlog - 1 /\ nlog \in Nat
      /\ \A k \in 1..Len(lh) : lh[k] \in Home
  BY <1>0, Types, BlockFacts
<1>1. Len(held[p]) = 2 /\ bblock[held[p][1]] = tail /\ bblock[held[p][2]] = lh[tail] /\ tail <= Len(lh)
  BY <1>0 DEF Knows, CopyLabels, InstLabels
<1>2. /\ held[p][1] \in ToSet(held[p]) /\ held[p][2] \in ToSet(held[p])
      /\ held[p][1] \in Bufs /\ held[p][2] \in Bufs
  <2>1. \A k \in 1..Len(held[p]) : held[p][k] \in Bufs /\ held[p][k] \in ToSet(held[p])
    BY <1>0, CacheTypes
  <2>2. 1 \in 1..Len(held[p]) /\ 2 \in 1..Len(held[p])
    BY <1>1
  <2> QED
    BY ONLY <2>1, <2>2
<1>3. tail \in 1..Len(lh) /\ tail \in Slots /\ lh[tail] \in Home
  BY <1>t, <1>1 DEF Slots
<1>4. tail \notin Home /\ tail # NoBlock /\ lh[tail] # NoBlock /\ tail # lh[tail]
  BY <1>3, BlockFacts
<1>5. valid[held[p][1]] /\ valid[held[p][2]]
  BY <1>0, <1>2, Locked
<1>6. /\ \A c \in Bufs : bblock[c] = tail => c = held[p][1]
      /\ \A c \in Bufs : bblock[c] = lh[tail] => c = held[p][2]
  BY <1>0, <1>1, <1>2, <1>4 DEF CacheInv, Unique
<1>7. ~Logged(held[p][1])
  BY <1>0, <1>1, <1>4, Types DEF Logged, ToSet
<1>8. ASSUME pc[p] = "inst_copy"
      PROVE  bdata[held[p][1]] = disk[tail]
  <2>1. ~Modified(held[p][1])
    <3> SUFFICES ASSUME NEW q \in Procs, pc[q] = "log_write", held[p][1] \in ToSet(held[q])
                 PROVE  FALSE
      BY DEF Modified
    <3>1. Len(held[q]) = 1 /\ bblock[held[q][1]] \in Home
      BY <1>0 DEF PlaceInv, Knows
    <3>2. held[p][1] = held[q][1]
      BY <1>0, <3>1, CacheTypes DEF ToSet
    <3> QED
      BY <1>1, <1>4, <3>1, <3>2
  <2>2. ~Writing(held[p][1])
    <3> SUFFICES ASSUME NEW q \in Procs, io[q].write, io[q].buf = held[p][1]
                 PROVE  FALSE
      BY DEF Writing
    <3> QED
      BY <1>0, <1>2, Locked, WriteValid
  <2> QED
    BY <1>0, <1>1, <1>2, <1>5, <1>7, <2>1, <2>2 DEF CoherentInv
<1> QED
  BY <1>1, <1>2, <1>3, <1>4, <1>5, <1>6, <1>8

LEMMA LogCopyData ==
  ASSUME RInv, IInv', ~panicked', NEW p \in Procs, LogCopy(p)
  PROVE  RInv' /\ Unseen /\ Active' = Active
<1>1. Runs(p) /\ pc[p] = "log_copy"
  BY DEF LogCopy, At
<1>0. /\ CacheInv /\ TypeInv /\ Unique /\ Writes(p) /\ Phase(p) /\ io[p] = Run
  BY <1>1, RRunning DEF CacheInv
<1> DEFINE b == held[p][1]
           c2 == held[p][2]
<1>2. /\ b \in ToSet(held[p]) /\ b \in Bufs /\ c2 \in Bufs /\ b # c2 /\ bblock[b] = tail
      /\ tail \notin Home /\ tail \in 1..Len(lh) /\ holder[b] = p
      /\ \A c \in Bufs : bblock[c] = lh[tail] => c = c2
  BY <1>0, <1>1, PairFacts, Locked
<1>3. /\ bdata' = [bdata EXCEPT ![b] = bdata[c2]] /\ pc' = [pc EXCEPT ![p] = "log_release"]
      /\ UNCHANGED <<disk, bblock, valid, held, lh, tail, recovering>>
      /\ io' = [io EXCEPT ![p] = [step |-> "start", buf |-> b, write |-> TRUE]]
  BY <1>2 DEF LogCopy, PutAndWrite, Bwrite, Goto, logUnchanged
<1>t. DOMAIN bdata = Bufs /\ DOMAIN io = Procs /\ DOMAIN pc = Procs /\ \A k \in 1..Len(lh) : lh[k] \in Home
  BY <1>0, Types DEF CacheInv, CacheTypeOK, BcacheTypeOK
<1> HIDE DEF b, c2
<1>4. /\ bdata'[b] = bdata[c2] /\ \A c \in Bufs \ {b} : bdata'[c] = bdata[c]
      /\ io'[p].write /\ io'[p].buf = b /\ io'[p].step = "start" /\ pc'[p] = "log_release"
      /\ disk' = disk /\ bblock' = bblock /\ valid' = valid /\ lh' = lh /\ tail' = tail /\ recovering' = recovering
  BY ONLY <1>2, <1>3, <1>t, p \in Procs
<1>c. \A c \in Bufs : bblock[c] \in Home => bdata'[c] = bdata[c]
  BY ONLY <1>2, <1>4
<1>5. Writes(p)'
  <2>1. tail <= Len(lh)
    BY <1>2
  <2>2. Has(lh[tail], bdata[io[p].buf])'
    BY ONLY <1>2, <1>4, <1>c DEF Has
  <2> QED
    BY ONLY <1>2, <1>4, <2>1, <2>2 DEF Writes
<1>6. Phase(p)'
  <2>1. /\ tail <= Len(lh) + 1 /\ ~recovering /\ disk[header] = <<>>
        /\ \A k \in 1..(tail - 1) : Copied(k) /\ lh[k] \in Home
    BY <1>0, <1>1, <1>2, <1>t DEF Phase, CopyLabels
  <2>2. \A k \in 1..(tail - 1) : Copied(k)'
    BY ONLY <1>4, <1>c, <2>1 DEF Copied, Has
  <2> QED
    BY ONLY <1>4, <2>1, <2>2 DEF Phase, HeadLabels, InstLabels
<1>7. Unseen
  <2>1. Unique'
    BY DEF IInv, CacheInv
  <2> QED
    BY ONLY <1>0, <1>4, <1>c, <2>1, DataSame
<1>8. RInv' /\ Active' = Active
  <2>1. /\ "log_release" \in OpLabels <=> "log_copy" \in OpLabels
        /\ "log_release" \in Busy /\ "log_copy" \in Busy
        /\ "log_release" \in InstLabels <=> "log_copy" \in InstLabels
    BY DEF OpLabels, Busy, CopyLabels, HeadLabels, InstLabels
  <2> QED
    BY <1>1, <1>2, <1>3, <1>5, <1>6, <2>1, PutData
<1> QED
  BY <1>7, <1>8

LEMMA InstCopyData ==
  ASSUME RInv, IInv', ~panicked', NEW p \in Procs, InstCopy(p)
  PROVE  RInv' /\ Unseen /\ Active' = Active
<1>1. Runs(p) /\ pc[p] = "inst_copy"
  BY DEF InstCopy, At
<1>0. /\ CacheInv /\ TypeInv /\ Unique /\ Writes(p) /\ Phase(p) /\ io[p] = Run
  BY <1>1, RRunning DEF CacheInv
<1> DEFINE c1 == held[p][1]
           b == held[p][2]
<1>2. /\ b \in ToSet(held[p]) /\ b \in Bufs /\ valid[b] /\ bblock[b] = lh[tail]
      /\ lh[tail] \in Home /\ tail \in 1..Len(lh) /\ holder[b] = p /\ bdata[c1] = disk[tail]
      /\ \A c \in Bufs : bblock[c] = lh[tail] => c = b
  BY <1>0, <1>1, PairFacts, Locked
<1>3. /\ bdata' = [bdata EXCEPT ![b] = bdata[c1]] /\ pc' = [pc EXCEPT ![p] = "inst_unpin"]
      /\ UNCHANGED <<disk, bblock, valid, held, lh, tail, recovering>>
      /\ io' = [io EXCEPT ![p] = [step |-> "start", buf |-> b, write |-> TRUE]]
  BY <1>2 DEF InstCopy, PutAndWrite, Bwrite, Goto, logUnchanged
<1>t. DOMAIN bdata = Bufs /\ DOMAIN io = Procs /\ DOMAIN pc = Procs
  BY <1>0, Types DEF CacheInv, CacheTypeOK, BcacheTypeOK
<1> HIDE DEF b, c1
<1>4. /\ bdata'[b] = disk[tail] /\ \A c \in Bufs \ {b} : bdata'[c] = bdata[c]
      /\ io'[p].write /\ io'[p].buf = b /\ io'[p].step = "start" /\ pc'[p] = "inst_unpin"
      /\ disk' = disk /\ bblock' = bblock /\ valid' = valid /\ lh' = lh /\ tail' = tail /\ recovering' = recovering
  BY ONLY <1>2, <1>3, <1>t, p \in Procs
<1>p. /\ tail <= Len(lh) /\ disk[header] = lh
      /\ \A k \in 1..(tail - 1) : Installed(k)
      /\ ~recovering => \A k \in 1..Len(lh) : Copied(k)
  BY <1>0, <1>1, <1>2 DEF Phase, InstLabels
\* To commit, it copies what the buffer has already.
<1>c. ~recovering => \A c \in Bufs : bdata'[c] = bdata[c]
  <2>1. ~recovering => Has(lh[tail], disk[tail])
    BY ONLY <1>2, <1>p DEF Copied
  <2>2. ~recovering => bdata[b] = disk[tail]
    BY ONLY <1>2, <2>1 DEF Has
  <2> QED
    BY ONLY <1>4, <2>2
<1>5. Writes(p)'
  BY ONLY <1>2, <1>4, <1>p DEF Writes
<1>6. Phase(p)'
  <2>1. ~recovering' => \A k \in 1..Len(lh) : Copied(k)'
    BY ONLY <1>4, <1>c, <1>p DEF Copied, Has
  <2>2. \A k \in 1..(tail - 1) : Installed(k)'
    BY ONLY <1>4, <1>p DEF Installed
  <2>3. tail <= Len(lh) + 1
    BY <1>0, <1>1 DEF Phase, InstLabels
  <2> QED
    BY ONLY <1>4, <1>p, <2>1, <2>2, <2>3 DEF Phase, HeadLabels, CopyLabels
<1>7. Unseen
  <2>1. Unique'
    BY DEF IInv, CacheInv
  <2> QED
    BY ONLY <1>0, <1>4, <1>c, <2>1, DataSame
<1>8. RInv' /\ Active' = Active
  <2>1. /\ "inst_unpin" \in OpLabels <=> "inst_copy" \in OpLabels
        /\ "inst_unpin" \in Busy /\ "inst_copy" \in Busy
        /\ "inst_unpin" \in InstLabels <=> "inst_copy" \in InstLabels
    BY DEF OpLabels, Busy, CopyLabels, HeadLabels, InstLabels
  <2>2. /\ pc[p] # "log_write" /\ pc[p] \in Busy \union OpLabels
        /\ pc[p] # "inst_release" /\ "inst_unpin" # "inst_release"
        /\ "inst_unpin" \in OpLabels <=> pc[p] \in OpLabels
        /\ "inst_unpin" \in Busy <=> pc[p] \in Busy
        /\ "inst_unpin" \in InstLabels <=> pc[p] \in InstLabels
    BY ONLY <1>1, <2>1
  <2>3. b \in ToSet(held[p]) /\ Runs(p)
    BY ONLY <1>1, <1>2
  <2> QED
    BY ONLY RInv, IInv', ~panicked', p \in Procs, <1>3, <1>5, <1>6, <2>2, <2>3, PutData
<1> QED
  BY <1>7, <1>8

LEMMA HeadWriteData ==
  ASSUME RInv, IInv', ~panicked', NEW p \in Procs, HeadWrite(p)
  PROVE  RInv' /\ Unseen /\ Active' = Active
<1>1. Runs(p) /\ pc[p] = "head_write"
  BY DEF HeadWrite, At
<1>0. /\ CacheInv /\ TypeInv /\ Unique /\ Writes(p) /\ Phase(p) /\ io[p] = Run
      /\ Knows(pc[p], held[p], bblock, tail, lh, writes[p], recovering)
  BY <1>1, RRunning DEF CacheInv
<1> DEFINE b == Mine(p)
<1>2. /\ b \in ToSet(held[p]) /\ b \in Bufs /\ bblock[b] = header /\ holder[b] = p /\ valid[b]
  <2>1. Len(held[p]) = 1 /\ bblock[held[p][1]] = header
    BY <1>0, <1>1 DEF Knows
  <2>2. held[p] # <<>>
    <3>1. Len(<<>>) = 0
      OBVIOUS
    <3> QED
      BY ONLY <2>1, <3>1
  <2>3. b \in ToSet(held[p]) /\ b = held[p][1]
    BY <1>0, <2>1, <2>2, MineFacts
  <2> QED
    BY <1>0, <2>1, <2>3, Locked
<1>3. /\ bdata' = [bdata EXCEPT ![b] = lh] /\ pc' = [pc EXCEPT ![p] = "head_release"]
      /\ UNCHANGED <<disk, bblock, valid, held, lh, tail, recovering>>
      /\ io' = [io EXCEPT ![p] = [step |-> "start", buf |-> b, write |-> TRUE]]
  BY <1>2 DEF HeadWrite, PutAndWrite, Bwrite, Goto, logUnchanged
<1>t. /\ DOMAIN bdata = Bufs /\ DOMAIN io = Procs /\ DOMAIN pc = Procs
      /\ \A k \in 1..Len(lh) : lh[k] \in Home
      /\ header \notin Home
  BY <1>0, Types, BlockFacts DEF CacheInv, CacheTypeOK, BcacheTypeOK
<1> HIDE DEF b
<1>4. /\ bdata'[b] = lh /\ \A c \in Bufs \ {b} : bdata'[c] = bdata[c]
      /\ io'[p].write /\ io'[p].buf = b /\ io'[p].step = "start" /\ pc'[p] = "head_release"
      /\ disk' = disk /\ bblock' = bblock /\ valid' = valid /\ lh' = lh /\ tail' = tail /\ recovering' = recovering
  BY ONLY <1>2, <1>3, <1>t, p \in Procs
<1>c. \A c \in Bufs : bblock[c] \in Home => bdata'[c] = bdata[c]
  BY ONLY <1>2, <1>4, <1>t
<1>p. /\ lh # <<>> => /\ ~recovering /\ disk[header] = <<>>
                      /\ \A k \in 1..Len(lh) : Copied(k)
      /\ lh = <<>> => Erasable
  BY ONLY <1>0, <1>1 DEF Phase, HeadLabels
<1>5. Writes(p)'
  BY ONLY <1>2, <1>4, <1>p DEF Writes
<1>6. Phase(p)'
  <2>1. lh # <<>> => \A k \in 1..Len(lh) : Copied(k)'
    BY ONLY <1>4, <1>c, <1>p, <1>t DEF Copied, Has
  <2>2. lh = <<>> => Erasable'
    BY ONLY <1>4, <1>p DEF Erasable
  <2> QED
    BY ONLY <1>4, <1>p, <2>1, <2>2 DEF Phase, InstLabels, CopyLabels
<1>7. Unseen
  <2>1. Unique'
    BY DEF IInv, CacheInv
  <2> QED
    BY ONLY <1>0, <1>4, <1>c, <2>1, DataSame
<1>8. RInv' /\ Active' = Active
  <2>1. /\ "head_release" \in OpLabels <=> "head_write" \in OpLabels
        /\ "head_release" \in Busy /\ "head_write" \in Busy
        /\ "head_release" \in InstLabels <=> "head_write" \in InstLabels
    BY DEF OpLabels, Busy, CopyLabels, HeadLabels, InstLabels
  <2> QED
    BY <1>1, <1>2, <1>3, <1>5, <1>6, <2>1, PutData
<1> QED
  BY <1>7, <1>8

\* An operation writes a block.
Changes(p) ==
  /\ p \in Active /\ Recovered' = Recovered
  /\ \E b \in Home, v \in Values : Data' = [Data EXCEPT ![b] = v]

LEMMA OpModifyData ==
  ASSUME RInv, IInv', ~panicked', NEW p \in Procs, OpModify(p)
  PROVE  RInv' /\ Changes(p) /\ Active' = Active
<1>1. Runs(p) /\ pc[p] = "modify"
  BY DEF OpModify, At
<1>0. /\ CacheInv /\ TypeInv /\ Unique /\ Writes(p) /\ Phase(p) /\ io[p] = Run
      /\ Knows(pc[p], held[p], bblock, tail, lh, writes[p], recovering)
  BY <1>1, RRunning DEF CacheInv
<1>r. ~recovering
  <2>1. pc[p] \notin Busy /\ pc[p] # "idle"
    BY <1>1 DEF Busy, CopyLabels, HeadLabels, InstLabels
  <2> QED
    BY <1>1, <2>1, NotRecovering DEF RInv
<1> DEFINE b == Mine(p)
<1>2. /\ b \in ToSet(held[p]) /\ b \in Bufs /\ bblock[b] \in Home /\ valid[b]
  <2>1. Len(held[p]) = 1 /\ bblock[held[p][1]] \in Home
    BY <1>0, <1>1 DEF Knows
  <2>2. held[p] # <<>>
    <3>1. Len(<<>>) = 0
      OBVIOUS
    <3> QED
      BY ONLY <2>1, <3>1
  <2>3. b \in ToSet(held[p]) /\ b = held[p][1]
    BY <1>0, <2>1, <2>2, MineFacts
  <2> QED
    BY <1>0, <2>1, <2>3, Locked
<1>3. PICK v \in Values : bdata' = [bdata EXCEPT ![b] = v]
  BY DEF OpModify
<1>s. /\ pc' = [pc EXCEPT ![p] = "log_write"] /\ io' = io
      /\ UNCHANGED <<disk, bblock, valid, held, lh, tail, recovering>>
  BY DEF OpModify, Goto, cacheVars
<1>t. DOMAIN bdata = Bufs /\ DOMAIN pc = Procs
  BY <1>0, Types DEF CacheInv, CacheTypeOK, BcacheTypeOK
<1> HIDE DEF b
<1>4. /\ bdata'[b] = v /\ \A c \in Bufs \ {b} : bdata'[c] = bdata[c]
      /\ ~io'[p].write /\ io'[p].step = "run" /\ pc'[p] = "log_write"
      /\ disk' = disk /\ bblock' = bblock /\ valid' = valid /\ recovering' = recovering
  BY <1>0, <1>2, <1>3, <1>s, <1>t DEF Run
<1>5. Writes(p)' /\ Phase(p)'
  BY ONLY <1>4 DEF Writes, Phase, HeadLabels, CopyLabels, InstLabels
<1>7. Changes(p)
  <2>1. \A x \in Home : Sees(x) /\ Sees(x)'
    <3>1. Unique'
      BY DEF IInv, CacheInv
    <3> QED
      BY ONLY <1>0, <3>1, SeesBoth
  <2>2. Data'[bblock[b]] = v
    BY ONLY <1>2, <1>4, <1>r, <2>1 DEF Sees
  <2>3. ASSUME NEW x \in Home, x # bblock[b]
        PROVE  Data'[x] = Data[x]
    BY ONLY <1>2, <1>4, <1>r, <2>1, <2>3 DEF Sees
  <2>4. Data' = [Data EXCEPT ![bblock[b]] = v]
    <3>1. Data = [x \in Home |-> Data[x]] /\ Data' = [x \in Home |-> Data'[x]]
      BY DEF Data
    <3> QED
      BY ONLY <1>2, <2>2, <2>3, <3>1
  <2>5. Recovered' = Recovered
    BY <1>4, RecoveredSame
  <2>6. p \in Active
    BY <1>1 DEF Active, OpLabels
  <2> QED
    BY ONLY <1>2, <2>4, <2>5, <2>6, v \in Values DEF Changes
<1>8. RInv' /\ Active' = Active
  <2>1. /\ "log_write" \in OpLabels /\ "modify" \in OpLabels
        /\ "log_write" \in Busy <=> "modify" \in Busy
        /\ "log_write" \in InstLabels <=> "modify" \in InstLabels
    BY DEF OpLabels, Busy, CopyLabels, HeadLabels, InstLabels
  <2> QED
    BY <1>1, <1>2, <1>3, <1>s, <1>5, <2>1, PutData
<1> QED
  BY <1>7, <1>8

-----------------------------------------------------------------------------
(* Steps of a process that writes nothing *)

LEMMA LogWriteData ==
  ASSUME RInv, IInv', ~panicked', NEW p \in Procs, LogWrite(p)
  PROVE  RInv' /\ Unseen /\ Active' = Active
<1>1. Runs(p) /\ pc[p] = "log_write"
  BY DEF LogWrite, At
<1>0. /\ CacheInv /\ TypeInv /\ Unique /\ PinnedInv /\ QuietInv /\ io[p] = Run /\ ~io[p].write
      /\ Knows(pc[p], held[p], bblock, tail, lh, writes[p], recovering)
  BY <1>1, RRunning DEF CacheInv
<1>r. ~recovering
  <2>1. pc[p] \notin Busy /\ pc[p] # "idle"
    BY <1>1 DEF Busy, CopyLabels, HeadLabels, InstLabels
  <2> QED
    BY <1>1, <2>1, NotRecovering DEF RInv
<1> DEFINE b == Mine(p)
<1>2. b \in Bufs /\ valid[b] /\ bblock[b] \in Home /\ \A c \in ToSet(held[p]) : c = b
  <2>1. Len(held[p]) = 1 /\ bblock[held[p][1]] \in Home
    BY <1>0, <1>1 DEF Knows
  <2>2. held[p] # <<>>
    <3>1. Len(<<>>) = 0
      OBVIOUS
    <3> QED
      BY ONLY <2>1, <3>1
  <2>3. b \in ToSet(held[p]) /\ b = held[p][1]
    BY <1>0, <2>1, <2>2, MineFacts
  <2>4. \A c \in ToSet(held[p]) : c = held[p][1]
    BY <1>0, <2>1, CacheTypes DEF ToSet
  <2> QED
    BY <1>0, <2>1, <2>3, <2>4, Locked
<1>3. \/ lh' = lh /\ bblock[b] \in ToSet(lh)
      \/ lh' = Append(lh, bblock[b])
  BY DEF LogWrite
<1>u. /\ disk' = disk /\ bdata' = bdata /\ bblock' = bblock /\ valid' = valid /\ held' = held
      /\ io' = io /\ tail' = tail /\ recovering' = recovering
      /\ pc' = [pc EXCEPT ![p] = "release"]
  BY DEF LogWrite, diskVars, Goto
<1>p. pc'[p] = "release" /\ \A q \in Procs \ {p} : pc'[q] = pc[q]
  <2>1. pc \in [Procs -> PcLabels]
    BY <1>0, Types
  <2> QED
    BY ONLY <1>u, <2>1, p \in Procs
<1> HIDE DEF b
<1>4. /\ bblock[b] \in ToSet(lh')
      /\ \A x \in ToSet(lh) : x \in ToSet(lh')
      /\ \A x \in ToSet(lh') : x \in ToSet(lh) \/ x = bblock[b]
  <2>1. lh \in Seq(Home)
    BY <1>0, Types
  <2>2. ToSet(Append(lh, bblock[b])) = ToSet(lh) \union {bblock[b]}
    BY ONLY <1>2, <2>1, AppendFacts
  <2> QED
    BY ONLY <1>3, <2>2
<1>5. \A q \in Procs : pc[q] \notin Busy
  <2>1. pc[p] \in OpLabels /\ pc[p] \notin Busy
    BY <1>1 DEF OpLabels, Busy, CopyLabels, HeadLabels, InstLabels
  <2> QED
    BY ONLY RInv, p \in Procs, <2>1, Alone
<1>6. \A c \in Bufs : bblock'[c] \in Pinned' => valid'[c]
  <2>1. Pinned = {lh[k] : k \in 1..Len(lh)}
    BY <1>5, <1>r, AllPinned
  <2>2. \A x \in Pinned' : x \in ToSet(lh')
    <3>1. lh' \in Seq(Home)
      <4>1. TypeInv'
        BY DEF IInv
      <4> QED
        BY <4>1 DEF TypeInv, LogTypeOK
    <3>2. \A k \in 1..Len(lh') : lh'[k] \in ToSet(lh')
      BY ONLY <3>1 DEF ToSet
    <3> QED
      BY ONLY <3>2 DEF Pinned, PinnedSlots
  <2>3. \A x \in ToSet(lh) : x \in Pinned
    BY <1>0, <2>1, Types DEF ToSet
  <2>4. bblock[b] # NoBlock
    BY <1>2, BlockFacts
  <2> QED
    BY ONLY <1>0, <1>2, <1>4, <1>u, <2>2, <2>3, <2>4 DEF PinnedInv, Unique
<1>7. DataInv'
  <2>1. \A c \in Bufs :
           valid'[c] /\ (Logged(c) \/ (pc[p] = "log_write" /\ c \in ToSet(held[p])))
           => (~recovering' /\ bblock'[c] \in ToSet(lh')) \/ bdata[c] = disk[bblock[c]]
    BY ONLY <1>2, <1>4, <1>r, <1>u DEF Logged
  <2>2. Shrinks
    BY ONLY <1>u DEF Shrinks
  <2>3. \A q \in Procs \ {p} :
           /\ pc'[q] = pc[q] /\ io'[q] = io[q] /\ held'[q] = held[q]
           /\ io[q].buf \in Bufs => bblock'[io[q].buf] = bblock[io[q].buf]
    BY ONLY <1>p, <1>u
  <2>4. Writes(p)' /\ Phase(p)'
    BY ONLY <1>0, <1>u, <1>p DEF Writes, Phase, CopyLabels, HeadLabels, InstLabels
  <2>5. QuietInv'
    <3>1. pc[p] \notin Busy /\ pc'[p] \notin Busy
      BY ONLY <1>1, <1>p DEF Busy, CopyLabels, HeadLabels, InstLabels
    <3> QED
      BY ONLY <1>0, <1>u, <1>p, <3>1, QuietSame
  <2>6. ~io'[p].write /\ pc'[p] # "log_write" /\ \A q \in Procs \ {p} : pc[q] \notin Busy
    BY ONLY <1>0, <1>u, <1>p, <1>5
  <2> QED
    BY ONLY RInv, p \in Procs, <1>0, <1>6, <1>u, <2>1, <2>2, <2>3, <2>4, <2>5, <2>6, CalmStep
<1>8. Unseen
  <2>1. Unique'
    BY DEF IInv, CacheInv
  <2> QED
    BY ONLY <1>0, <1>u, <2>1, DataSame
<1>9. Active' = Active
  BY ONLY <1>1, <1>p DEF Active, OpLabels
<1> QED
  BY <1>7, <1>8, <1>9 DEF RInv, IInv, RunInv

\* A process gives up a buffer, or takes a step that touches none, and goes on
\* with the same transaction.
LEMMA CalmData ==
  ASSUME RInv, IInv', ~panicked', NEW p \in Procs, Runs(p),
         NEW l \in PcLabels, pc' = [pc EXCEPT ![p] = l],
         UNCHANGED <<disk, bdata, bblock, valid, io, lh, recovering>>,
         \A q \in Procs \ {p} : held'[q] = held[q],
         pc[p] \in Busy \/ tail' = tail,
         pc[p] # "log_write" /\ l # "log_write", \A x \in Pinned' : x \in Pinned,
         pc[p] \in Busy /\ l \notin Busy => disk[header] = <<>>,
         Writes(p)', Phase(p)'
  PROVE  RInv' /\ Unseen
<1>0. /\ CacheInv /\ TypeInv /\ Unique /\ PinnedInv /\ QuietInv /\ io[p] = Run /\ ~io[p].write
  BY RRunning DEF CacheInv
<1>u. /\ disk' = disk /\ bdata' = bdata /\ bblock' = bblock /\ valid' = valid
      /\ io' = io /\ recovering' = recovering /\ lh' = lh
  OBVIOUS
<1>p. pc'[p] = l /\ \A q \in Procs \ {p} : pc'[q] = pc[q]
  <2>1. pc \in [Procs -> PcLabels]
    BY <1>0, Types
  <2> QED
    BY ONLY pc' = [pc EXCEPT ![p] = l], <2>1, p \in Procs
<1>1. DataInv'
  <2>1. \A c \in Bufs :
           valid'[c] /\ (Logged(c) \/ (pc[p] = "log_write" /\ c \in ToSet(held[p])))
           => (~recovering' /\ bblock'[c] \in ToSet(lh')) \/ bdata[c] = disk[bblock[c]]
    BY ONLY <1>u, pc[p] # "log_write" /\ l # "log_write" DEF Logged
  <2>2. Shrinks
    BY ONLY <1>u DEF Shrinks
  <2>3. \A q \in Procs \ {p} :
           /\ pc'[q] = pc[q] /\ io'[q] = io[q] /\ held'[q] = held[q]
           /\ io[q].buf \in Bufs => bblock'[io[q].buf] = bblock[io[q].buf]
    BY ONLY <1>p, <1>u, \A q \in Procs \ {p} : held'[q] = held[q]
  <2>4. \A c \in Bufs : bblock'[c] \in Pinned' => valid'[c]
    BY ONLY <1>0, <1>u, \A x \in Pinned' : x \in Pinned DEF PinnedInv
  <2>5. QuietInv'
    BY ONLY <1>0, <1>u, <1>p, p \in Procs, pc[p] \in Busy /\ l \notin Busy => disk[header] = <<>>
       DEF QuietInv
  <2>6. ~io'[p].write /\ pc'[p] # "log_write"
    BY ONLY <1>0, <1>u, <1>p, pc[p] # "log_write" /\ l # "log_write"
  <2>7. \/ \A q \in Procs \ {p} : pc[q] \notin Busy
        \/ lh' = lh /\ tail' = tail /\ recovering' = recovering
    BY ONLY RInv, p \in Procs, <1>u, Alone, pc[p] \in Busy \/ tail' = tail
  <2> QED
    BY ONLY RInv, p \in Procs, Writes(p)', Phase(p)', <1>0, <1>u, <2>1, <2>2, <2>3, <2>4, <2>5, <2>6, <2>7, CalmStep
<1>2. Unseen
  <2>1. Unique'
    BY DEF IInv, CacheInv
  <2> QED
    BY ONLY <1>0, <1>u, <2>1, DataSame
<1> QED
  BY <1>1, <1>2 DEF RInv, IInv, RunInv

LEMMA OpBrelseData ==
  ASSUME RInv, IInv', ~panicked', NEW p \in Procs, OpBrelse(p) \/ ReadDone(p)
  PROVE  RInv' /\ Unseen /\ Active' = Active
<1> DEFINE l == IF pc[p] = "read" THEN "idle" ELSE "op"
<1>1. Runs(p) /\ pc[p] \in {"release", "read"} /\ pc' = [pc EXCEPT ![p] = l] /\ Brelse(p, Mine(p))
  BY DEF OpBrelse, ReadDone, At, Goto
<1>0. /\ CacheInv /\ TypeInv /\ ModeInv /\ io[p] = Run /\ pc \in [Procs -> PcLabels] /\ DOMAIN held = Procs
      /\ ~io[p].write
  BY <1>1, RRunning, Types DEF CacheInv, CacheTypeOK
<1>u. UNCHANGED <<disk, bdata, bblock, valid, io, lh, recovering, tail>>
  BY DEF OpBrelse, ReadDone, Brelse, diskVars
<1>h. \A q \in Procs \ {p} : held'[q] = held[q]
  BY ONLY <1>0, <1>1 DEF Brelse
<1>l. /\ l \in PcLabels /\ l # "log_write" /\ l \notin Busy /\ pc[p] \notin Busy
      /\ l \notin InstLabels /\ pc[p] \notin InstLabels
      /\ l \in OpLabels <=> pc[p] \in OpLabels
      /\ pc[p] # "log_write" /\ l \in {"idle", "op"}
  BY ONLY <1>1 DEF PcLabels, CallLabels, OpLabels, Busy, CopyLabels, HeadLabels, InstLabels
<1> HIDE DEF l
<1>p. pc'[p] = l /\ \A q \in Procs \ {p} : pc'[q] = pc[q]
  BY ONLY <1>0, <1>1, p \in Procs
<1>2. Pinned' = Pinned
  <2>1. \A k \in 1..Len(lh) : Unpinned(pc[p], tail, k) <=> Unpinned(l, tail', k)
    BY ONLY <1>l DEF Unpinned
  <2> QED
    BY ONLY <1>0, <1>1, <1>u, <1>l, <2>1, p \in Procs, PinnedMoves
<1>3. Writes(p)' /\ Phase(p)'
  BY ONLY <1>0, <1>u, <1>p, <1>l DEF Writes, Phase, CopyLabels, HeadLabels, InstLabels
<1>4. RInv' /\ Unseen
  BY ONLY RInv, IInv', ~panicked', p \in Procs, <1>1, <1>u, <1>h, <1>l, <1>2, <1>3, CalmData
<1>5. Active' = Active
  BY ONLY <1>p, <1>l DEF Active
<1> QED
  BY <1>4, <1>5

LEMMA PairReleaseData ==
  ASSUME RInv, IInv', ~panicked', NEW p \in Procs, LogRelease(p) \/ InstRelease(p)
  PROVE  RInv' /\ Unseen /\ Active' = Active
<1> DEFINE l == IF Len(held[p]) = 1 THEN (IF pc[p] = "log_release" THEN "log_to" ELSE "inst_log")
                ELSE pc[p]
           t == IF Len(held[p]) = 1 THEN tail + 1 ELSE tail
<1>1. Runs(p) /\ pc[p] \in {"log_release", "inst_release"} /\ \E b : Brelse(p, b)
  BY DEF LogRelease, InstRelease, At
<1>0. /\ CacheInv /\ TypeInv /\ ModeInv /\ io[p] = Run /\ pc \in [Procs -> PcLabels] /\ DOMAIN held = Procs
      /\ Writes(p) /\ Phase(p) /\ tail \in Nat \ {0} /\ Len(lh) \in Nat /\ ~io[p].write
  BY <1>1, RRunning, Types DEF CacheInv, CacheTypeOK
<1>2. pc' = [pc EXCEPT ![p] = l] /\ tail' = t
  <2>1. [pc EXCEPT ![p] = pc[p]] = pc
    BY <1>0
  <2> QED
    BY <1>1, <2>1 DEF LogRelease, InstRelease, At, Goto
<1>u. UNCHANGED <<disk, bdata, bblock, valid, io, lh, recovering>>
  BY DEF LogRelease, InstRelease, Brelse, diskVars, logUnchanged
<1>h. \A q \in Procs \ {p} : held'[q] = held[q]
  BY ONLY <1>0, <1>1 DEF Brelse
<1>l. /\ l \in PcLabels /\ l # "log_write" /\ l \in Busy /\ pc[p] \in Busy
      /\ l \notin OpLabels /\ pc[p] \notin OpLabels
      /\ pc[p] # "log_write"
  BY ONLY <1>1 DEF PcLabels, CallLabels, OpLabels, Busy, CopyLabels, HeadLabels, InstLabels
<1>c. \/ l = pc[p] /\ t = tail
      \/ pc[p] = "log_release" /\ l = "log_to" /\ t = tail + 1
      \/ pc[p] = "inst_release" /\ l = "inst_log" /\ t = tail + 1
  BY ONLY <1>1
<1> HIDE DEF l, t
<1>p. pc'[p] = l /\ \A q \in Procs \ {p} : pc'[q] = pc[q]
  BY ONLY <1>0, <1>2, p \in Procs
<1>3. Pinned' = Pinned
  <2>1. \A k \in 1..Len(lh) : Unpinned(pc[p], tail, k) <=> Unpinned(l, tail', k)
    BY ONLY <1>0, <1>2, <1>c DEF Unpinned, InstLabels
  <2> QED
    BY ONLY <1>0, <1>2, <1>u, <1>l, <2>1, p \in Procs, PinnedMoves
<1>k. /\ \A k : Copied(k)' <=> Copied(k)
      /\ \A k : Installed(k)' <=> Installed(k)
      /\ Erasable' <=> Erasable
  BY ONLY <1>u DEF Copied, Has, Installed, Erasable
<1>4. Writes(p)' /\ Phase(p)'
  <2>1. CASE l = pc[p] /\ t = tail
    BY ONLY <1>0, <1>2, <1>u, <1>k, <1>p, <2>1, <1>1 DEF Writes, Phase
  <2>2. CASE pc[p] = "log_release" /\ l = "log_to" /\ t = tail + 1
    <3>1. /\ tail <= Len(lh) /\ Copied(tail) /\ ~recovering /\ disk[header] = <<>>
          /\ \A k \in 1..(tail - 1) : Copied(k)
      BY ONLY <1>0, <2>2 DEF Writes, Phase, CopyLabels
    <3>2. \A k \in 1..(tail' - 1) : Copied(k)'
      BY ONLY <1>0, <1>2, <1>k, <2>2, <3>1
    <3>3. tail' <= Len(lh) + 1
      BY ONLY <1>0, <1>2, <2>2, <3>1
    <3>4. Writes(p)'
      BY ONLY <1>0, <1>u, <1>p, <2>2 DEF Writes
    <3> QED
      BY ONLY <1>u, <1>p, <2>2, <3>1, <3>2, <3>3, <3>4 DEF Phase, HeadLabels, InstLabels
  <2>3. CASE pc[p] = "inst_release" /\ l = "inst_log" /\ t = tail + 1
    <3>1. /\ tail <= Len(lh) /\ Installed(tail) /\ disk[header] = lh
          /\ \A k \in 1..(tail - 1) : Installed(k)
          /\ ~recovering => \A k \in 1..Len(lh) : Copied(k)
      BY ONLY <1>0, <2>3 DEF Writes, Phase, InstLabels
    <3>2. \A k \in 1..(tail' - 1) : Installed(k)'
      BY ONLY <1>0, <1>2, <1>k, <2>3, <3>1
    <3>3. tail' <= Len(lh) + 1
      BY ONLY <1>0, <1>2, <2>3, <3>1
    <3>4. Writes(p)'
      BY ONLY <1>0, <1>u, <1>p, <2>3 DEF Writes
    <3> QED
      BY ONLY <1>u, <1>k, <1>p, <2>3, <3>1, <3>2, <3>3, <3>4 DEF Phase, HeadLabels, CopyLabels
  <2> QED
    BY ONLY <1>c, <2>1, <2>2, <2>3
<1>5. RInv' /\ Unseen
  BY ONLY RInv, IInv', ~panicked', p \in Procs, <1>1, <1>2, <1>u, <1>h, <1>l, <1>3, <1>4, CalmData
<1>6. Active' = Active
  BY ONLY <1>p, <1>l DEF Active
<1> QED
  BY <1>5, <1>6

LEMMA HeadReleaseData ==
  ASSUME RInv, IInv', ~panicked', NEW p \in Procs, HeadRelease(p), lh # <<>> \/ ~recovering
  PROVE  RInv' /\ Unseen /\ Active' = Active
<1> DEFINE l == IF lh # <<>> THEN "inst_log" ELSE "finish"
<1>1. Runs(p) /\ pc[p] = "head_release" /\ pc' = [pc EXCEPT ![p] = l] /\ tail' = 1 /\ Brelse(p, Mine(p))
  BY DEF HeadRelease, At, Goto
<1>0. /\ CacheInv /\ TypeInv /\ ModeInv /\ io[p] = Run /\ pc \in [Procs -> PcLabels] /\ DOMAIN held = Procs
      /\ Writes(p) /\ Phase(p) /\ Len(lh) \in Nat /\ ~io[p].write /\ recovering \in BOOLEAN
  BY <1>1, RRunning, Types DEF CacheInv, CacheTypeOK
<1>2. ~recovering /\ disk[header] = lh /\ (lh # <<>> => \A k \in 1..Len(lh) : Copied(k))
  BY ONLY <1>0, <1>1, lh # <<>> \/ ~recovering DEF Writes, Phase, HeadLabels
<1>u. UNCHANGED <<disk, bdata, bblock, valid, io, lh, recovering>>
  BY <1>0, <1>2 DEF HeadRelease, Brelse, diskVars
<1>h. \A q \in Procs \ {p} : held'[q] = held[q]
  BY ONLY <1>0, <1>1 DEF Brelse
<1>l. /\ l \in PcLabels /\ l # "log_write" /\ l \in Busy /\ pc[p] \in Busy
      /\ l \notin OpLabels /\ pc[p] \notin OpLabels
      /\ pc[p] # "log_write"
  BY ONLY <1>1 DEF PcLabels, CallLabels, OpLabels, Busy, CopyLabels, HeadLabels, InstLabels
<1>c. (lh # <<>> /\ l = "inst_log") \/ (lh = <<>> /\ l = "finish")
  OBVIOUS
<1> HIDE DEF l
<1>p. pc'[p] = l /\ \A q \in Procs \ {p} : pc'[q] = pc[q]
  BY ONLY <1>0, <1>1, p \in Procs
<1>3. Pinned' = Pinned
  <2>1. \A k \in 1..Len(lh) : Unpinned(pc[p], tail, k) <=> Unpinned(l, tail', k)
    BY ONLY <1>0, <1>1, <1>c DEF Unpinned, InstLabels
  <2> QED
    BY ONLY <1>0, <1>1, <1>u, <1>l, <2>1, p \in Procs, PinnedMoves
<1>4. Writes(p)' /\ Phase(p)'
  <2>1. Writes(p)'
    BY ONLY <1>0, <1>u, <1>p, <1>c DEF Writes
  <2>2. \A k : Copied(k)' <=> Copied(k)
    BY ONLY <1>u DEF Copied, Has
  <2>3. 1..(tail' - 1) = {} /\ tail' <= Len(lh) + 1
    BY ONLY <1>0, <1>1
  <2>4. Phase(p)'
    BY ONLY <1>2, <1>u, <1>p, <1>c, <2>2, <2>3 DEF Phase, CopyLabels, HeadLabels, InstLabels
  <2> QED
    BY ONLY <2>1, <2>4
<1>5. RInv' /\ Unseen
  BY ONLY RInv, IInv', ~panicked', p \in Procs, <1>1, <1>u, <1>h, <1>l, <1>3, <1>4, CalmData
<1>6. Active' = Active
  BY ONLY <1>p, <1>l DEF Active
<1> QED
  BY <1>5, <1>6

\* commit() starts; the whole transaction is in the log.
LEMMA CommitStageData ==
  ASSUME RInv, IInv', ~panicked', NEW p \in Procs,
         CommitStart(p) \/ (LogTo(p) /\ ~(tail <= Len(lh)))
  PROVE  RInv' /\ Unseen /\ Active' = Active
<1> DEFINE l == IF pc[p] = "log_to" THEN "head_get" ELSE IF lh = <<>> THEN "finish" ELSE "log_to"
<1>1. Runs(p) /\ pc[p] \in {"commit", "log_to"} /\ pc' = [pc EXCEPT ![p] = l]
  BY DEF CommitStart, LogTo, At, Goto
<1>t. /\ pc[p] = "commit" => tail' = 1
      /\ pc[p] = "log_to" => tail' = tail /\ ~(tail <= Len(lh))
  BY DEF CommitStart, LogTo, At
<1>0. /\ CacheInv /\ TypeInv /\ ModeInv /\ io[p] = Run /\ pc \in [Procs -> PcLabels]
      /\ Writes(p) /\ Phase(p) /\ Len(lh) \in Nat /\ ~io[p].write /\ tail \in Nat \ {0}
      /\ Knows(pc[p], held[p], bblock, tail, lh, writes[p], recovering)
  BY <1>1, RRunning, Types DEF CacheInv
<1>2. ~recovering /\ disk[header] = <<>>
  BY ONLY <1>0, <1>1 DEF Knows, CopyLabels, Phase
<1>u. UNCHANGED <<disk, bdata, bblock, valid, io, lh, recovering, held>>
  BY DEF CommitStart, LogTo, diskVars, cacheVars, logUnchanged
<1>l. /\ l \in PcLabels /\ l # "log_write" /\ l \in Busy /\ pc[p] \in Busy
      /\ l \notin OpLabels /\ pc[p] \notin OpLabels
      /\ l \notin InstLabels /\ pc[p] \notin InstLabels
      /\ pc[p] # "log_write"
  BY ONLY <1>1 DEF PcLabels, CallLabels, OpLabels, Busy, CopyLabels, HeadLabels, InstLabels
<1>c. \/ pc[p] = "log_to" /\ l = "head_get"
      \/ pc[p] = "commit" /\ l \in {"finish", "log_to"}
  BY ONLY <1>1
<1> HIDE DEF l
<1>p. pc'[p] = l /\ \A q \in Procs \ {p} : pc'[q] = pc[q]
  BY ONLY <1>0, <1>1, p \in Procs
<1>3. Pinned' = Pinned
  <2>1. \A k \in 1..Len(lh) : Unpinned(pc[p], tail, k) <=> Unpinned(l, tail', k)
    BY ONLY <1>l DEF Unpinned
  <2> QED
    BY ONLY <1>0, <1>1, <1>u, <1>l, <2>1, p \in Procs, PinnedMoves
<1>4. Writes(p)' /\ Phase(p)'
  <2>1. Writes(p)'
    BY ONLY <1>0, <1>u, <1>p, <1>c DEF Writes
  <2>2. \A k : Copied(k)' <=> Copied(k)
    BY ONLY <1>u DEF Copied, Has
  <2>3. CASE pc[p] = "commit" /\ l \in {"finish", "log_to"}
    <3>1. 1..(tail' - 1) = {} /\ tail' <= Len(lh) + 1
      BY ONLY <1>0, <1>t, <2>3
    <3>2. l \in CopyLabels \/ l = "finish"
      BY ONLY <2>3 DEF CopyLabels
    <3> QED
      BY ONLY <1>2, <1>u, <1>p, <2>1, <2>3, <3>1, <3>2 DEF Phase, HeadLabels, InstLabels
  <2>4. CASE pc[p] = "log_to" /\ l = "head_get"
    <3>1. \A k \in 1..Len(lh) : Copied(k)
      <4>1. \A k \in 1..(tail - 1) : Copied(k)
        BY ONLY <1>0, <2>4 DEF Phase, CopyLabels
      <4> QED
        BY ONLY <1>0, <1>t, <2>4, <4>1
    <3>2. Erasable'
      <4>1. Len(<<>>) = 0
        OBVIOUS
      <4> QED
        BY ONLY <1>2, <1>u, <4>1 DEF Erasable
    <3> QED
      BY ONLY <1>2, <1>u, <1>p, <2>1, <2>2, <2>4, <3>1, <3>2 DEF Phase, CopyLabels, InstLabels
  <2> QED
    BY ONLY <1>c, <2>3, <2>4
<1>5. RInv' /\ Unseen
  BY ONLY RInv, IInv', ~panicked', p \in Procs, <1>1, <1>u, <1>l, <1>3, <1>4, CalmData
<1>6. Active' = Active
  BY ONLY <1>p, <1>l DEF Active
<1> QED
  BY <1>5, <1>6

LEMMA InstUnpinData ==
  ASSUME RInv, IInv', ~panicked', NEW p \in Procs, InstUnpin(p)
  PROVE  RInv' /\ Unseen /\ Active' = Active
<1>1. Runs(p) /\ pc[p] = "inst_unpin" /\ pc' = [pc EXCEPT ![p] = "inst_release"]
  BY DEF InstUnpin, At, Goto
<1>0. /\ CacheInv /\ TypeInv /\ ModeInv /\ io[p] = Run /\ pc \in [Procs -> PcLabels]
      /\ Writes(p) /\ Phase(p) /\ ~io[p].write
  BY <1>1, RRunning, Types DEF CacheInv
<1>u. UNCHANGED <<disk, bdata, bblock, valid, io, lh, recovering, held, tail>>
  BY DEF InstUnpin, diskVars, logUnchanged
<1>l. /\ "inst_release" \in PcLabels /\ "inst_release" # "log_write" /\ "inst_release" \in Busy /\ pc[p] \in Busy
      /\ "inst_release" \notin OpLabels /\ pc[p] \notin OpLabels
      /\ pc[p] # "log_write"
  BY ONLY <1>1 DEF PcLabels, CallLabels, OpLabels, Busy, CopyLabels, HeadLabels, InstLabels
<1>p. pc'[p] = "inst_release" /\ \A q \in Procs \ {p} : pc'[q] = pc[q]
  BY ONLY <1>0, <1>1, p \in Procs
<1>3. \A x \in Pinned' : x \in Pinned
  <2>1. \A k \in PinnedSlots' : k \in PinnedSlots
    <3>1. \A k \in 1..Len(lh) : \A q \in Procs : Unpinned(pc[q], tail, k) => Unpinned(pc'[q], tail', k)
      BY ONLY <1>1, <1>u, <1>p DEF Unpinned, InstLabels
    <3> QED
      BY ONLY <1>u, <3>1 DEF PinnedSlots
  <2> QED
    BY ONLY <1>u, <2>1 DEF Pinned
<1>4. Writes(p)' /\ Phase(p)'
  <2>1. tail <= Len(lh) /\ Installed(tail)
    BY ONLY <1>0, <1>1 DEF Writes
  <2>2. Writes(p)'
    BY ONLY <1>0, <1>u, <1>p, <2>1 DEF Writes, Installed
  <2>3. Phase(p)'
    BY ONLY <1>0, <1>1, <1>u, <1>p DEF Phase, CopyLabels, InstLabels, HeadLabels, Copied, Has, Installed
  <2> QED
    BY ONLY <2>2, <2>3
<1>5. RInv' /\ Unseen
  BY ONLY RInv, IInv', ~panicked', p \in Procs, <1>1, <1>u, <1>l, <1>3, <1>4, CalmData
<1>6. Active' = Active
  BY ONLY <1>p, <1>l DEF Active
<1> QED
  BY <1>5, <1>6

\* begin_op() and end_op(), and the end of commit(): a process enters an
\* operation, leaves it, or does neither.
LEMMA OperationData ==
  ASSUME RInv, IInv', ~panicked', NEW p \in Procs,
         BeginCall(p) \/ BeginSleep(p) \/ BeginOp(p) \/ EndOp(p) \/ CommitDone(p)
  PROVE  /\ RInv' /\ Unseen
         /\ Active' = IF BeginOp(p) THEN Active \union {p} ELSE Active \ {p}
         /\ BeginOp(p) <=> pc[p] = "begin" /\ pc'[p] = "op"
         /\ BeginOp(p) => p \notin Active
<1> DEFINE l == pc'[p]
<1>1. /\ Runs(p)
      /\ \/ pc[p] = "idle" /\ pc' = [pc EXCEPT ![p] = "begin"] /\ ~BeginOp(p)
         \/ pc[p] = "begin" /\ pc' = pc /\ ~BeginOp(p)
         \/ pc[p] = "begin" /\ pc' = [pc EXCEPT ![p] = "op"] /\ BeginOp(p)
         \/ pc[p] = "op" /\ pc' \in {[pc EXCEPT ![p] = "idle"], [pc EXCEPT ![p] = "commit"]} /\ ~BeginOp(p)
         \/ pc[p] = "finish" /\ pc' = [pc EXCEPT ![p] = "idle"] /\ ~BeginOp(p)
  <2>1. BeginSleep(p) => ~BeginOp(p)
    BY DEF BeginSleep, BeginOp
  <2>2. ~BeginSleep(p) => (BeginOp(p) <=> pc[p] = "begin")
    BY DEF BeginCall, BeginSleep, BeginOp, EndOp, CommitDone, At
  <2> QED
    BY <2>1, <2>2 DEF BeginCall, BeginSleep, BeginOp, EndOp, CommitDone, At, Goto
<1>0. /\ CacheInv /\ TypeInv /\ ModeInv /\ QuietInv /\ io[p] = Run /\ pc \in [Procs -> PcLabels]
      /\ Writes(p) /\ Phase(p) /\ ~io[p].write
  BY <1>1, RRunning, Types DEF CacheInv
<1>u. UNCHANGED <<disk, bdata, bblock, valid, io, lh, recovering, held, tail>>
  BY DEF BeginCall, BeginSleep, BeginOp, EndOp, CommitDone, diskVars, cacheVars
<1>c. /\ \/ pc[p] = "idle" /\ l = "begin" /\ ~BeginOp(p)
         \/ pc[p] = "begin" /\ l = "begin" /\ ~BeginOp(p)
         \/ pc[p] = "begin" /\ l = "op" /\ BeginOp(p)
         \/ pc[p] = "op" /\ l \in {"idle", "commit"} /\ ~BeginOp(p)
         \/ pc[p] = "finish" /\ l = "idle" /\ ~BeginOp(p)
      /\ pc' = [pc EXCEPT ![p] = l]
  <2>1. [pc EXCEPT ![p] = pc[p]] = pc
    BY <1>0
  <2> QED
    BY ONLY <1>0, <1>1, <2>1, p \in Procs
<1> HIDE DEF l
<1>p. pc'[p] = l /\ \A q \in Procs \ {p} : pc'[q] = pc[q]
  BY <1>0, <1>c DEF l
<1>l. /\ l \in PcLabels /\ l # "log_write" /\ pc[p] # "log_write"
      /\ l \notin InstLabels /\ pc[p] \notin InstLabels
      /\ pc[p] \in Busy => pc[p] = "finish"
      /\ l \in Busy => l = "commit"
      /\ pc[p] \in OpLabels <=> pc[p] = "op"
      /\ l \in OpLabels <=> l = "op"
  BY ONLY <1>c DEF PcLabels, CallLabels, OpLabels, Busy, CopyLabels, HeadLabels, InstLabels
<1>3. Pinned' = Pinned
  <2>1. \A q \in Procs : \A k \in 1..Len(lh) : Unpinned(pc'[q], tail', k) <=> Unpinned(pc[q], tail, k)
    BY ONLY <1>p, <1>l, <1>u DEF Unpinned
  <2> QED
    BY ONLY <1>u, <2>1, PinnedSame
<1>4. l = "commit" \/ pc[p] = "finish" => disk[header] = <<>>
  <2>1. pc[p] = "finish" => disk[header] = <<>>
    BY ONLY <1>0 DEF Phase
  <2>2. ASSUME pc[p] = "op"
        PROVE  disk[header] = <<>>
    <3>1. \A q \in Procs : pc[q] \notin Busy
      <4>1. pc[p] \in OpLabels /\ pc[p] \notin Busy
        BY ONLY <2>2, <1>l
      <4> QED
        BY ONLY RInv, p \in Procs, <4>1, Alone
    <3> QED
      BY ONLY <1>0, <3>1 DEF QuietInv
  <2> QED
    BY ONLY <1>c, <2>1, <2>2
<1>5. Writes(p)' /\ Phase(p)'
  <2>1. Writes(p)'
    BY ONLY <1>0, <1>u, <1>p, <1>c DEF Writes
  <2>2. Phase(p)'
    BY ONLY <1>u, <1>p, <1>c, <1>4 DEF Phase, CopyLabels, HeadLabels, InstLabels
  <2> QED
    BY ONLY <2>1, <2>2
<1>6. RInv' /\ Unseen
  <2>1. Runs(p)
    BY <1>1
  <2>2. \A x \in Pinned' : x \in Pinned
    BY <1>3
  <2>3. pc[p] \in Busy /\ l \notin Busy => disk[header] = <<>>
    BY ONLY <1>l, <1>4
  <2> QED
    BY ONLY RInv, IInv', ~panicked', p \in Procs, <1>c, <1>u, <1>l, <1>5, <2>1, <2>2, <2>3, CalmData
<1>7. Active' = IF BeginOp(p) THEN Active \union {p} ELSE Active \ {p}
  <2>1. p \in Active' <=> BeginOp(p)
    BY ONLY <1>p, <1>c, <1>l, p \in Procs DEF Active
  <2>2. \A q \in Procs \ {p} : q \in Active' <=> q \in Active
    BY ONLY <1>p DEF Active
  <2>3. Active \subseteq Procs /\ Active' \subseteq Procs
    BY DEF Active
  <2> QED
    BY ONLY <2>1, <2>2, <2>3, p \in Procs
<1>8. BeginOp(p) => p \notin Active
  BY ONLY <1>c, <1>l DEF Active
<1> QED
  BY <1>c, <1>p, <1>6, <1>7, <1>8

\* The transaction is installed: every buffer with one of its blocks has what
\* the disk has.
LEMMA InstalledData ==
  ASSUME RInv, IInv', ~panicked', NEW p \in Procs, InstLog(p), ~(tail <= Len(lh))
  PROVE  RInv' /\ Unseen /\ Active' = Active
<1>1. Runs(p) /\ pc[p] = "inst_log" /\ pc' = [pc EXCEPT ![p] = "head_get"] /\ lh' = <<>>
  BY DEF InstLog, At, Goto
<1>0. /\ CacheInv /\ TypeInv /\ Unique /\ io[p] = Run /\ pc \in [Procs -> PcLabels]
      /\ Writes(p) /\ Phase(p) /\ Len(lh) \in Nat /\ ~io[p].write /\ tail \in Nat \ {0}
      /\ lh \in Seq(Home)
  BY <1>1, RRunning, Types DEF CacheInv
<1>u. /\ disk' = disk /\ bdata' = bdata /\ bblock' = bblock /\ valid' = valid /\ held' = held
      /\ io' = io /\ recovering' = recovering
  BY DEF InstLog, diskVars, cacheVars
<1>p. pc'[p] = "head_get" /\ \A q \in Procs \ {p} : pc'[q] = pc[q]
  BY ONLY <1>0, <1>1, p \in Procs
<1>2. /\ disk[header] = lh /\ \A k \in 1..Len(lh) : Installed(k)
      /\ ~recovering => \A k \in 1..Len(lh) : Copied(k)
  <2>1. \A k \in 1..Len(lh) : k \in 1..(tail - 1)
    BY ONLY <1>0, ~(tail <= Len(lh))
  <2> QED
    BY ONLY <1>0, <1>1, <2>1 DEF Phase, InstLabels
<1>b. pc[p] \in Busy /\ pc'[p] \in Busy /\ pc[p] \notin OpLabels /\ pc'[p] \notin OpLabels
  BY ONLY <1>1, <1>p DEF Busy, CopyLabels, HeadLabels, InstLabels, OpLabels
<1>3. DataInv'
  <2>1. ASSUME NEW c \in Bufs, valid'[c], Logged(c)
        PROVE  bdata[c] = disk[bblock[c]]
    <3>1. PICK k \in 1..Len(lh) : lh[k] = bblock[c]
      BY ONLY <1>0, <2>1 DEF Logged, ToSet
    <3> QED
      BY ONLY <1>u, <1>2, <2>1, <3>1 DEF Logged, Installed, Copied, Has
  <2>2. \A c \in Bufs :
           valid'[c] /\ (Logged(c) \/ (pc[p] = "log_write" /\ c \in ToSet(held[p])))
           => (~recovering' /\ bblock'[c] \in ToSet(lh')) \/ bdata[c] = disk[bblock[c]]
    BY ONLY <1>1, <2>1
  <2>3. Shrinks
    BY ONLY <1>u DEF Shrinks
  <2>4. \A q \in Procs \ {p} :
           /\ pc'[q] = pc[q] /\ io'[q] = io[q] /\ held'[q] = held[q]
           /\ io[q].buf \in Bufs => bblock'[io[q].buf] = bblock[io[q].buf]
    BY ONLY <1>p, <1>u
  <2>5. \A c \in Bufs : bblock'[c] \in Pinned' => valid'[c]
    <3>1. (lh = <<>> => Pinned = {})'
      BY EmptyPinned, PTL
    <3> QED
      BY ONLY <1>1, <3>1
  <2>6. Writes(p)' /\ Phase(p)'
    <3>1. Erasable'
      BY ONLY <1>u, <1>2 DEF Erasable, Installed
    <3> QED
      BY ONLY <1>0, <1>1, <1>u, <1>p, <3>1 DEF Writes, Phase, CopyLabels, HeadLabels, InstLabels
  <2>7. QuietInv'
    BY ONLY <1>b, p \in Procs DEF QuietInv
  <2>8. ~io'[p].write /\ pc'[p] # "log_write" /\ \A q \in Procs \ {p} : pc[q] \notin Busy
    BY ONLY RInv, p \in Procs, Alone, <1>0, <1>u, <1>p, <1>b
  <2> QED
    BY ONLY RInv, p \in Procs, <1>0, <1>u, <2>2, <2>3, <2>4, <2>5, <2>6, <2>7, <2>8, CalmStep
<1>4. Unseen
  <2>1. Unique'
    BY DEF IInv, CacheInv
  <2> QED
    BY ONLY <1>0, <1>u, <2>1, DataSame
<1>5. Active' = Active
  BY ONLY <1>p, <1>b DEF Active
<1> QED
  BY <1>3, <1>4, <1>5 DEF RInv, IInv, RunInv

\* Recovery reads the header.
LEMMA HeadLoadData ==
  ASSUME RInv, IInv', ~panicked', NEW p \in Procs, HeadLoad(p)
  PROVE  RInv' /\ Unseen /\ Active' = Active
<1> DEFINE b == Mine(p)
<1>1. /\ Runs(p) /\ pc[p] = "head_load" /\ pc' = [pc EXCEPT ![p] = "inst_log"]
      /\ lh' = bdata[b] /\ tail' = 1 /\ Brelse(p, b)
  BY DEF HeadLoad, At, Goto
<1>0. /\ CacheInv /\ TypeInv /\ Unique /\ ModeInv /\ CoherentInv /\ io[p] = Run /\ pc \in [Procs -> PcLabels]
      /\ ~io[p].write /\ DOMAIN held = Procs
      /\ Knows(pc[p], held[p], bblock, tail, lh, writes[p], recovering)
  BY <1>1, RRunning, Types DEF CacheInv, CacheTypeOK
<1>u. /\ disk' = disk /\ bdata' = bdata /\ bblock' = bblock /\ valid' = valid
      /\ io' = io /\ recovering' = recovering
  BY DEF HeadLoad, Brelse, diskVars
<1>h. \A q \in Procs \ {p} : held'[q] = held[q]
  BY ONLY <1>0, <1>1 DEF Brelse
<1>p. pc'[p] = "inst_log" /\ \A q \in Procs \ {p} : pc'[q] = pc[q]
  BY ONLY <1>0, <1>1, p \in Procs
<1>b. pc[p] \in Busy /\ pc'[p] \in Busy /\ pc[p] \notin OpLabels /\ pc'[p] \notin OpLabels
  BY ONLY <1>1, <1>p DEF Busy, CopyLabels, HeadLabels, InstLabels, OpLabels
<1>r. recovering
  BY ONLY <1>0, <1>1 DEF Knows
<1>a. \A q \in Procs \ {p} : pc[q] \notin Busy
  BY ONLY RInv, p \in Procs, Alone, <1>b
<1>2. b \in ToSet(held[p]) /\ b \in Bufs /\ valid[b] /\ bblock[b] = header
  <2>1. Len(held[p]) = 1 /\ bblock[held[p][1]] = header
    BY <1>0, <1>1 DEF Knows
  <2>2. held[p] # <<>>
    <3>1. Len(<<>>) = 0
      OBVIOUS
    <3> QED
      BY ONLY <2>1, <3>1
  <2>3. b \in ToSet(held[p]) /\ b = held[p][1]
    BY <1>0, <2>1, <2>2, MineFacts
  <2> QED
    BY <1>0, <2>1, <2>3, Locked
<1>3. lh' = disk[header]
  <2>1. ~Modified(b)
    <3>1. \A q \in Procs : pc[q] # "log_write"
      <4>1. Boot = p
        BY <1>0, <1>1, <1>r, RecoveringBoot
      <4> QED
        BY ONLY <1>0, <1>1, <1>r, <4>1 DEF ModeInv
    <3> QED
      BY ONLY <3>1 DEF Modified
  <2>2. ~Writing(b)
    <3> SUFFICES ASSUME NEW q \in Procs, io[q].write, io[q].buf = b
                 PROVE  FALSE
      BY DEF Writing
    <3> QED
      BY <1>0, <1>2, Locked, WriteValid
  <2>3. ~Logged(b)
    BY ONLY <1>r DEF Logged
  <2> QED
    BY ONLY <1>0, <1>1, <1>2, <2>1, <2>2, <2>3 DEF CoherentInv
<1>4. DataInv'
  <2>2. \A c \in Bufs :
           valid'[c] /\ (Logged(c) \/ (pc[p] = "log_write" /\ c \in ToSet(held[p])))
           => (~recovering' /\ bblock'[c] \in ToSet(lh')) \/ bdata[c] = disk[bblock[c]]
    BY ONLY <1>1, <1>r DEF Logged
  <2>3. Shrinks
    BY ONLY <1>u DEF Shrinks
  <2>4. \A q \in Procs \ {p} :
           /\ pc'[q] = pc[q] /\ io'[q] = io[q] /\ held'[q] = held[q]
           /\ io[q].buf \in Bufs => bblock'[io[q].buf] = bblock[io[q].buf]
    BY ONLY <1>p, <1>u, <1>h
  <2>5. \A c \in Bufs : bblock'[c] \in Pinned' => valid'[c]
    BY ONLY <1>u, <1>r DEF Pinned, PinnedSlots
  <2>6. Writes(p)' /\ Phase(p)'
    <3>1. 1..(tail' - 1) = {} /\ tail' <= Len(lh') + 1
      <4>1. Len(lh') \in Nat
        <5>1. TypeInv'
          BY DEF IInv
        <5>2. lh' \in Seq(Home)
          BY ONLY <5>1 DEF TypeInv, LogTypeOK
        <5> QED
          BY ONLY <5>2
      <4> QED
        BY ONLY <1>1, <4>1
    <3> QED
      BY ONLY <1>0, <1>3, <1>u, <1>p, <1>r, <3>1 DEF Writes, Phase, CopyLabels, HeadLabels, InstLabels
  <2>7. QuietInv'
    BY ONLY <1>b, p \in Procs DEF QuietInv
  <2>8. ~io'[p].write /\ pc'[p] # "log_write"
    BY ONLY <1>0, <1>u, <1>p
  <2> QED
    BY ONLY RInv, p \in Procs, <1>0, <1>a, <1>u, <2>2, <2>3, <2>4, <2>5, <2>6, <2>7, <2>8, CalmStep
<1>5. Unseen
  <2>1. Unique'
    BY DEF IInv, CacheInv
  <2> QED
    BY ONLY <1>0, <1>u, <2>1, DataSame
<1>6. Active' = Active
  BY ONLY <1>p, <1>b DEF Active
<1> QED
  BY <1>4, <1>5, <1>6 DEF RInv, IInv, RunInv

\* Recovery is over: what the log held is in its place, and the system sees
\* what it would see after one more crash.
LEMMA BootedData ==
  ASSUME RInv, IInv', ~panicked', NEW p \in Procs, HeadRelease(p), lh = <<>>, recovering
  PROVE  RInv' /\ Unseen /\ Active' = Active
<1>1. /\ Runs(p) /\ pc[p] = "head_release" /\ pc' = [pc EXCEPT ![p] = "idle"]
      /\ Brelse(p, Mine(p)) /\ lh' = lh /\ ~recovering'
  BY DEF HeadRelease, At, Goto
<1>0. /\ CacheInv /\ TypeInv /\ Unique /\ ModeInv /\ StageInv /\ CoherentInv /\ io[p] = Run
      /\ pc \in [Procs -> PcLabels] /\ ~io[p].write /\ DOMAIN held = Procs /\ Writes(p)
  BY <1>1, RRunning, Types DEF CacheInv, CacheTypeOK
<1>u. /\ disk' = disk /\ bdata' = bdata /\ bblock' = bblock /\ valid' = valid /\ io' = io
  BY DEF HeadRelease, Brelse, diskVars
<1>h. \A q \in Procs \ {p} : held'[q] = held[q]
  BY ONLY <1>0, <1>1 DEF Brelse
<1>p. pc'[p] = "idle" /\ \A q \in Procs \ {p} : pc'[q] = pc[q]
  BY ONLY <1>0, <1>1, p \in Procs
<1>b. pc[p] \in Busy /\ pc'[p] \notin Busy /\ pc[p] \notin OpLabels /\ pc'[p] \notin OpLabels
  BY ONLY <1>1, <1>p DEF Busy, CopyLabels, HeadLabels, InstLabels, OpLabels
<1>a. \A q \in Procs \ {p} : pc[q] \notin Busy
  BY ONLY RInv, p \in Procs, Alone, <1>b
<1>2. disk[header] = <<>>
  BY ONLY <1>0, <1>1, lh = <<>> DEF Writes
<1>3. \A c \in Bufs : valid[c] => bdata[c] = disk[bblock[c]]
  <2> SUFFICES ASSUME NEW c \in Bufs
               PROVE  ~Modified(c) /\ ~Writing(c) /\ ~Logged(c)
    BY <1>0 DEF CoherentInv
  <2>1. ~Modified(c)
    <3>1. \A q \in Procs : pc[q] # "log_write"
      <4>1. Boot = p
        BY <1>0, <1>1, RecoveringBoot
      <4> QED
        BY ONLY <1>0, <1>1, recovering, <4>1 DEF ModeInv
    <3> QED
      BY ONLY <3>1 DEF Modified
  <2>2. ~Writing(c)
    <3> SUFFICES ASSUME NEW q \in Procs, io[q].write
                 PROVE  FALSE
      BY DEF Writing
    <3>1. Writes(q)
      BY ONLY <1>0, q \in Procs DEF StageInv
    <3>2. pc[q] \in Busy
      BY ONLY <3>1, io[q].write DEF Writes, Busy, CopyLabels, HeadLabels, InstLabels
    <3> QED
      BY ONLY <1>0, <1>a, <3>2, q \in Procs, io[q].write
  <2> QED
    BY ONLY recovering, <2>1, <2>2 DEF Logged
<1>4. DataInv'
  <2>2. \A c \in Bufs :
           valid'[c] /\ (Logged(c) \/ (pc[p] = "log_write" /\ c \in ToSet(held[p])))
           => (~recovering' /\ bblock'[c] \in ToSet(lh')) \/ bdata[c] = disk[bblock[c]]
    BY ONLY <1>u, <1>3
  <2>3. Shrinks
    BY ONLY <1>u DEF Shrinks
  <2>4. \A q \in Procs \ {p} :
           /\ pc'[q] = pc[q] /\ io'[q] = io[q] /\ held'[q] = held[q]
           /\ io[q].buf \in Bufs => bblock'[io[q].buf] = bblock[io[q].buf]
    BY ONLY <1>p, <1>u, <1>h
  <2>5. \A c \in Bufs : bblock'[c] \in Pinned' => valid'[c]
    <3>1. (lh = <<>> => Pinned = {})'
      BY EmptyPinned, PTL
    <3> QED
      BY ONLY <1>1, lh = <<>>, <3>1
  <2>6. Writes(p)' /\ Phase(p)'
    BY ONLY <1>0, <1>u, <1>p DEF Writes, Phase, CopyLabels, HeadLabels, InstLabels
  <2>7. QuietInv'
    BY ONLY <1>u, <1>2 DEF QuietInv
  <2>8. ~io'[p].write /\ pc'[p] # "log_write"
    BY ONLY <1>0, <1>u, <1>p
  <2> QED
    BY ONLY RInv, p \in Procs, <1>0, <1>a, <1>u, <2>2, <2>3, <2>4, <2>5, <2>6, <2>7, <2>8, CalmStep
<1>5. Unseen
  <2>1. Recovered' = Recovered
    BY <1>u, RecoveredSame
  <2>2. \A x \in Home : Sees(x) /\ Sees(x)'
    <3>1. Unique'
      BY DEF IInv, CacheInv
    <3> QED
      BY ONLY <1>0, <3>1, SeesBoth
  <2>3. \A x \in Home : Recovered[x] = disk[x]
    BY ONLY <1>2, RecoveredEmpty
  <2>4. \A x \in Home : Data'[x] = Data[x]
    BY ONLY <1>u, <1>1, <1>3, <2>2, <2>3, recovering DEF Sees
  <2> QED
    BY ONLY <2>1, <2>4 DEF Unseen, Data
<1>6. Active' = Active
  BY ONLY <1>p, <1>b DEF Active
<1> QED
  BY <1>4, <1>5, <1>6 DEF RInv, IInv, RunInv

-----------------------------------------------------------------------------
(* Every step *)

\* What a step is to whoever sees the blocks only, and who is in an operation.
AbsStep ==
  \/ Unseen /\ Active' = Active
  \/ Unseen /\ \E p \in Procs : p \notin Active /\ Active' = Active \union {p}
  \/ Unseen /\ \E p \in Procs : Active' = Active \ {p}
  \/ Active' = Active /\ \E p \in Procs : Changes(p)
  \/ Active' = Active /\ Commits
  \/ Data' = Recovered /\ Recovered' = Recovered /\ Active' = {}

\* The memory when the kernel starts: recovery has everything to do.
Started ==
  /\ recovering /\ ~panicked
  /\ \A c \in Bufs : ~valid[c]
  /\ \A p \in Procs : io[p] = Run
  /\ pc = [p \in Procs |-> IF p = Boot THEN "head_read" ELSE "idle"]

LEMMA StartedData == Started /\ IInv => RInv /\ Data = Recovered /\ Active = {}
<1> SUFFICES ASSUME Started, IInv
             PROVE  RInv /\ Data = Recovered /\ Active = {}
  OBVIOUS
<1>0. /\ recovering /\ ~panicked /\ (\A c \in Bufs : ~valid[c]) /\ (\A p \in Procs : ~io[p].write /\ io[p].step = "run")
      /\ \A p \in Procs : pc[p] = IF p = Boot THEN "head_read" ELSE "idle"
  BY DEF Started, Run
<1>1. ModeInv /\ RefInv
  BY <1>0 DEF IInv, RunInv
<1>2. CoherentInv /\ ValidInv
  BY ONLY <1>0 DEF CoherentInv, ValidInv
<1>3. PinnedInv
  BY ONLY <1>0 DEF PinnedInv, Pinned, PinnedSlots
<1>4. StageInv
  BY ONLY <1>0 DEF StageInv, Writes, Phase, CopyLabels, HeadLabels, InstLabels
<1>5. QuietInv
  <2>1. Boot \in Procs
    BY BlockFacts
  <2> QED
    BY ONLY <1>0, <2>1 DEF QuietInv, Busy
<1>6. Data = Recovered
  <2>1. \A x \in Home : Data[x] = Recovered[x]
    BY <1>0 DEF Data
  <2> QED
    BY ONLY <2>1 DEF Data, Recovered
<1>7. Active = {}
  BY ONLY <1>0 DEF Active, OpLabels
<1> QED
  BY <1>1, <1>2, <1>3, <1>4, <1>5, <1>6, <1>7 DEF RInv, DataInv

LEMMA CrashData ==
  ASSUME RInv, IInv', Crash
  PROVE  RInv' /\ AbsStep
<1>1. (Started /\ IInv => RInv /\ Data = Recovered /\ Active = {})'
  BY StartedData, PTL
<1>2. Started'
  BY DEF Crash, Started
<1>3. Recovered' = Recovered
  <2>1. disk' = disk
    BY DEF Crash
  <2> QED
    BY <2>1, RecoveredSame
<1> QED
  BY ONLY <1>1, <1>2, <1>3, IInv' DEF AbsStep

LEMMA StutterData ==
  ASSUME RInv, UNCHANGED vars
  PROVE  RInv' /\ AbsStep
<1>0. ModeInv /\ RefInv /\ IInv
  BY DEF RInv
<1>u. /\ UNCHANGED <<disk, bdata, bblock, valid, held, logVars>> /\ io' = io
      /\ UNCHANGED <<held, bblock, refcnt, logVars>>
  BY DEF vars, diskVars, cacheVars
<1>1. ModeInv' /\ RefInv' /\ Pinned' = Pinned
  BY ONLY <1>0, <1>u, ModeRefFrame
<1>2. DataInv' /\ Unseen
  BY ONLY RInv, <1>u, <1>1, IoFrame
<1>3. IInv'
  BY <1>0, StutterKeeps
<1>4. Active' = Active
  BY ONLY <1>u DEF Active, logVars
<1> QED
  BY ONLY <1>1, <1>2, <1>3, <1>4 DEF RInv, AbsStep

LEMMA OpStepData ==
  ASSUME RInv, IInv', NEW p \in Procs, Runs(p), OpStep(p)
  PROVE  RInv' /\ AbsStep
<1>0. IInv /\ ~panicked
  BY DEF RInv, Runs
<1>1. CASE BeginCall(p) \/ BeginSleep(p) \/ BeginOp(p) \/ EndOp(p)
  <2>1. ~panicked'
    <3>1. CASE EndOp(p)
      BY <1>0, <3>1, EndOpKeeps
    <3>2. CASE BeginCall(p) \/ BeginSleep(p) \/ BeginOp(p)
      BY <1>0, <3>2 DEF BeginCall, BeginSleep, BeginOp, cacheVars
    <3> QED
      BY <1>1, <3>1, <3>2
  <2> QED
    BY <1>1, <2>1, OperationData DEF AbsStep
<1>2. CASE OpBread(p) \/ ReadBlock(p)
  BY <1>2, BreadStepsData DEF AbsStep
<1>3. CASE OpModify(p)
  BY <1>0, <1>3, OpModifyKeeps, OpModifyData DEF AbsStep
<1>4. CASE LogWrite(p)
  BY <1>0, <1>4, LogWriteKeeps, LogWriteData DEF AbsStep
<1>5. CASE OpBrelse(p) \/ ReadDone(p)
  BY <1>0, <1>5, OpBrelseKeeps, OpBrelseData DEF AbsStep
<1> QED
  BY <1>1, <1>2, <1>3, <1>4, <1>5 DEF OpStep

LEMMA CommitStepData ==
  ASSUME RInv, IInv', NEW p \in Procs, Runs(p), CommitStep(p)
  PROVE  RInv' /\ AbsStep
<1>0. IInv /\ ~panicked
  BY DEF RInv, Runs
<1>1. CASE CommitStart(p) \/ ((LogTo(p) \/ InstLog(p)) /\ ~(tail <= Len(lh)))
  <2>1. ~panicked'
    BY <1>0, <1>1 DEF CommitStart, LogTo, InstLog, cacheVars
  <2> QED
    BY <1>1, <2>1, CommitStageData, InstalledData DEF AbsStep
<1>2. CASE LogFrom(p) \/ HeadGet(p) \/ InstHome(p) \/ HeadRead(p) \/ ((LogTo(p) \/ InstLog(p)) /\ tail <= Len(lh))
  BY <1>2, BreadStepsData DEF AbsStep
<1>3. CASE LogCopy(p) \/ InstCopy(p)
  BY <1>0, <1>3, CopyKeeps, LogCopyData, InstCopyData DEF AbsStep
<1>4. CASE LogRelease(p) \/ InstRelease(p)
  BY <1>0, <1>4, PairReleaseKeeps, PairReleaseData DEF AbsStep
<1>5. CASE HeadWrite(p)
  BY <1>0, <1>5, HeadWriteKeeps, HeadWriteData DEF AbsStep
<1>6. CASE HeadRelease(p)
  <2>1. ~panicked'
    BY <1>0, <1>6, HeadReleaseBoots, HeadReleaseCommits
  <2> QED
    BY <1>6, <2>1, HeadReleaseData, BootedData DEF AbsStep
<1>7. CASE HeadLoad(p)
  BY <1>0, <1>7, HeadLoadKeeps, HeadLoadData DEF AbsStep
<1>8. CASE InstUnpin(p)
  <2>1. ~panicked'
    BY <1>0, <1>8 DEF InstUnpin
  <2> QED
    BY <1>8, <2>1, InstUnpinData DEF AbsStep
<1>9. CASE CommitDone(p)
  <2>1. ~panicked'
    BY <1>0, <1>9 DEF CommitDone, cacheVars
  <2>2. ~BeginOp(p)
    BY <1>9 DEF CommitDone, BeginOp, At
  <2> QED
    BY <1>9, <2>1, <2>2, OperationData DEF AbsStep
<1> QED
  BY <1>1, <1>2, <1>3, <1>4, <1>5, <1>6, <1>7, <1>8, <1>9 DEF CommitStep

LEMMA NextData ==
  ASSUME RInv, [Next]_vars
  PROVE  RInv' /\ AbsStep
<1>0. IInv'
  BY NextKeeps DEF RInv
<1>1. CASE UNCHANGED vars
  BY <1>1, StutterData
<1>2. ASSUME NEW p \in Procs, Runs(p) /\ IF pc[p] \in CallLabels THEN OpStep(p) ELSE CommitStep(p)
      PROVE  RInv' /\ AbsStep
  BY <1>0, <1>2, OpStepData, CommitStepData
<1>3. ASSUME (\E p \in Procs : IoStep(p)) \/ DeviceStep, UNCHANGED <<logVars, bounds>>
      PROVE  RInv' /\ AbsStep
  <2>1. UNCHANGED logVars
    BY <1>3
  <2> QED
    BY <1>0, <1>3, <2>1, IoData DEF AbsStep
<1>4. CASE Crash
  BY <1>0, <1>4, CrashData
<1> QED
  BY <1>1, <1>2, <1>3, <1>4 DEF Next

LEMMA InitData == Init => RInv /\ Data = Recovered /\ Active = {}
<1> SUFFICES ASSUME Init
             PROVE  RInv /\ Data = Recovered /\ Active = {}
  OBVIOUS
<1>1. IInv
  BY InitKeeps
<1>2. Started
  BY DEF Init, DiskInit, BcacheInit, MemoryInit, Started
<1> QED
  BY <1>1, <1>2, StartedData

-----------------------------------------------------------------------------
(* Theorems *)

\* The invariant with the data: where the cache, the log and the disk differ,
\* and how far commit() or recovery is.
THEOREM RecoverableAlways == Spec => []RInv
<1>1. Init => RInv
  BY InitData
<1>2. RInv /\ [Next]_vars => RInv'
  BY NextData
<1> QED
  BY <1>1, <1>2, PTL DEF Spec

\* Log implements AtomicDisk: whatever the interleaving of operations, readers,
\* the commit and the device, and wherever the machine crashes, also while it
\* recovers, what comes back is the blocks as they were at a moment between
\* operations.
THEOREM LogIsAtomic == Spec => CrashAtomic
<1>1. Init => AllOrNothing!AbsInit
  <2> SUFFICES ASSUME Init
               PROVE  AllOrNothing!AbsInit
    OBVIOUS
  <2>1. Data = Recovered /\ Active = {}
    BY InitData
  <2>2. disk = [b \in Blocks |-> IF b = header THEN <<>> ELSE Blank]
    BY DEF Init
  <2>3. Blank \in Values
    BY LogAssumption DEF Blank
  <2>4. disk[header] = <<>> /\ \A b \in Home : disk[b] \in Values
    BY ONLY <2>2, <2>3, BlockFacts
  <2>5. \A b \in Home : Recovered[b] \in Values
    BY ONLY <2>4, RecoveredEmpty
  <2>6. Recovered \in [Home -> Values]
    BY ONLY <2>5 DEF Recovered
  <2> QED
    BY ONLY <2>1, <2>6 DEF AllOrNothing!AbsInit, Active
<1>2. RInv /\ [Next]_vars => [AllOrNothing!AbsNext]_(AllOrNothing!absVars)
  <2> SUFFICES ASSUME AbsStep
               PROVE  [AllOrNothing!AbsNext]_(AllOrNothing!absVars)
    BY NextData
  <2>1. CASE Unseen /\ Active' = Active
    BY ONLY <2>1 DEF Unseen, Active, AllOrNothing!absVars
  <2>2. ASSUME Unseen, NEW p \in Procs, p \notin Active, Active' = Active \union {p}
        PROVE  AllOrNothing!BeginOp(p)
    BY ONLY <2>2 DEF Unseen, Active, AllOrNothing!BeginOp
  <2>3. ASSUME Unseen, NEW p \in Procs, Active' = Active \ {p}
        PROVE  AllOrNothing!EndOp(p) \/ UNCHANGED AllOrNothing!absVars
    <3>1. CASE p \in Active
      BY ONLY <2>3, <3>1 DEF Unseen, Active, AllOrNothing!EndOp
    <3>2. CASE Active' = Active
      BY ONLY <2>3, <3>2 DEF Unseen, Active, AllOrNothing!absVars
    <3> QED
      BY ONLY <2>3, <3>1, <3>2
  <2>4. ASSUME NEW p \in Procs, Changes(p), Active' = Active
        PROVE  AllOrNothing!Write(p)
    BY ONLY <2>4 DEF Changes, Active, AllOrNothing!Write
  <2>5. CASE Commits /\ Active' = Active
    BY ONLY <2>5 DEF Commits, Active, AllOrNothing!AbsNext, AllOrNothing!Commit
  <2>6. CASE Data' = Recovered /\ Recovered' = Recovered /\ Active' = {}
    BY ONLY <2>6 DEF Active, AllOrNothing!AbsNext, AllOrNothing!Crash
  <2> QED
    BY ONLY AbsStep, <2>1, <2>2, <2>3, <2>4, <2>5, <2>6 DEF AbsStep, AllOrNothing!AbsNext
<1> QED
  BY <1>1, <1>2, RecoverableAlways, PTL DEF Spec, CrashAtomic, AllOrNothing!AbsSpec

\* Between transactions the disk alone has everything: end_op() and recovery
\* leave nothing in the cache or in the log that is not in its home block.
THEOREM IdleDisk == Spec => []IdleIsDurable
<1>1. RInv => IdleIsDurable
  <2> SUFFICES ASSUME RInv, ~recovering, outstanding = 0, ~committing
               PROVE  Data = Recovered /\ disk[header] = <<>>
    BY DEF IdleIsDurable
  <2>0. ModeInv /\ TypeInv /\ CoherentInv /\ StageInv /\ QuietInv /\ Unique
    BY RFacts
  <2>1. (\A q \in Procs : pc[q] \notin Busy) /\ lh = <<>> /\ \A q \in Procs : pc[q] \notin OpLabels
    BY <2>0, NoneOperates DEF ModeInv
  <2>2. disk[header] = <<>>
    BY ONLY <2>0, <2>1 DEF QuietInv
  <2>3. \A c \in Bufs : valid[c] => bdata[c] = disk[bblock[c]]
    <3> SUFFICES ASSUME NEW c \in Bufs
                 PROVE  ~Modified(c) /\ ~Writing(c) /\ ~Logged(c)
      BY <2>0 DEF CoherentInv
    <3>1. ~Modified(c)
      BY ONLY <2>1 DEF Modified, OpLabels
    <3>2. ~Writing(c)
      BY ONLY <2>0, <2>1 DEF Writing, StageInv, Writes, Busy, CopyLabels, HeadLabels, InstLabels
    <3>3. ~Logged(c)
      <4>1. ToSet(<<>>) = {}
        BY DEF ToSet
      <4> QED
        BY ONLY <2>1, <4>1 DEF Logged
    <3> QED
      BY ONLY <3>1, <3>2, <3>3
  <2>4. \A x \in Home : Sees(x)
    BY <2>0, DataIs
  <2>5. \A x \in Home : Data[x] = disk[x]
    BY ONLY <2>3, <2>4, ~recovering DEF Sees
  <2>6. \A x \in Home : Recovered[x] = disk[x]
    BY ONLY <2>2, RecoveredEmpty
  <2> QED
    BY ONLY <2>2, <2>5, <2>6 DEF Data, Recovered
<1> QED
  BY <1>1, RecoverableAlways, PTL

\* A block of a transaction is in the cache, pinned, or already installed; any
\* other buffer that nobody has locked agrees with the disk.
THEOREM NothingLost == Spec => []CacheCoherent
<1>1. RInv => CacheCoherent
  <2> SUFFICES ASSUME RInv, ~recovering
               PROVE  /\ \A b \in ToSet(lh) :
                           \/ \E c \in Bufs : bblock[c] = b /\ valid[c] /\ refcnt[c] > 0
                           \/ disk[header] = lh /\ disk[b] = Recovered[b]
                      /\ \A c \in Bufs :
                           valid[c] /\ holder[c] = Nobody /\ bblock[c] \notin ToSet(lh) =>
                             bdata[c] = disk[bblock[c]]
    BY DEF CacheCoherent
  <2>0. /\ CacheInv /\ TypeInv /\ RefInv /\ CoherentInv /\ PinnedInv /\ StageInv
        /\ disk[header] \in Heads
    BY RFacts
  <2>1. ASSUME NEW b \in ToSet(lh)
        PROVE  \/ \E c \in Bufs : bblock[c] = b /\ valid[c] /\ refcnt[c] > 0
               \/ disk[header] = lh /\ disk[b] = Recovered[b]
    <3>1. PICK k \in 1..Len(lh) : lh[k] = b
      BY <2>0, <2>1, Types DEF ToSet
    <3>2. CASE k \in PinnedSlots
      <4>1. b \in Pinned
        BY ONLY <3>1, <3>2 DEF Pinned
      <4>2. PICK c \in Bufs : bblock[c] = b
        BY ONLY <2>0, <4>1 DEF RefInv
      <4>3. valid[c]
        BY ONLY <2>0, <4>1, <4>2 DEF PinnedInv
      <4>4. Cardinality({q \in Procs : c \in ToSet(held[q])}) \in Nat
        <5>1. IsFiniteSet({q \in Procs : c \in ToSet(held[q])})
          BY BlockFacts, FS_Subset
        <5> QED
          BY ONLY <5>1, FS_CardinalityType
      <4>5. refcnt[c] = Cardinality({q \in Procs : c \in ToSet(held[q])}) + 1
        BY ONLY <2>0, <4>1, <4>2 DEF RefInv, RefsAre
      <4>6. refcnt[c] > 0
        BY ONLY <4>4, <4>5
      <4> QED
        BY ONLY <4>2, <4>3, <4>6
    <3>3. CASE k \notin PinnedSlots
      <4>1. PICK s \in Procs : Unpinned(pc[s], tail, k)
        BY ONLY <3>1, <3>3, ~recovering DEF PinnedSlots
      <4>2. Phase(s) /\ Writes(s) /\ tail \in Nat
        BY <2>0, Types DEF StageInv
      <4>3. disk[header] = lh /\ Installed(k)
        BY ONLY <3>1, <4>1, <4>2 DEF Unpinned, Phase, Writes
      <4>4. Recovered[lh[k]] = disk[k]
        BY ONLY <2>0, <3>1, <4>3, RecoveredIs DEF RecoveredFrom
      <4> QED
        BY ONLY <3>1, <4>3, <4>4 DEF Installed
    <3> QED
      BY ONLY <3>2, <3>3
  <2>2. ASSUME NEW c \in Bufs, valid[c], holder[c] = Nobody, bblock[c] \notin ToSet(lh)
        PROVE  bdata[c] = disk[bblock[c]]
    <3>1. ~Modified(c)
      <4> SUFFICES ASSUME NEW q \in Procs, pc[q] = "log_write", c \in ToSet(held[q])
                   PROVE  FALSE
        BY DEF Modified
      <4>1. io[q].step = "run"
        BY <2>0 DEF StageInv, Writes
      <4>2. holder[c] = q
        BY <2>0, <4>1 DEF CacheInv, HeldInv
      <4> QED
        BY <2>2, <4>2, BcacheAssumption
    <3>2. ~Writing(c)
      BY <2>0, <2>2, WriteValid, BcacheAssumption DEF Writing
    <3>3. ~Logged(c)
      BY ONLY <2>2 DEF Logged
    <3> QED
      BY ONLY <2>0, <2>2, <3>1, <3>2, <3>3 DEF CoherentInv
  <2> QED
    BY <2>1, <2>2
<1> QED
  BY <1>1, RecoverableAlways, PTL
=============================================================================
