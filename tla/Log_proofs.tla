----------------------------- MODULE Log_proofs -----------------------------
(***************************************************************************)
(* Proofs about the log: the structural invariant of the whole stack, from *)
(* which follow the types, that the cache keeps one buffer per block and   *)
(* never recycles one in use, that descriptors are accounted for, that     *)
(* nobody sleeps on &log without a reason, and that of all the panics only *)
(* "bget: no buffers" can be reached.                                      *)
(***************************************************************************)
EXTENDS Log, Bcache_proofs

-----------------------------------------------------------------------------
(* The invariant *)

\* What the header block may contain, and every other block.
Heads == {s \in Seq(Home) : IsInjective(s) /\ Len(s) <= LOGSIZE /\ Len(s) <= nlog - 1}

Typed(blk, d) == IF blk = header THEN d \in Heads ELSE d \in Values

ContentsInv ==
  /\ \A b \in Blocks : Typed(b, disk[b])
  /\ \A c \in Bufs : valid[c] => Typed(bblock[c], bdata[c])

TypeInv == LogTypeOK /\ lh \in Heads

\* The labels of commit() and of recovery, and the parts of it.
CopyLabels == {"log_to", "log_from", "log_copy", "log_release"}
HeadLabels == {"head_get", "head_write", "head_release"}
InstLabels == {"inst_log", "inst_home", "inst_copy", "inst_unpin", "inst_release"}
Busy == CopyLabels \union HeadLabels \union InstLabels
        \union {"commit", "finish", "head_read", "head_load"}

\* What each place in the code knows: the buffers h that the process has, whose
\* blocks are bb, the loop variable t, the transaction l, how many blocks w the
\* operation has added to it, and whether the machine recovers.
Knows(label, h, bb, t, l, w, rec) ==
  /\ label \in {"idle", "begin", "op", "commit", "log_to", "head_get", "inst_log", "finish",
                "head_read"} => h = <<>>
  /\ label \in {"modify", "log_write", "release", "read"} => Len(h) = 1 /\ bb[h[1]] \in Home
  /\ label \in {"head_load", "head_write", "head_release"} => Len(h) = 1 /\ bb[h[1]] = header
  /\ label \in {"log_from", "inst_home"} => Len(h) = 1 /\ bb[h[1]] = t
  /\ label \in {"log_copy", "inst_copy", "inst_unpin"} =>
       Len(h) = 2 /\ bb[h[1]] = t /\ bb[h[2]] = l[t]
  /\ label \in {"log_release", "inst_release"} => Len(h) \in {1, 2}
  /\ label \notin OpLabels => w = 0
  /\ label \in {"modify", "log_write"} => bb[h[1]] \in ToSet(l) \/ w < OpWrites
  /\ label \in CopyLabels \union {"commit", "finish"} => ~rec
  /\ label \in {"head_read", "head_load"} => rec
  /\ label = "finish" \/ (rec /\ label \in HeadLabels) => l = <<>>
  /\ label \in {"log_to", "inst_log"} => t <= Len(l) + 1
  /\ label \in (CopyLabels \union InstLabels) \ {"log_to", "inst_log"} => t <= Len(l)

PlaceInv == \A p \in Procs : Knows(pc[p], held[p], bblock, tail, lh, writes[p], recovering)

Operating == {p \in Procs : pc[p] \in OpLabels}

\* One process at most commits or recovers, and no operation is under way then.
ModeInv ==
  /\ \A p, q \in Procs : pc[p] \in Busy /\ pc[q] \in Busy => p = q
  /\ committing => ~recovering /\ outstanding = 0
  /\ committing \/ recovering <=> \E p \in Procs : pc[p] \in Busy
  /\ outstanding = Cardinality(Operating)
  /\ recovering => asleep = {} /\ \A q \in Procs \ {Boot} : pc[q] = "idle"
  /\ ~committing /\ ~recovering /\ outstanding = 0 => lh = <<>>

\* The blocks that log_write() has pinned and install_trans() has not unpinned.
Unpinned(label, t, k) == label \in InstLabels /\ (k < t \/ (label = "inst_release" /\ k = t))

PinnedSlots == {k \in 1..Len(lh) : ~recovering /\ \A p \in Procs : ~Unpinned(pc[p], tail, k)}

Pinned == {lh[k] : k \in PinnedSlots}

\* Every reference of the cache is accounted for, and what is pinned is there.
RefInv ==
  /\ RefsAre(refcnt, held, bblock, Pinned)
  /\ \A x \in Pinned : \E b \in Bufs : bblock[b] = x

\* The blocks that the operations under way may still add to the transaction, as
\* pairs of the process and the number of the block: those that begin_op() has
\* reserved and those really added.
Left(n) == {w \in Operating \X (1..n) : writes[w[1]] < w[2]}

\* There is room in the log for what they may add, and what is really added
\* leaves a block over.
SpaceInv ==
  ~recovering /\ ~committing =>
    /\ Len(lh) + Cardinality(Left(MAXOPBLOCKS)) <= LOGSIZE
    /\ Len(lh) + Cardinality(Left(OpWrites)) < nlog - 1

RunInv == PlaceInv /\ ModeInv /\ RefInv /\ SpaceInv

IInv == CacheInv /\ ContentsInv /\ TypeInv /\ SleepersMustWait /\ (~panicked => RunInv)

-----------------------------------------------------------------------------
(* Blocks, labels and frames *)

LEMMA BlockFacts ==
  /\ header \in Blocks /\ header # NoBlock /\ header \notin Home /\ header \notin Slots
  /\ \A x \in Home : x \in Blocks /\ x # NoBlock /\ x \notin Slots
  /\ \A x \in Slots : x \in Blocks /\ x # NoBlock
  /\ nlog \in Nat /\ LOGSIZE \in Nat
  /\ MAXOPBLOCKS \in Nat \ {0} /\ OpWrites \in 1..MAXOPBLOCKS /\ OpWrites < MAXOPBLOCKS
  /\ Boot \in Procs
  /\ IsFiniteSet(Procs)
BY DiskAssumption, LogAssumption

LEMMA LabelFacts ==
  ASSUME NEW l \in PcLabels
  PROVE  /\ l \in OpLabels => l \notin Busy
         /\ l \in InstLabels \union CopyLabels \union HeadLabels => l \in Busy
         /\ l \notin Busy => l \in OpLabels \/ l \in {"idle", "begin", "read"}
BY DEF PcLabels, CallLabels, OpLabels, Busy, CopyLabels, HeadLabels, InstLabels

\* A process outside commit() and recovery knows nothing about the transaction
\* but, within an operation, that some block is in it.
LEMMA KnowsFrame ==
  ASSUME NEW label, NEW h \in Seq(Bufs), NEW bb, NEW bb2, NEW t, NEW t2, NEW l, NEW l2, NEW w,
         NEW rec, NEW rec2, Knows(label, h, bb, t, l, w, rec),
         \A k \in 1..Len(h) : bb2[h[k]] = bb[h[k]],
         label \notin Busy \/ (t2 = t /\ l2 = l /\ rec2 = rec),
         label \notin OpLabels \/ (\A x \in ToSet(l) : x \in ToSet(l2))
  PROVE  Knows(label, h, bb2, t2, l2, w, rec2)
<1>1. /\ Len(h) = 1 => bb2[h[1]] = bb[h[1]]
      /\ Len(h) = 2 => bb2[h[1]] = bb[h[1]] /\ bb2[h[2]] = bb[h[2]]
  OBVIOUS
<1>2. CASE t2 = t /\ l2 = l /\ rec2 = rec
  BY <1>1, <1>2 DEF Knows
<1>3. CASE label \notin Busy
  <2>1. label \in {"modify", "log_write"} => bb2[h[1]] \in ToSet(l2) \/ w < OpWrites
    BY <1>1 DEF Knows, OpLabels
  <2> QED
    BY <1>1, <1>3, <2>1 DEF Knows, OpLabels, Busy, CopyLabels, HeadLabels, InstLabels
<1> QED
  BY <1>2, <1>3

LEMMA NoneOperates ==
  ASSUME ModeInv, outstanding = 0
  PROVE  Operating = {} /\ \A q \in Procs : pc[q] \notin OpLabels
<1>1. IsFiniteSet(Operating)
  BY BlockFacts, FS_Subset DEF Operating
<1>2. Cardinality(Operating) = 0
  BY DEF ModeInv
<1>3. Operating = {}
  BY ONLY <1>1, <1>2, FS_EmptySet
<1> QED
  BY <1>3 DEF Operating

\* While a process commits or recovers, no other is in an operation.
LEMMA BusyAlone ==
  ASSUME ModeInv, NEW p \in Procs, pc[p] \in Busy
  PROVE  \A q \in Procs \ {p} : pc[q] \notin OpLabels
<1>1. committing \/ recovering
  BY DEF ModeInv
<1>2. CASE committing
  BY <1>2, NoneOperates DEF ModeInv
<1>3. CASE recovering
  <2>1. pc[p] # "idle" /\ "idle" \notin OpLabels
    BY DEF Busy, OpLabels, CopyLabels, HeadLabels, InstLabels
  <2>2. p = Boot /\ \A q \in Procs \ {Boot} : pc[q] = "idle"
    BY <1>3, <2>1 DEF ModeInv
  <2> QED
    BY ONLY <2>1, <2>2
<1> QED
  BY <1>1, <1>2, <1>3

\* The processes that a step of p leaves alone know what they knew.
LEMMA PlaceOthers ==
  ASSUME CacheInv, TypeInv, PlaceInv, ModeInv, NEW p \in Procs,
         \A q \in Procs \ {p} : pc'[q] = pc[q] /\ held'[q] = held[q] /\ writes'[q] = writes[q],
         \A q \in Procs \ {p} : \A k \in 1..Len(held[q]) : bblock'[held[q][k]] = bblock[held[q][k]],
         \/ pc[p] \in Busy
         \/ (\A q \in Procs : pc[q] \notin Busy) /\ (\A x \in ToSet(lh) : x \in ToSet(lh'))
         \/ tail' = tail /\ lh' = lh /\ recovering' = recovering
  PROVE  \A q \in Procs \ {p} :
           Knows(pc'[q], held'[q], bblock', tail', lh', writes'[q], recovering')
<1> TAKE q \in Procs \ {p}
<1>1. held[q] \in Seq(Bufs)
  BY DEF CacheInv, CacheTypeOK, BcacheTypeOK
<1>2. Knows(pc[q], held[q], bblock, tail, lh, writes[q], recovering)
  BY DEF PlaceInv
<1>3. pc[q] \notin Busy \/ (tail' = tail /\ lh' = lh /\ recovering' = recovering)
  BY DEF ModeInv
<1>7. pc[q] \notin OpLabels \/ (\A x \in ToSet(lh) : x \in ToSet(lh'))
  BY BusyAlone
<1>4. pc'[q] = pc[q] /\ held'[q] = held[q] /\ writes'[q] = writes[q]
  OBVIOUS
<1>5. \A k \in 1..Len(held[q]) : bblock'[held[q][k]] = bblock[held[q][k]]
  OBVIOUS
<1>6. Knows(pc[q], held[q], bblock', tail', lh', writes[q], recovering')
  BY ONLY <1>1, <1>2, <1>3, <1>5, <1>7, KnowsFrame
<1> QED
  BY ONLY <1>4, <1>6

\* While the machine recovers, the process that boots it does, and nobody else.
LEMMA RecoveringBoot ==
  ASSUME TypeInv, ModeInv, NEW p \in Procs, recovering, pc[p] # "idle"
  PROVE  p = Boot /\ pc[p] \in Busy
<1>1. p = Boot
  BY DEF ModeInv
<1>2. PICK q \in Procs : pc[q] \in Busy
  BY DEF ModeInv
<1>3. q = p
  <2>1. "idle" \notin Busy
    BY DEF Busy, CopyLabels, HeadLabels, InstLabels
  <2> QED
    BY <1>1, <1>2, <2>1 DEF ModeInv
<1> QED
  BY <1>1, <1>2, <1>3

\* A step within an operation, or within commit() and recovery, or outside of them.
LEMMA ModeSame ==
  ASSUME TypeInv, ModeInv, NEW p \in Procs, NEW l, pc' = [pc EXCEPT ![p] = l],
         l \in OpLabels <=> pc[p] \in OpLabels, l \in Busy <=> pc[p] \in Busy,
         recovering => p = Boot /\ asleep' = {},
         UNCHANGED <<outstanding, committing, recovering>>,
         lh' = lh \/ lh' = <<>> \/ outstanding > 0 \/ recovering
  PROVE  ModeInv' /\ Operating' = Operating
<1>1. pc'[p] = l /\ \A q \in Procs \ {p} : pc'[q] = pc[q]
  BY DEF TypeInv, LogTypeOK
<1>2. Operating' = Operating
  BY ONLY <1>1, l \in OpLabels <=> pc[p] \in OpLabels DEF Operating
<1>3. \A q \in Procs : pc'[q] \in Busy <=> pc[q] \in Busy
  BY ONLY <1>1, l \in Busy <=> pc[p] \in Busy
<1>4. Cardinality(Operating') = Cardinality(Operating)
  BY ONLY <1>2
<1>5. recovering => asleep' = {} /\ \A q \in Procs \ {Boot} : pc'[q] = "idle"
  BY ONLY <1>1, ModeInv, recovering => p = Boot /\ asleep' = {} DEF ModeInv
<1>6. ~committing /\ ~recovering /\ outstanding = 0 => lh' = <<>>
  BY DEF ModeInv
<1>7. outstanding' = outstanding /\ committing' = committing /\ recovering' = recovering
  OBVIOUS
<1>8. outstanding = Cardinality(Operating)
  BY ONLY ModeInv DEF ModeInv
<1>9. outstanding' = Cardinality(Operating')
  BY ONLY <1>4, <1>7, <1>8
<1>10. /\ \A q, s \in Procs : pc'[q] \in Busy /\ pc'[s] \in Busy => q = s
       /\ committing' => ~recovering' /\ outstanding' = 0
       /\ committing' \/ recovering' <=> \E q \in Procs : pc'[q] \in Busy
  BY ONLY ModeInv, <1>3, <1>7 DEF ModeInv
<1> QED
  BY ONLY <1>2, <1>5, <1>6, <1>7, <1>9, <1>10 DEF ModeInv

\* The pinned blocks stay the same while no block is logged or installed.
LEMMA PinnedSame ==
  ASSUME lh' = lh, recovering' = recovering,
         \A q \in Procs : \A k \in 1..Len(lh) : Unpinned(pc'[q], tail', k) <=> Unpinned(pc[q], tail, k)
  PROVE  Pinned' = Pinned
<1>1. PinnedSlots' = PinnedSlots
  BY DEF PinnedSlots
<1> QED
  BY ONLY <1>1, lh' = lh DEF Pinned

\* So does the room in the log while no operation begins, ends or logs a block.
LEMMA SpaceSame ==
  ASSUME TypeInv, SpaceInv, Operating' = Operating, writes' = writes,
         UNCHANGED <<outstanding, committing, recovering>>,
         lh' = lh \/ recovering \/ committing
  PROVE  SpaceInv'
<1>1. \A n : Left(n)' = Left(n)
  <2> TAKE n
  <2>1. \A q \in Procs : pc'[q] \in OpLabels <=> pc[q] \in OpLabels
    BY DEF Operating
  <2> QED
    BY <2>1 DEF Left
<1>2. Left(MAXOPBLOCKS)' = Left(MAXOPBLOCKS) /\ Left(OpWrites)' = Left(OpWrites)
  BY <1>1
<1> QED
  BY <1>2 DEF SpaceInv

\* The types of the log's own variables, and of the cache's.
LEMMA Types ==
  ASSUME TypeInv
  PROVE  /\ lh \in Seq(Home) /\ IsInjective(lh) /\ lh \in Heads
         /\ Len(lh) \in Nat /\ Len(lh) <= LOGSIZE /\ Len(lh) <= nlog - 1
         /\ \A k \in 1..Len(lh) : lh[k] \in Home
         /\ outstanding \in Nat /\ tail \in Nat \ {0}
         /\ pc \in [Procs -> PcLabels] /\ writes \in [Procs -> 0..OpWrites]
         /\ committing \in BOOLEAN /\ recovering \in BOOLEAN
<1>1. lh \in Seq(Home) /\ IsInjective(lh) /\ lh \in Heads
  BY DEF TypeInv, LogTypeOK
<1>2. Len(lh) \in Nat /\ \A k \in 1..Len(lh) : lh[k] \in Home
  BY ONLY <1>1
<1>3. Len(lh) <= LOGSIZE /\ Len(lh) <= nlog - 1
  BY ONLY <1>1 DEF Heads
<1>4. outstanding \in Nat /\ tail \in Nat \ {0}
  <2>1. Cardinality(Procs) \in Nat
    BY BlockFacts, FS_CardinalityType
  <2>2. outstanding \in 0..Cardinality(Procs) /\ tail \in 1..(LOGSIZE + 1) /\ LOGSIZE \in Nat
    BY BlockFacts DEF TypeInv, LogTypeOK
  <2> QED
    BY ONLY <2>1, <2>2
<1> QED
  BY <1>1, <1>2, <1>3, <1>4 DEF TypeInv, LogTypeOK

LEMMA CacheTypes ==
  ASSUME CacheInv
  PROVE  /\ BcacheTypeOK
         /\ \A q \in Procs : held[q] \in Seq(Bufs) /\ IsInjective(held[q])
                             /\ \A k \in 1..Len(held[q]) : held[q][k] \in Bufs /\ held[q][k] \in ToSet(held[q])
         /\ DOMAIN bdata = Bufs /\ DOMAIN disk = Blocks /\ Unique
         /\ refcnt \in [Bufs -> Nat] /\ bblock \in [Bufs -> Blocks \union {NoBlock}]
         /\ DescriptorsAccounted
<1>1. \A q \in Procs : held[q] \in Seq(Bufs) /\ IsInjective(held[q])
  BY DEF CacheInv, CacheTypeOK, BcacheTypeOK, HeldInv
<1>2. \A q \in Procs : \A k \in 1..Len(held[q]) : held[q][k] \in Bufs /\ held[q][k] \in ToSet(held[q])
  BY ONLY <1>1 DEF ToSet
<1> QED
  BY <1>1, <1>2 DEF CacheInv, CacheTypeOK, BcacheTypeOK

-----------------------------------------------------------------------------
(* Steps inside bread() and bwrite(), and of the device *)

LEMMA ContentsFrame ==
  ASSUME ContentsInv, UNCHANGED <<disk, bdata, bblock, valid>>
  PROVE  ContentsInv'
BY DEF ContentsInv

\* What moves between the disk and the buffers has the type of its block.
LEMMA ContentsMoved ==
  ASSUME CacheInv, ContentsInv, NEW q \in Procs, Moves(q), UNCHANGED <<bblock, valid>>
  PROVE  ContentsInv'
<1> DEFINE b == io[q].buf
           n == bblock[b]
<1>1. b \in Bufs /\ n \in Blocks
  BY DEF Moves
<1>2. DOMAIN disk = Blocks /\ DOMAIN bdata = Bufs
  BY DEF CacheInv, CacheTypeOK
<1>3. \/ valid[b] /\ disk' = [disk EXCEPT ![n] = bdata[b]] /\ bdata' = bdata
      \/ ~valid[b] /\ bdata' = [bdata EXCEPT ![b] = disk[n]] /\ disk' = disk
  BY DEF Moves
<1>4. /\ \A x \in Blocks : Typed(x, disk[x])
      /\ \A c \in Bufs : valid[c] => Typed(bblock[c], bdata[c])
  BY DEF ContentsInv
<1> HIDE DEF b
<1>5. CASE valid[b] /\ disk' = [disk EXCEPT ![n] = bdata[b]] /\ bdata' = bdata
  <2>1. \A x \in Blocks : disk'[x] = IF x = n THEN bdata[b] ELSE disk[x]
    BY ONLY <1>1, <1>2, <1>5
  <2>2. Typed(n, bdata[b])
    BY ONLY <1>1, <1>4, <1>5
  <2>3. \A x \in Blocks : Typed(x, disk'[x])
    BY ONLY <1>4, <2>1, <2>2
  <2> QED
    BY <1>4, <1>5, <2>3 DEF ContentsInv
<1>6. CASE ~valid[b] /\ bdata' = [bdata EXCEPT ![b] = disk[n]] /\ disk' = disk
  <2>1. \A c \in Bufs : valid[c] => bdata'[c] = bdata[c]
    BY ONLY <1>1, <1>2, <1>6
  <2> QED
    BY <1>4, <1>6, <2>1 DEF ContentsInv
<1> QED
  BY <1>3, <1>5, <1>6

\* A buffer that has been read becomes valid.
LEMMA ContentsRead ==
  ASSUME CacheInv, ContentsInv, NEW b \in Bufs, bblock[b] \in Blocks, bdata[b] = disk[bblock[b]],
         valid' = [valid EXCEPT ![b] = TRUE], UNCHANGED <<disk, bdata, bblock>>
  PROVE  ContentsInv'
<1>1. \A c \in Bufs : c # b => valid'[c] = valid[c]
  BY DEF CacheInv, CacheTypeOK, BcacheTypeOK
<1> QED
  BY <1>1 DEF ContentsInv

\* Nothing of RunInv changes in these steps.
LEMMA RunFrame ==
  ASSUME RunInv, TypeInv, UNCHANGED <<held, bblock, refcnt, logVars>>
  PROVE  RunInv'
<1>1. /\ held' = held /\ bblock' = bblock /\ refcnt' = refcnt /\ lh' = lh /\ pc' = pc /\ tail' = tail
      /\ outstanding' = outstanding /\ committing' = committing /\ asleep' = asleep
      /\ writes' = writes /\ recovering' = recovering
  BY DEF logVars
<1>2. PlaceInv'
  BY ONLY <1>1, RunInv DEF RunInv, PlaceInv
<1>3. Operating' = Operating
  BY ONLY <1>1 DEF Operating
<1>4. ModeInv'
  BY ONLY <1>1, <1>3, RunInv DEF RunInv, ModeInv
<1>5. Pinned' = Pinned
  <2>1. \A q \in Procs : \A k \in 1..Len(lh) : Unpinned(pc'[q], tail', k) <=> Unpinned(pc[q], tail, k)
    BY ONLY <1>1
  <2> QED
    BY ONLY <1>1, <2>1, PinnedSame
<1>6. RefInv'
  BY ONLY <1>1, <1>5, RunInv DEF RunInv, RefInv
<1>7. SpaceInv'
  BY ONLY <1>1, <1>3, RunInv, TypeInv, SpaceSame DEF RunInv
<1> QED
  BY ONLY <1>2, <1>4, <1>6, <1>7 DEF RunInv

LEMMA TypeFrame ==
  ASSUME TypeInv, CacheInv', UNCHANGED logVars
  PROVE  TypeInv'
<1>1. BcacheTypeOK'
  BY DEF CacheInv, CacheTypeOK
<1> QED
  BY <1>1 DEF TypeInv, LogTypeOK, logVars

LEMMA IoKeeps ==
  ASSUME IInv, (\E p \in Procs : IoStep(p)) \/ DeviceStep, UNCHANGED logVars
  PROVE  IInv'
<1>0. CacheInv /\ ContentsInv /\ TypeInv /\ SleepersMustWait
  BY DEF IInv
<1>1. /\ CacheInv' /\ ContentsInv'
      /\ UNCHANGED <<held, bblock, refcnt, panicked>>
  <2>1. ASSUME NEW p \in Procs, Acquiresleep(p)
        PROVE  CacheInv' /\ ContentsInv' /\ UNCHANGED <<held, bblock, refcnt, panicked>>
    <3>1. UNCHANGED <<disk, bdata, bblock, valid, held, refcnt, panicked>>
      BY <2>1 DEF Acquiresleep
    <3> QED
      BY <1>0, <2>1, <3>1, AcquireStep, ContentsFrame
  <2>2. ASSUME NEW p \in Procs, DiskSubmit(p), UNCHANGED cacheVars
        PROVE  CacheInv' /\ ContentsInv' /\ UNCHANGED <<held, bblock, refcnt, panicked>>
    <3>1. UNCHANGED <<disk, bdata, bblock, valid, held, refcnt, panicked>>
      BY <2>2 DEF DiskSubmit, cacheVars
    <3> QED
      BY <1>0, <2>2, <3>1, SubmitStep, ContentsFrame
  <2>3. ASSUME NEW p \in Procs, DiskWait(p), UNCHANGED cacheVars
        PROVE  CacheInv' /\ ContentsInv' /\ UNCHANGED <<held, bblock, refcnt, panicked>>
    <3>1. UNCHANGED <<disk, bdata, bblock, valid, held, refcnt, panicked>>
      BY <2>3 DEF DiskWait, cacheVars
    <3> QED
      BY <1>0, <2>3, <3>1, WaitStep, ContentsFrame
  <2>4. ASSUME NEW p \in Procs, Transferred(p)
        PROVE  CacheInv' /\ ContentsInv' /\ UNCHANGED <<held, bblock, refcnt, panicked>>
    <3>1. UNCHANGED <<disk, bdata, bblock, held, refcnt, panicked>>
      BY <2>4 DEF Transferred, DiskDone
    <3>2. CacheInv' /\ io[p].buf \in Bufs /\ bblock[io[p].buf] \in Blocks
          /\ bdata[io[p].buf] = disk[bblock[io[p].buf]] /\ valid' = [valid EXCEPT ![io[p].buf] = TRUE]
      BY <1>0, <2>4, TransferredStep
    <3> QED
      BY <1>0, <3>1, <3>2, ContentsRead
  <2>5. ASSUME DiskIntr, UNCHANGED cacheVars
        PROVE  CacheInv' /\ ContentsInv' /\ UNCHANGED <<held, bblock, refcnt, panicked>>
    <3>1. UNCHANGED <<disk, bdata, bblock, valid, held, refcnt, panicked>>
      BY <2>5 DEF DiskIntr, cacheVars
    <3> QED
      BY <1>0, <2>5, <3>1, IntrStep, ContentsFrame
  <2>6. ASSUME DevicePerform, UNCHANGED cacheVars
        PROVE  CacheInv' /\ ContentsInv' /\ UNCHANGED <<held, bblock, refcnt, panicked>>
    <3>1. UNCHANGED <<bblock, valid, held, refcnt, panicked>>
      BY <2>6 DEF DevicePerform, cacheVars
    <3>2. CacheInv' /\ \E q \in Procs : Moves(q)
      BY <1>0, <2>6, PerformStep
    <3> QED
      BY <1>0, <3>1, <3>2, ContentsMoved
  <2> QED
    BY <2>1, <2>2, <2>3, <2>4, <2>5, <2>6 DEF IoStep, DeviceStep
<1>2. TypeInv'
  BY ONLY <1>0, <1>1, UNCHANGED logVars, TypeFrame
<1>3. SleepersMustWait'
  BY <1>0 DEF SleepersMustWait, MustWait, logVars
<1>4. ~panicked' => RunInv'
  <2>1. ~panicked => RunInv
    BY DEF IInv
  <2> QED
    BY ONLY <1>0, <1>1, <2>1, UNCHANGED logVars, RunFrame DEF logVars
<1> QED
  BY ONLY <1>1, <1>2, <1>3, <1>4 DEF IInv

-----------------------------------------------------------------------------
(* bread() *)

\* A process that goes from one place to another of the same part of the log
\* and calls bread() for a block that it has not, and that the transaction
\* stays where it is for, keeps the invariant, if the buffer is what the next
\* place expects.
LEMMA BreadKeeps ==
  ASSUME IInv, NEW p \in Procs, Runs(p), NEW blk \in Blocks, NEW l \in PcLabels,
         GotoWith(p, blk, l),
         UNCHANGED <<lh, outstanding, committing, asleep, tail, writes, recovering>>,
         l \in OpLabels <=> pc[p] \in OpLabels, l \in Busy <=> pc[p] \in Busy,
         l # "inst_release" /\ pc[p] # "inst_release", l \in InstLabels <=> pc[p] \in InstLabels,
         recovering => p = Boot,
         \A k \in 1..Len(held[p]) : bblock[held[p][k]] # blk,
         \A h \in Seq(Bufs) : \A bb :
           /\ Len(h) = Len(held[p]) + 1 /\ bb[h[Len(h)]] = blk
           /\ \A k \in 1..Len(held[p]) : bb[h[k]] = bblock[held[p][k]]
           => Knows(l, h, bb, tail, lh, writes[p], recovering)
  PROVE  IInv'
<1>0. /\ CacheInv /\ ContentsInv /\ TypeInv /\ SleepersMustWait /\ io[p] = Run /\ ~panicked
      /\ PlaceInv /\ ModeInv /\ RefInv /\ SpaceInv
  <2>1. io[p].step = "run" /\ ~panicked
    BY DEF Runs
  <2>2. io[p] = Run
    BY <2>1 DEF IInv, CacheInv, IoInv
  <2> QED
    BY <2>1, <2>2 DEF IInv, RunInv
<1>g. Bread(p, blk) /\ pc' = [pc EXCEPT ![p] = l]
  BY DEF GotoWith, Goto
<1>t. pc \in [Procs -> PcLabels] /\ IsFiniteSet(Procs) /\ held[p] \in Seq(Bufs)
  BY ONLY <1>0, Types, BlockFacts, CacheTypes
<1>n. \A c \in ToSet(held[p]) : bblock[c] # blk
  BY ONLY <1>t, \A k \in 1..Len(held[p]) : bblock[held[p][k]] # blk DEF ToSet
<1>p. pc' \in [Procs -> PcLabels] /\ pc'[p] = l /\ \A q \in Procs \ {p} : pc'[q] = pc[q]
  BY ONLY <1>g, <1>t, l \in PcLabels, p \in Procs
<1>s. SleepersMustWait'
  BY <1>0 DEF SleepersMustWait, MustWait
<1>y. ASSUME CacheInv'
      PROVE  TypeInv'
  <2>1. BcacheTypeOK'
    BY <1>y DEF CacheInv, CacheTypeOK
  <2> QED
    BY <1>0, <1>p, <2>1 DEF TypeInv, LogTypeOK
<1>1. CASE panicked' /\ UNCHANGED <<diskVars, valid, refcnt, holder, lru, held>>
  <2>1. CacheInv'
    <3>1. refcnt' \in [Bufs -> Nat] /\ panicked' \in BOOLEAN
      <4>1. refcnt \in [Bufs -> Nat]
        BY <1>0, CacheTypes
      <4>2. panicked' = TRUE
        BY <1>0, <1>1, <1>g DEF Bread, BgetHit, BgetRecycle, BgetNoBuffers
      <4> QED
        BY <1>1, <4>1, <4>2
    <3>2. \A q \in Procs : \A c \in ToSet(held[q]) : refcnt'[c] > 0
      BY <1>0, <1>1 DEF CacheInv, HeldInv
    <3> QED
      BY <1>0, <1>1, <3>1, <3>2, CountStep
  <2>2. ContentsInv'
    <3>1. UNCHANGED <<disk, bdata, bblock, valid>>
      BY <1>1 DEF diskVars
    <3> QED
      BY <1>0, <3>1, ContentsFrame
  <2> QED
    BY ONLY <1>1, <1>s, <1>y, <2>1, <2>2 DEF IInv
<1>2. ASSUME NEW b \in Bufs, Gets(p, blk, b)
      PROVE  IInv'
  <2>1. CacheInv' /\ Got(p, blk, b)
    BY ONLY <1>0, <1>2, blk \in Blocks, p \in Procs, GetsStep, GetsEffect
  <2>2. ContentsInv'
    <3>1. disk' = disk /\ bdata' = bdata
      BY ONLY <1>2 DEF Gets
    <3>2. \A c \in Bufs : valid'[c] => valid[c] /\ bblock'[c] = bblock[c]
      <4>1. \A c \in Bufs \ {b} : bblock'[c] = bblock[c] /\ valid'[c] = valid[c]
        BY ONLY <2>1 DEF Got
      <4>2. valid'[b] => valid[b] /\ bblock'[b] = bblock[b]
        <5>1. CASE bblock[b] = blk /\ valid' = valid
          BY ONLY <2>1, <5>1 DEF Got
        <5>2. CASE valid' = [valid EXCEPT ![b] = FALSE]
          <6>1. DOMAIN valid = Bufs
            BY <1>0 DEF CacheInv, CacheTypeOK, BcacheTypeOK
          <6> QED
            BY ONLY <1>2, <5>2, <6>1
        <5> QED
          BY ONLY <1>2, <5>1, <5>2 DEF Gets
      <4> QED
        BY ONLY <4>1, <4>2
    <3> QED
      BY ONLY <1>0, <3>1, <3>2 DEF ContentsInv
  <2>3. TypeInv'
    BY ONLY <1>y, <2>1
  <2>4. ModeInv' /\ Operating' = Operating
    <3>1. recovering => asleep' = {}
      BY <1>0 DEF ModeInv
    <3> QED
      BY <1>0, <1>g, <3>1, ModeSame
  <2>5. Pinned' = Pinned
    <3>1. \A q \in Procs : \A k \in 1..Len(lh) : Unpinned(pc'[q], tail', k) <=> Unpinned(pc[q], tail, k)
      BY <1>p DEF Unpinned
    <3> QED
      BY <3>1, PinnedSame
  <2>6. RefInv'
    <3>1. /\ RefsAre(refcnt', held', bblock', Pinned)
          /\ \A x \in Pinned : \E c \in Bufs : bblock'[c] = x
      <4>1. RefsAre(refcnt, held, bblock, Pinned) /\ \A x \in Pinned : \E c \in Bufs : bblock[c] = x
        BY ONLY <1>0 DEF RefInv
      <4> QED
        BY ONLY <1>0, <1>2, <1>t, <4>1, blk \in Blocks, p \in Procs, GetsRefs
    <3> QED
      BY ONLY <2>5, <3>1 DEF RefInv
  <2>7. SpaceInv'
    BY <1>0, <2>4, SpaceSame
  <2>8. PlaceInv'
    <3>1. /\ held'[p] \in Seq(Bufs) /\ Len(held'[p]) = Len(held[p]) + 1 /\ Last(held'[p]) = b
          /\ \A k \in 1..Len(held[p]) : held'[p][k] = held[p][k]
          /\ \A q \in Procs \ {p} : held'[q] = held[q]
          /\ bblock'[b] = blk
          /\ \A q \in Procs : \A c \in ToSet(held[q]) : bblock'[c] = bblock[c]
      BY ONLY <2>1 DEF Got
    <3>2. \A q \in Procs : \A k \in 1..Len(held[q]) : bblock'[held[q][k]] = bblock[held[q][k]]
      BY ONLY <1>0, <3>1, CacheTypes
    <3>3. bblock'[held'[p][Len(held'[p])]] = blk
      BY ONLY <3>1 DEF Last
    <3>4. \A k \in 1..Len(held[p]) : bblock'[held'[p][k]] = bblock[held[p][k]]
      BY ONLY <3>1, <3>2, p \in Procs
    <3>5. Knows(l, held'[p], bblock', tail, lh, writes[p], recovering)
      BY <3>1, <3>3, <3>4
    <3>6. \A q \in Procs \ {p} :
            Knows(pc'[q], held'[q], bblock', tail', lh', writes'[q], recovering')
      BY <1>0, <1>p, <3>1, <3>2, PlaceOthers
    <3> QED
      BY <1>p, <3>5, <3>6 DEF PlaceInv
  <2> QED
    BY ONLY <1>s, <2>1, <2>2, <2>3, <2>4, <2>6, <2>7, <2>8 DEF IInv, RunInv
<1> QED
  BY ONLY <1>0, <1>1, <1>2, <1>g, <1>n, blk \in Blocks, p \in Procs, BreadGets

\* What a process that executes its own code may rely on.
LEMMA Running ==
  ASSUME IInv, NEW p \in Procs, Runs(p)
  PROVE  /\ CacheInv /\ ContentsInv /\ TypeInv /\ SleepersMustWait
         /\ PlaceInv /\ ModeInv /\ RefInv /\ SpaceInv
         /\ io[p] = Run /\ ~panicked
         /\ Knows(pc[p], held[p], bblock, tail, lh, writes[p], recovering)
         /\ recovering /\ pc[p] # "idle" => p = Boot
<1>1. io[p].step = "run" /\ ~panicked
  BY DEF Runs
<1>2. io[p] = Run
  BY <1>1 DEF IInv, CacheInv, IoInv
<1>3. /\ CacheInv /\ ContentsInv /\ TypeInv /\ SleepersMustWait
      /\ PlaceInv /\ ModeInv /\ RefInv /\ SpaceInv
  BY <1>1 DEF IInv, RunInv
<1> QED
  BY <1>1, <1>2, <1>3, RecoveringBoot DEF PlaceInv

LEMMA OpBreadKeeps ==
  ASSUME IInv, NEW p \in Procs, OpBread(p)
  PROVE  IInv'
<1>1. Runs(p) /\ pc[p] = "op"
  BY DEF OpBread, At
<1>2. PICK b \in Home : (b \in ToSet(lh) \/ writes[p] < OpWrites) /\ GotoWith(p, b, "modify")
  BY DEF OpBread
<1>3. UNCHANGED <<lh, outstanding, committing, asleep, tail, writes, recovering>>
  BY DEF OpBread
<1>4. /\ Knows("op", held[p], bblock, tail, lh, writes[p], recovering)
      /\ recovering => p = Boot
  BY <1>1, Running
<1>5. held[p] = <<>>
  BY <1>4 DEF Knows
<1>6. \A h \in Seq(Bufs) : \A bb :
        Len(h) = Len(held[p]) + 1 /\ bb[h[Len(h)]] = b
        => Knows("modify", h, bb, tail, lh, writes[p], recovering)
  BY <1>1, <1>2, <1>5 DEF Knows, OpLabels, Busy, CopyLabels, HeadLabels, InstLabels
<1>7. /\ b \in Blocks /\ \A k \in 1..Len(held[p]) : bblock[held[p][k]] # b
      /\ "modify" \in PcLabels /\ "modify" \in OpLabels /\ "modify" \notin Busy
      /\ "modify" \notin InstLabels
      /\ "op" \in OpLabels /\ "op" \notin Busy /\ "op" \notin InstLabels
  BY <1>5, BlockFacts
     DEF PcLabels, CallLabels, OpLabels, Busy, CopyLabels, HeadLabels, InstLabels
<1> QED
  BY <1>1, <1>2, <1>3, <1>4, <1>6, <1>7, BreadKeeps

LEMMA ReadBlockKeeps ==
  ASSUME IInv, NEW p \in Procs, ReadBlock(p)
  PROVE  IInv'
<1>1. Runs(p) /\ pc[p] = "idle" /\ ~recovering
  BY DEF ReadBlock, At
<1>2. PICK b \in Home : GotoWith(p, b, "read")
  BY DEF ReadBlock
<1>3. UNCHANGED <<lh, outstanding, committing, asleep, tail, writes, recovering>>
  BY DEF ReadBlock
<1>4. Knows("idle", held[p], bblock, tail, lh, writes[p], recovering)
  BY <1>1, Running
<1>5. held[p] = <<>> /\ writes[p] = 0
  BY <1>4 DEF Knows, OpLabels
<1>6. \A h \in Seq(Bufs) : \A bb :
        Len(h) = Len(held[p]) + 1 /\ bb[h[Len(h)]] = b
        => Knows("read", h, bb, tail, lh, writes[p], recovering)
  BY <1>1, <1>5 DEF Knows, OpLabels, Busy, CopyLabels, HeadLabels, InstLabels
<1>7. /\ b \in Blocks /\ \A k \in 1..Len(held[p]) : bblock[held[p][k]] # b
      /\ "read" \in PcLabels /\ "read" \notin OpLabels /\ "read" \notin Busy
      /\ "read" \notin InstLabels
      /\ "idle" \notin OpLabels /\ "idle" \notin Busy /\ "idle" \notin InstLabels
  BY <1>5, BlockFacts
     DEF PcLabels, CallLabels, OpLabels, Busy, CopyLabels, HeadLabels, InstLabels
<1> QED
  BY <1>1, <1>2, <1>3, <1>6, <1>7, BreadKeeps

LEMMA HeadGetKeeps ==
  ASSUME IInv, NEW p \in Procs, HeadGet(p) \/ HeadRead(p)
  PROVE  IInv'
<1> DEFINE l == IF pc[p] = "head_get" THEN "head_write" ELSE "head_load"
<1>1. Runs(p) /\ pc[p] \in {"head_get", "head_read"}
  BY DEF HeadGet, HeadRead, At
<1>2. GotoWith(p, header, l)
  BY DEF HeadGet, HeadRead, At
<1>3. UNCHANGED <<lh, outstanding, committing, asleep, tail, writes, recovering>>
  BY DEF HeadGet, HeadRead, logUnchanged
<1>4. /\ Knows(pc[p], held[p], bblock, tail, lh, writes[p], recovering)
      /\ recovering => p = Boot
  BY <1>1, Running
<1>5. /\ held[p] = <<>> /\ writes[p] = 0 /\ (pc[p] = "head_read" => recovering)
      /\ pc[p] = "head_get" /\ recovering => lh = <<>>
  BY <1>1, <1>4 DEF Knows, OpLabels, HeadLabels
<1>6. \A h \in Seq(Bufs) : \A bb :
        Len(h) = Len(held[p]) + 1 /\ bb[h[Len(h)]] = header
        => Knows(l, h, bb, tail, lh, writes[p], recovering)
  BY <1>1, <1>5 DEF Knows, OpLabels, Busy, CopyLabels, HeadLabels, InstLabels
<1>7. /\ header \in Blocks /\ \A k \in 1..Len(held[p]) : bblock[held[p][k]] # header
      /\ l \in PcLabels /\ l \notin OpLabels /\ l \in Busy /\ l \notin InstLabels
      /\ l # "inst_release" /\ pc[p] # "inst_release"
      /\ pc[p] \notin OpLabels /\ pc[p] \in Busy /\ pc[p] \notin InstLabels
  BY <1>1, <1>5, BlockFacts
     DEF PcLabels, CallLabels, OpLabels, Busy, CopyLabels, HeadLabels, InstLabels
<1> HIDE DEF l
<1> QED
  BY <1>1, <1>2, <1>3, <1>4, <1>6, <1>7, BreadKeeps

\* write_log() and install_trans() read a block of the log...
LEMMA SlotReadKeeps ==
  ASSUME IInv, NEW p \in Procs, LogTo(p) \/ InstLog(p), tail <= Len(lh)
  PROVE  IInv'
<1> DEFINE l == IF pc[p] = "log_to" THEN "log_from" ELSE "inst_home"
<1>1. Runs(p) /\ pc[p] \in {"log_to", "inst_log"}
  BY DEF LogTo, InstLog, At
<1>2. GotoWith(p, tail, l)
  BY DEF LogTo, InstLog, At
<1>3. UNCHANGED <<lh, outstanding, committing, asleep, tail, writes, recovering>>
  BY DEF LogTo, InstLog, logUnchanged
<1>4. /\ Knows(pc[p], held[p], bblock, tail, lh, writes[p], recovering)
      /\ (recovering => p = Boot) /\ TypeInv
  BY <1>1, Running
<1>5. held[p] = <<>> /\ writes[p] = 0 /\ (pc[p] = "log_to" => ~recovering)
  BY <1>1, <1>4 DEF Knows, OpLabels, CopyLabels
<1>6. \A h \in Seq(Bufs) : \A bb :
        Len(h) = Len(held[p]) + 1 /\ bb[h[Len(h)]] = tail
        => Knows(l, h, bb, tail, lh, writes[p], recovering)
  BY <1>1, <1>5 DEF Knows, OpLabels, Busy, CopyLabels, HeadLabels, InstLabels
<1>7. tail \in Blocks
  <2>1. tail \in 1..(nlog - 1)
    BY ONLY <1>4, Types, BlockFacts, tail <= Len(lh)
  <2> QED
    BY <2>1, BlockFacts DEF Slots
<1>8. /\ \A k \in 1..Len(held[p]) : bblock[held[p][k]] # tail
      /\ l \in PcLabels /\ l \notin OpLabels /\ l \in Busy
      /\ l # "inst_release" /\ pc[p] # "inst_release"
      /\ pc[p] \notin OpLabels /\ pc[p] \in Busy /\ (l \in InstLabels <=> pc[p] \in InstLabels)
  BY <1>1, <1>5 DEF PcLabels, CallLabels, OpLabels, Busy, CopyLabels, HeadLabels, InstLabels
<1> HIDE DEF l
<1> QED
  BY <1>1, <1>2, <1>3, <1>4, <1>6, <1>7, <1>8, BreadKeeps

\* ... and the home block that belongs to it.
LEMMA HomeReadKeeps ==
  ASSUME IInv, NEW p \in Procs, LogFrom(p) \/ InstHome(p)
  PROVE  IInv'
<1> DEFINE l == IF pc[p] = "log_from" THEN "log_copy" ELSE "inst_copy"
<1>1. Runs(p) /\ pc[p] \in {"log_from", "inst_home"}
  BY DEF LogFrom, InstHome, At
<1>2. GotoWith(p, lh[tail], l)
  BY DEF LogFrom, InstHome, At
<1>3. UNCHANGED <<lh, outstanding, committing, asleep, tail, writes, recovering>>
  BY DEF LogFrom, InstHome, logUnchanged
<1>4. /\ Knows(pc[p], held[p], bblock, tail, lh, writes[p], recovering)
      /\ (recovering => p = Boot) /\ TypeInv /\ CacheInv
  BY <1>1, Running
<1>5. /\ Len(held[p]) = 1 /\ bblock[held[p][1]] = tail /\ writes[p] = 0 /\ tail <= Len(lh)
      /\ pc[p] = "log_from" => ~recovering
  BY <1>1, <1>4 DEF Knows, OpLabels, CopyLabels, InstLabels
<1>6. \A h \in Seq(Bufs) : \A bb :
        /\ Len(h) = Len(held[p]) + 1 /\ bb[h[Len(h)]] = lh[tail]
        /\ \A k \in 1..Len(held[p]) : bb[h[k]] = bblock[held[p][k]]
        => Knows(l, h, bb, tail, lh, writes[p], recovering)
  <2> TAKE h \in Seq(Bufs)
  <2> TAKE bb
  <2> HAVE /\ Len(h) = Len(held[p]) + 1 /\ bb[h[Len(h)]] = lh[tail]
           /\ \A k \in 1..Len(held[p]) : bb[h[k]] = bblock[held[p][k]]
  <2>1. Len(h) = 2 /\ bb[h[1]] = tail /\ bb[h[2]] = lh[tail]
    BY ONLY <1>5, Len(h) = Len(held[p]) + 1, bb[h[Len(h)]] = lh[tail],
            \A k \in 1..Len(held[p]) : bb[h[k]] = bblock[held[p][k]]
  <2> QED
    BY <1>1, <1>5, <2>1 DEF Knows, OpLabels, Busy, CopyLabels, HeadLabels, InstLabels
<1>7. lh[tail] \in Home /\ tail \in Slots
  <2>1. tail \in 1..Len(lh) /\ tail \in 1..(nlog - 1)
    BY ONLY <1>4, <1>5, Types, BlockFacts
  <2> QED
    BY ONLY <1>4, <2>1, Types DEF Slots
<1>8. lh[tail] \in Blocks /\ \A k \in 1..Len(held[p]) : bblock[held[p][k]] # lh[tail]
  BY <1>5, <1>7, BlockFacts
<1>9. /\ l \in PcLabels /\ l \notin OpLabels /\ l \in Busy
      /\ l # "inst_release" /\ pc[p] # "inst_release"
      /\ pc[p] \notin OpLabels /\ pc[p] \in Busy /\ (l \in InstLabels <=> pc[p] \in InstLabels)
  BY <1>1 DEF PcLabels, CallLabels, OpLabels, Busy, CopyLabels, HeadLabels, InstLabels
<1> HIDE DEF l
<1> QED
  BY <1>1, <1>2, <1>3, <1>4, <1>6, <1>8, <1>9, BreadKeeps

-----------------------------------------------------------------------------
(* Writing buffers *)

\* A process that overwrites a buffer with something of its block's type, or
\* hands it to bwrite() as well, and goes on to another place of the same part
\* of the log, keeps the invariant.
LEMMA PutKeeps ==
  ASSUME IInv, NEW p \in Procs, Runs(p), NEW b \in ToSet(held[p]), NEW v, NEW l \in PcLabels,
         Typed(bblock[b], v), bdata' = [bdata EXCEPT ![b] = v],
         (io' = io /\ panicked' = panicked) \/ Bwrite(p, b),
         UNCHANGED <<disk, bblock, chain, free, info, inflight, used, owned, waiting>>,
         UNCHANGED <<valid, refcnt, holder, lru, held>>, Goto(p, l),
         UNCHANGED <<lh, outstanding, committing, asleep, tail, writes, recovering>>,
         pc[p] # "idle",
         l \in OpLabels <=> pc[p] \in OpLabels, l \in Busy <=> pc[p] \in Busy,
         l # "inst_release" /\ pc[p] # "inst_release", l \in InstLabels <=> pc[p] \in InstLabels,
         Knows(l, held[p], bblock, tail, lh, writes[p], recovering)
  PROVE  IInv' /\ ~panicked'
<1>0. /\ CacheInv /\ ContentsInv /\ TypeInv /\ SleepersMustWait /\ io[p] = Run /\ ~panicked
      /\ PlaceInv /\ ModeInv /\ RefInv /\ SpaceInv /\ (recovering => p = Boot)
  BY Running
<1>p. pc' = [pc EXCEPT ![p] = l] /\ pc'[p] = l /\ \A q \in Procs \ {p} : pc'[q] = pc[q]
  BY <1>0, Types DEF Goto
<1>1. CacheInv' /\ panicked' = panicked
  BY <1>0, PutStep
<1>2. ContentsInv'
  <2>1. DOMAIN bdata = Bufs
    BY <1>0, CacheTypes
  <2>2. \A c \in Bufs : bdata'[c] = IF c = b THEN v ELSE bdata[c]
    BY <2>1
  <2> QED
    BY <1>0, <2>2 DEF ContentsInv
<1>3. TypeInv'
  <2>1. BcacheTypeOK'
    BY <1>1 DEF CacheInv, CacheTypeOK
  <2> QED
    BY <1>0, <1>p, <2>1 DEF TypeInv, LogTypeOK
<1>4. SleepersMustWait'
  BY <1>0 DEF SleepersMustWait, MustWait
<1>5. ModeInv' /\ Operating' = Operating
  <2>1. recovering => asleep' = {}
    BY <1>0 DEF ModeInv
  <2> QED
    BY <1>0, <1>p, <2>1, ModeSame
<1>6. RefInv'
  <2>1. Pinned' = Pinned
    <3>1. \A q \in Procs : \A k \in 1..Len(lh) : Unpinned(pc'[q], tail', k) <=> Unpinned(pc[q], tail, k)
      BY <1>p DEF Unpinned
    <3> QED
      BY <3>1, PinnedSame
  <2>2. refcnt' = refcnt /\ held' = held /\ bblock' = bblock
    OBVIOUS
  <2> QED
    BY ONLY <1>0, <2>1, <2>2 DEF RefInv
<1>7. SpaceInv'
  BY <1>0, <1>5, SpaceSame
<1>8. PlaceInv'
  <2>1. \A q \in Procs \ {p} :
          Knows(pc'[q], held'[q], bblock', tail', lh', writes'[q], recovering')
    BY <1>0, <1>p, PlaceOthers
  <2> QED
    BY <1>p, <2>1 DEF PlaceInv
<1> QED
  BY ONLY <1>0, <1>1, <1>2, <1>3, <1>4, <1>5, <1>6, <1>7, <1>8 DEF IInv, RunInv

\* What a process has got last.
LEMMA MineFacts ==
  ASSUME CacheInv, NEW p \in Procs, held[p] # <<>>
  PROVE  /\ Mine(p) = held[p][Len(held[p])] /\ Mine(p) \in ToSet(held[p]) /\ Len(held[p]) \in Nat \ {0}
         /\ held[p][1] \in ToSet(held[p])
<1>1. held[p] \in Seq(Bufs) /\ \A k \in 1..Len(held[p]) : held[p][k] \in ToSet(held[p])
  BY CacheTypes
<1>2. Len(held[p]) \in Nat \ {0}
  BY ONLY <1>1, held[p] # <<>>
<1> QED
  BY ONLY <1>1, <1>2 DEF Mine, Last

LEMMA OpModifyKeeps ==
  ASSUME IInv, NEW p \in Procs, OpModify(p)
  PROVE  IInv' /\ ~panicked'
<1>1. Runs(p) /\ pc[p] = "modify"
  BY DEF OpModify, At
<1>2. PICK v \in Values : bdata' = [bdata EXCEPT ![Mine(p)] = v]
  BY DEF OpModify
<1>3. /\ UNCHANGED <<lh, outstanding, committing, asleep, tail, writes, recovering>>
      /\ UNCHANGED <<disk, bblock, chain, free, info, inflight, used, owned, waiting>>
      /\ UNCHANGED <<valid, refcnt, holder, lru, held>> /\ io' = io /\ panicked' = panicked
      /\ Goto(p, "log_write")
  BY DEF OpModify, cacheVars
<1>4. Knows("modify", held[p], bblock, tail, lh, writes[p], recovering) /\ CacheInv
  BY <1>1, Running
<1>5. /\ Len(held[p]) = 1 /\ bblock[held[p][1]] \in Home /\ held[p] # <<>>
      /\ bblock[held[p][1]] \in ToSet(lh) \/ writes[p] < OpWrites
  BY <1>4 DEF Knows
<1>6. Mine(p) \in ToSet(held[p]) /\ bblock[Mine(p)] \in Home
  BY <1>4, <1>5, MineFacts
<1>7. Typed(bblock[Mine(p)], v)
  BY <1>6, BlockFacts DEF Typed
<1>8. Knows("log_write", held[p], bblock, tail, lh, writes[p], recovering)
  BY <1>5 DEF Knows, OpLabels, Busy, CopyLabels, HeadLabels, InstLabels
<1>9. /\ "log_write" \in PcLabels /\ "log_write" \in OpLabels /\ "log_write" \notin Busy
      /\ "log_write" \notin InstLabels
      /\ "modify" \in OpLabels /\ "modify" \notin Busy /\ "modify" \notin InstLabels
  BY DEF PcLabels, CallLabels, OpLabels, Busy, CopyLabels, HeadLabels, InstLabels
<1> QED
  BY <1>1, <1>2, <1>3, <1>6, <1>7, <1>8, <1>9, PutKeeps

LEMMA HeadWriteKeeps ==
  ASSUME IInv, NEW p \in Procs, HeadWrite(p)
  PROVE  IInv' /\ ~panicked'
<1>1. Runs(p) /\ pc[p] = "head_write"
  BY DEF HeadWrite, At
<1>3. /\ UNCHANGED <<lh, outstanding, committing, asleep, tail, writes, recovering>>
      /\ UNCHANGED <<disk, bblock, chain, free, info, inflight, used, owned, waiting>>
      /\ UNCHANGED <<valid, refcnt, holder, lru, held>> /\ Bwrite(p, Mine(p))
      /\ bdata' = [bdata EXCEPT ![Mine(p)] = lh] /\ Goto(p, "head_release")
  BY DEF HeadWrite, PutAndWrite, logUnchanged
<1>4. Knows("head_write", held[p], bblock, tail, lh, writes[p], recovering) /\ CacheInv /\ TypeInv
  BY <1>1, Running
<1>5. /\ Len(held[p]) = 1 /\ bblock[held[p][1]] = header /\ writes[p] = 0 /\ held[p] # <<>>
      /\ recovering => lh = <<>>
  BY <1>4 DEF Knows, OpLabels, HeadLabels
<1>6. Mine(p) \in ToSet(held[p]) /\ bblock[Mine(p)] = header
  BY <1>4, <1>5, MineFacts
<1>7. Typed(bblock[Mine(p)], lh)
  BY <1>4, <1>6, Types DEF Typed
<1>8. Knows("head_release", held[p], bblock, tail, lh, writes[p], recovering)
  BY <1>5 DEF Knows, OpLabels, Busy, CopyLabels, HeadLabels, InstLabels
<1>9. /\ "head_release" \in PcLabels /\ "head_release" \notin OpLabels /\ "head_release" \in Busy
      /\ "head_release" \notin InstLabels
      /\ "head_write" \notin OpLabels /\ "head_write" \in Busy /\ "head_write" \notin InstLabels
  BY DEF PcLabels, CallLabels, OpLabels, Busy, CopyLabels, HeadLabels, InstLabels
<1> QED
  BY <1>1, <1>3, <1>6, <1>7, <1>8, <1>9, PutKeeps

\* write_log() copies a home block to the log, install_trans() the other way.
LEMMA CopyKeeps ==
  ASSUME IInv, NEW p \in Procs, LogCopy(p) \/ InstCopy(p)
  PROVE  IInv' /\ ~panicked'
<1> DEFINE log == pc[p] = "log_copy"
           to == IF log THEN held[p][1] ELSE held[p][2]
           from == IF log THEN held[p][2] ELSE held[p][1]
           l == IF log THEN "log_release" ELSE "inst_unpin"
<1>1. Runs(p) /\ pc[p] \in {"log_copy", "inst_copy"}
  BY DEF LogCopy, InstCopy, At
<1>3. /\ UNCHANGED <<lh, outstanding, committing, asleep, tail, writes, recovering>>
      /\ UNCHANGED <<disk, bblock, chain, free, info, inflight, used, owned, waiting>>
      /\ UNCHANGED <<valid, refcnt, holder, lru, held>> /\ Bwrite(p, to)
      /\ bdata' = [bdata EXCEPT ![to] = bdata[from]] /\ Goto(p, l)
  BY <1>1 DEF LogCopy, InstCopy, PutAndWrite, logUnchanged, At
<1>4. /\ Knows(pc[p], held[p], bblock, tail, lh, writes[p], recovering)
      /\ CacheInv /\ TypeInv /\ ContentsInv /\ io[p] = Run
  BY <1>1, Running
<1>5. /\ Len(held[p]) = 2 /\ bblock[held[p][1]] = tail /\ bblock[held[p][2]] = lh[tail]
      /\ writes[p] = 0 /\ tail <= Len(lh) /\ (log => ~recovering)
  BY <1>1, <1>4 DEF Knows, OpLabels, CopyLabels, InstLabels
<1>6. /\ held[p][1] \in ToSet(held[p]) /\ held[p][2] \in ToSet(held[p])
      /\ lh[tail] \in Home /\ tail \in Slots
  <2>1. \A k \in 1..2 : held[p][k] \in ToSet(held[p])
    BY ONLY <1>4, <1>5, CacheTypes, p \in Procs
  <2>2. tail \in 1..Len(lh) /\ tail \in 1..(nlog - 1)
    BY ONLY <1>4, <1>5, Types, BlockFacts
  <2> QED
    BY ONLY <1>4, <2>1, <2>2, Types DEF Slots
<1>7. to \in ToSet(held[p]) /\ from \in ToSet(held[p]) /\ bblock[to] # header /\ bblock[from] # header
  BY <1>5, <1>6, BlockFacts
<1>8. Typed(bblock[to], bdata[from])
  <2>1. from \in Bufs /\ valid[from]
    BY ONLY <1>4, <1>7, p \in Procs, Locked
  <2>2. bdata[from] \in Values
    BY ONLY <1>4, <1>7, <2>1 DEF ContentsInv, Typed
  <2> QED
    BY ONLY <1>7, <2>2 DEF Typed
<1>9. Knows(l, held[p], bblock, tail, lh, writes[p], recovering)
  BY <1>1, <1>5 DEF Knows, OpLabels, Busy, CopyLabels, HeadLabels, InstLabels
<1>10. /\ l \in PcLabels /\ l \notin OpLabels /\ l \in Busy /\ pc[p] # "idle"
       /\ l # "inst_release" /\ pc[p] # "inst_release"
       /\ pc[p] \notin OpLabels /\ pc[p] \in Busy /\ (l \in InstLabels <=> pc[p] \in InstLabels)
  BY <1>1 DEF PcLabels, CallLabels, OpLabels, Busy, CopyLabels, HeadLabels, InstLabels
<1> HIDE DEF l, to, from
<1> QED
  BY <1>1, <1>3, <1>7, <1>8, <1>9, <1>10, PutKeeps

-----------------------------------------------------------------------------
(* brelse() *)

\* The cache after brelse(), whatever the log does.
LEMMA ReleaseEffect ==
  ASSUME IInv, NEW p \in Procs, Runs(p), NEW b \in ToSet(held[p]), Brelse(p, b)
  PROVE  /\ CacheInv' /\ ContentsInv' /\ Releases(p, b) /\ bblock' = bblock /\ ~panicked'
         /\ RefsAre(refcnt', held', bblock', Pinned)
<1>1. CacheInv /\ ContentsInv /\ RefInv /\ io[p] = Run
  BY Running
<1>2. CacheInv' /\ Releases(p, b) /\ RefsAre(refcnt', held', bblock', Pinned)
  <2>1. RefsAre(refcnt, held, bblock, Pinned)
    BY <1>1 DEF RefInv
  <2> QED
    BY ONLY <1>1, <2>1, p \in Procs, b \in ToSet(held[p]), Brelse(p, b), BlockFacts, BrelseStep
<1>3. UNCHANGED <<disk, bdata, bblock, valid>> /\ ~panicked'
  BY ONLY <1>2 DEF Releases, diskVars
<1> QED
  BY ONLY <1>1, <1>2, <1>3, ContentsFrame

\* A step of one process changes what is pinned only by what it does to it.
LEMMA PinnedMoves ==
  ASSUME TypeInv, ModeInv, NEW p \in Procs, NEW l, pc' = [pc EXCEPT ![p] = l],
         UNCHANGED <<lh, recovering>>, l \in Busy <=> pc[p] \in Busy,
         pc[p] \in Busy \/ tail' = tail,
         \A k \in 1..Len(lh) : Unpinned(pc[p], tail, k) <=> Unpinned(l, tail', k)
  PROVE  Pinned' = Pinned
<1>p. pc'[p] = l /\ \A q \in Procs \ {p} : pc'[q] = pc[q]
  BY Types
<1>1. ASSUME NEW q \in Procs \ {p}
      PROVE  \A k \in 1..Len(lh) : Unpinned(pc'[q], tail', k) <=> Unpinned(pc[q], tail, k)
  <2>1. CASE pc[p] \in Busy
    <3>1. pc[q] \notin Busy
      BY ONLY ModeInv, <1>1, <2>1, p \in Procs DEF ModeInv
    <3>2. pc[q] \notin InstLabels /\ pc'[q] \notin InstLabels
      BY ONLY <1>p, <1>1, <3>1 DEF Busy
    <3> QED
      BY ONLY <3>2 DEF Unpinned
  <2>2. CASE tail' = tail
    BY ONLY <1>p, <1>1, <2>2
  <2> QED
    BY ONLY <2>1, <2>2, pc[p] \in Busy \/ tail' = tail
<1>2. \A q \in Procs : \A k \in 1..Len(lh) : Unpinned(pc'[q], tail', k) <=> Unpinned(pc[q], tail, k)
  BY ONLY <1>p, <1>1, \A k \in 1..Len(lh) : Unpinned(pc[p], tail, k) <=> Unpinned(l, tail', k)
<1> QED
  BY ONLY <1>2, UNCHANGED <<lh, recovering>>, PinnedSame

\* A process that gives up a buffer and goes on in the same part of the log.
LEMMA ReleaseKeeps ==
  ASSUME IInv, NEW p \in Procs, Runs(p), NEW b \in ToSet(held[p]), Brelse(p, b),
         NEW l \in PcLabels, pc' = [pc EXCEPT ![p] = l],
         UNCHANGED <<outstanding, committing, asleep, writes, recovering>>,
         pc[p] # "idle", l \in OpLabels <=> pc[p] \in OpLabels, l \in Busy <=> pc[p] \in Busy,
         lh' \in Heads, tail' \in 1..(LOGSIZE + 1),
         lh' = lh \/ recovering, pc[p] \in Busy \/ (lh' = lh /\ tail' = tail),
         \A k \in 1..Len(lh) : Unpinned(pc[p], tail, k) <=> Unpinned(l, tail', k),
         \A h \in Seq(Bufs) :
           Len(h) = Len(held[p]) - 1
           /\ (\A j \in 1..Len(h) : held[p][1] = b => h[j] = held[p][j + 1])
           /\ (\A j \in 1..Len(h) : Last(held[p]) = b => h[j] = held[p][j])
           => Knows(l, h, bblock, tail', lh', writes[p], recovering)
  PROVE  IInv' /\ ~panicked'
<1>0. /\ CacheInv /\ ContentsInv /\ TypeInv /\ SleepersMustWait
      /\ PlaceInv /\ ModeInv /\ RefInv /\ SpaceInv /\ (recovering => p = Boot)
  BY Running
<1>1. /\ CacheInv' /\ ContentsInv' /\ Releases(p, b) /\ bblock' = bblock /\ ~panicked'
      /\ RefsAre(refcnt', held', bblock', Pinned)
  BY ReleaseEffect
<1>p. pc' \in [Procs -> PcLabels] /\ pc'[p] = l /\ \A q \in Procs \ {p} : pc'[q] = pc[q]
  <2>1. pc \in [Procs -> PcLabels]
    BY ONLY <1>0, Types
  <2> QED
    BY ONLY <2>1, pc' = [pc EXCEPT ![p] = l], l \in PcLabels, p \in Procs
<1>u. /\ outstanding' = outstanding /\ committing' = committing /\ asleep' = asleep
      /\ writes' = writes /\ recovering' = recovering
  OBVIOUS
<1>r. recovering => asleep = {}
  BY ONLY <1>0 DEF ModeInv
<1>2. TypeInv'
  <2>1. BcacheTypeOK'
    BY ONLY <1>1 DEF CacheInv, CacheTypeOK
  <2>2. lh' \in Seq(Home) /\ IsInjective(lh')
    BY DEF Heads
  <2> QED
    BY <1>0, <1>p, <2>1, <2>2 DEF TypeInv, LogTypeOK, Heads
<1>3. SleepersMustWait'
  BY ONLY <1>0, <1>u, <1>r, lh' = lh \/ recovering DEF SleepersMustWait, MustWait
<1>4. ModeInv' /\ Operating' = Operating
  BY <1>0, <1>r, ModeSame
<1>5. Pinned' = Pinned
  <2>1. CASE recovering
    BY ONLY <1>u, <2>1 DEF Pinned, PinnedSlots
  <2>2. CASE ~recovering
    BY ONLY <1>0, <1>u, <2>2, p \in Procs, lh' = lh \/ recovering, PinnedMoves,
            pc' = [pc EXCEPT ![p] = l], l \in Busy <=> pc[p] \in Busy,
            pc[p] \in Busy \/ (lh' = lh /\ tail' = tail),
            \A k \in 1..Len(lh) : Unpinned(pc[p], tail, k) <=> Unpinned(l, tail', k)
  <2> QED
    BY ONLY <2>1, <2>2
<1>6. RefInv'
  BY ONLY <1>0, <1>1, <1>5 DEF RefInv
<1>7. SpaceInv'
  BY ONLY <1>0, <1>4, <1>u, lh' = lh \/ recovering, SpaceSame
<1>8. PlaceInv'
  <2>1. \A q \in Procs \ {p} :
          Knows(pc'[q], held'[q], bblock', tail', lh', writes'[q], recovering')
    <3>1. \A q \in Procs \ {p} : held'[q] = held[q]
      BY ONLY <1>1 DEF Releases
    <3> QED
      BY ONLY <1>0, <1>1, <1>p, <1>u, <3>1, p \in Procs, PlaceOthers,
              pc[p] \in Busy \/ (lh' = lh /\ tail' = tail)
  <2>2. Knows(l, held'[p], bblock, tail', lh', writes[p], recovering)
    <3> DEFINE h == held'[p]
    <3>1. /\ h \in Seq(Bufs) /\ Len(h) = Len(held[p]) - 1
          /\ \E i \in 1..Len(held[p]) :
               held[p][i] = b /\ \A j \in 1..(Len(held[p]) - 1) :
                                   h[j] = IF j < i THEN held[p][j] ELSE held[p][j + 1]
      BY ONLY <1>1 DEF Releases
    <3>2. held[p] \in Seq(Bufs) /\ IsInjective(held[p])
      BY ONLY <1>0, p \in Procs, CacheTypes
    <3> HIDE DEF h
    <3>3. PICK i \in 1..Len(held[p]) :
            held[p][i] = b /\ \A j \in 1..(Len(held[p]) - 1) :
                                h[j] = IF j < i THEN held[p][j] ELSE held[p][j + 1]
      BY ONLY <3>1
    <3>4. Len(held[p]) \in Nat /\ DOMAIN held[p] = 1..Len(held[p])
      BY ONLY <3>2
    <3>5. ASSUME held[p][1] = b
          PROVE  \A j \in 1..Len(h) : h[j] = held[p][j + 1]
      <4>1. i = 1
        BY ONLY <3>2, <3>3, <3>4, <3>5 DEF IsInjective
      <4> QED
        BY ONLY <3>1, <3>3, <3>4, <4>1
    <3>6. ASSUME Last(held[p]) = b
          PROVE  \A j \in 1..Len(h) : h[j] = held[p][j]
      <4>1. i = Len(held[p])
        BY ONLY <3>2, <3>3, <3>4, <3>6 DEF IsInjective, Last
      <4> QED
        BY ONLY <3>1, <3>3, <3>4, <4>1
    <3>7. h \in Seq(Bufs) /\ Len(h) = Len(held[p]) - 1
      BY ONLY <3>1
    <3>8. Knows(l, h, bblock, tail', lh', writes[p], recovering)
      BY <3>5, <3>6, <3>7
    <3> QED
      BY ONLY <3>8 DEF h
  <2> QED
    BY ONLY <1>1, <1>p, <1>u, <2>1, <2>2 DEF PlaceInv
<1> QED
  BY ONLY <1>1, <1>2, <1>3, <1>4, <1>6, <1>7, <1>8 DEF IInv, RunInv

LEMMA OpBrelseKeeps ==
  ASSUME IInv, NEW p \in Procs, OpBrelse(p) \/ ReadDone(p)
  PROVE  IInv' /\ ~panicked'
<1> DEFINE l == IF pc[p] = "release" THEN "op" ELSE "idle"
<1>1. Runs(p) /\ pc[p] \in {"release", "read"}
  BY DEF OpBrelse, ReadDone, At
<1>2. Brelse(p, Mine(p)) /\ pc' = [pc EXCEPT ![p] = l]
  BY DEF OpBrelse, ReadDone, At, Goto
<1>3. UNCHANGED <<lh, outstanding, committing, asleep, tail, writes, recovering>>
  BY DEF OpBrelse, ReadDone
<1>4. /\ Knows(pc[p], held[p], bblock, tail, lh, writes[p], recovering)
      /\ CacheInv /\ TypeInv
  BY <1>1, Running
<1>5. Len(held[p]) = 1 /\ held[p] # <<>> /\ (pc[p] # "release" => writes[p] = 0)
  BY <1>1, <1>4 DEF Knows, OpLabels
<1>6. Mine(p) \in ToSet(held[p])
  BY <1>4, <1>5, MineFacts
<1>7. \A h \in Seq(Bufs) :
        Len(h) = Len(held[p]) - 1 => Knows(l, h, bblock, tail, lh, writes[p], recovering)
  <2> TAKE h \in Seq(Bufs)
  <2>1. Len(h) = Len(held[p]) - 1 => h = <<>>
    BY <1>5
  <2> QED
    BY <1>1, <1>5, <2>1 DEF Knows, OpLabels, Busy, CopyLabels, HeadLabels, InstLabels
<1>8. lh' \in Heads /\ tail' \in 1..(LOGSIZE + 1) /\ lh' = lh /\ tail' = tail
  BY <1>3, <1>4 DEF TypeInv, LogTypeOK
<1>9. /\ l \in PcLabels /\ l \notin Busy /\ l \notin InstLabels /\ (l \in OpLabels <=> pc[p] \in OpLabels)
      /\ pc[p] # "idle" /\ pc[p] \notin Busy /\ pc[p] \notin InstLabels
  BY <1>1 DEF PcLabels, CallLabels, OpLabels, Busy, CopyLabels, HeadLabels, InstLabels
<1>10. \A k \in 1..Len(lh) : Unpinned(pc[p], tail, k) <=> Unpinned(l, tail', k)
  BY <1>9 DEF Unpinned
<1> HIDE DEF l
<1> QED
  BY <1>1, <1>2, <1>3, <1>6, <1>7, <1>8, <1>9, <1>10, ReleaseKeeps

\* The two buffers of an iteration are released one after the other.
LEMMA PairReleaseKeeps ==
  ASSUME IInv, NEW p \in Procs, LogRelease(p) \/ InstRelease(p)
  PROVE  IInv' /\ ~panicked'
<1> DEFINE log == pc[p] = "log_release"
           b == IF log THEN Mine(p) ELSE held[p][1]
           next == IF log THEN "log_to" ELSE "inst_log"
           l == IF Len(held[p]) = 1 THEN next ELSE pc[p]
           t == IF Len(held[p]) = 1 THEN tail + 1 ELSE tail
<1>1. Runs(p) /\ pc[p] \in {"log_release", "inst_release"}
  BY DEF LogRelease, InstRelease, At
<1>3. UNCHANGED <<lh, outstanding, committing, asleep, writes, recovering>>
  BY DEF LogRelease, InstRelease, logUnchanged
<1>4. /\ Knows(pc[p], held[p], bblock, tail, lh, writes[p], recovering)
      /\ CacheInv /\ TypeInv
  BY <1>1, Running
<1>t. pc \in [Procs -> PcLabels] /\ tail \in Nat \ {0} /\ Len(lh) \in Nat /\ Len(lh) <= LOGSIZE
      /\ LOGSIZE \in Nat /\ lh \in Heads /\ held[p] \in Seq(Bufs)
  BY ONLY <1>4, Types, CacheTypes, BlockFacts, p \in Procs
<1>2. Brelse(p, b) /\ pc' = [pc EXCEPT ![p] = l] /\ tail' = t
  <2>1. Brelse(p, b)
    BY <1>1 DEF LogRelease, InstRelease, At
  <2>2. CASE Len(held[p]) = 1
    BY <1>1, <2>2 DEF LogRelease, InstRelease, At, Goto
  <2>3. CASE Len(held[p]) # 1
    <3>1. pc' = pc /\ tail' = tail
      BY <2>3 DEF LogRelease, InstRelease
    <3>2. [pc EXCEPT ![p] = pc[p]] = pc
      BY ONLY <1>t, p \in Procs
    <3>3. l = pc[p] /\ t = tail
      BY ONLY <2>3
    <3>4. Brelse(p, b)
      BY <2>1
    <3> HIDE DEF l, t, b
    <3> QED
      BY ONLY <3>1, <3>2, <3>3, <3>4
  <2> QED
    BY <2>1, <2>2, <2>3
<1>5. /\ Len(held[p]) \in {1, 2} /\ held[p] # <<>> /\ writes[p] = 0 /\ tail <= Len(lh)
      /\ (log => ~recovering)
  <2>1. /\ Len(held[p]) \in {1, 2} /\ writes[p] = 0 /\ tail <= Len(lh)
        /\ pc[p] = "log_release" => ~recovering
    <3> HIDE DEF log, l, t, b, next
    <3>1. pc[p] \in {"log_release", "inst_release"}
      BY ONLY <1>1
    <3> QED
      BY ONLY <1>4, <3>1 DEF Knows, OpLabels, CopyLabels, InstLabels
  <2>3. held[p] # <<>>
    <3>1. \A h \in Seq(Bufs) : Len(h) \in {1, 2} => h # <<>>
      OBVIOUS
    <3> QED
      BY ONLY <1>t, <2>1, <3>1
  <2> QED
    BY <2>1, <2>3
<1>6. b \in ToSet(held[p])
  BY <1>4, <1>5, MineFacts
<1>7. \A h \in Seq(Bufs) :
        Len(h) = Len(held[p]) - 1 => Knows(l, h, bblock, t, lh, writes[p], recovering)
  <2> TAKE h \in Seq(Bufs)
  <2>1. CASE Len(held[p]) = 1
    <3>1. Len(h) = Len(held[p]) - 1 => h = <<>>
      BY <2>1
    <3>2. tail + 1 <= Len(lh) + 1
      BY ONLY <1>5, <1>t
    <3> QED
      BY <1>1, <1>5, <2>1, <3>1, <3>2 DEF Knows, OpLabels, Busy, CopyLabels, HeadLabels, InstLabels
  <2>2. CASE Len(held[p]) = 2
    BY <1>1, <1>5, <2>2 DEF Knows, OpLabels, Busy, CopyLabels, HeadLabels, InstLabels
  <2> QED
    BY <1>5, <2>1, <2>2
<1>8. lh' = lh /\ lh' \in Heads /\ t \in 1..(LOGSIZE + 1)
  BY ONLY <1>3, <1>5, <1>t
<1>9. /\ l \in PcLabels /\ l \notin OpLabels /\ l \in Busy
      /\ pc[p] # "idle" /\ pc[p] \in Busy /\ pc[p] \notin OpLabels
  BY <1>1 DEF PcLabels, CallLabels, OpLabels, Busy, CopyLabels, HeadLabels, InstLabels
<1>10. \A k \in 1..Len(lh) : Unpinned(pc[p], tail, k) <=> Unpinned(l, t, k)
  <2> TAKE k \in 1..Len(lh)
  <2>1. k < tail + 1 <=> k < tail \/ k = tail
    BY ONLY <1>t
  <2>2. CASE log
    BY <2>2 DEF Unpinned, InstLabels
  <2>3. CASE pc[p] = "inst_release"
    BY <2>1, <2>3 DEF Unpinned, InstLabels
  <2> QED
    BY <1>1, <2>2, <2>3
<1> HIDE DEF l, t, b
<1> QED
  BY <1>1, <1>2, <1>3, <1>6, <1>7, <1>8, <1>9, <1>10, ReleaseKeeps

\* read_head(): what the header's buffer contains is a transaction.
LEMMA HeadLoadKeeps ==
  ASSUME IInv, NEW p \in Procs, HeadLoad(p)
  PROVE  IInv' /\ ~panicked'
<1>1. Runs(p) /\ pc[p] = "head_load" /\ Brelse(p, Mine(p)) /\ pc' = [pc EXCEPT ![p] = "inst_log"]
      /\ lh' = bdata[Mine(p)] /\ tail' = 1
  BY DEF HeadLoad, At, Goto
<1>3. UNCHANGED <<outstanding, committing, asleep, writes, recovering>>
  BY DEF HeadLoad
<1>4. /\ Knows("head_load", held[p], bblock, tail, lh, writes[p], recovering)
      /\ CacheInv /\ TypeInv /\ ContentsInv /\ io[p] = Run
  BY <1>1, Running
<1>5. /\ Len(held[p]) = 1 /\ held[p] # <<>> /\ bblock[held[p][1]] = header /\ writes[p] = 0
      /\ recovering
  BY <1>4 DEF Knows, OpLabels
<1>6. Mine(p) \in ToSet(held[p]) /\ bblock[Mine(p)] = header
  BY <1>4, <1>5, MineFacts
<1>7. lh' \in Heads
  <2>1. Mine(p) \in Bufs /\ valid[Mine(p)]
    BY ONLY <1>4, <1>6, p \in Procs, Locked
  <2>2. Typed(header, bdata[Mine(p)])
    BY ONLY <1>4, <1>6, <2>1 DEF ContentsInv
  <2> QED
    BY ONLY <1>1, <2>2 DEF Typed
<1>8. \A h \in Seq(Bufs) :
        Len(h) = Len(held[p]) - 1 => Knows("inst_log", h, bblock, 1, lh', writes[p], recovering)
  <2> TAKE h \in Seq(Bufs)
  <2>1. Len(h) = Len(held[p]) - 1 => h = <<>>
    BY <1>5
  <2>2. Len(lh') \in Nat
    BY ONLY <1>7 DEF Heads
  <2>3. 1 <= Len(lh') + 1
    BY ONLY <2>2
  <2> QED
    BY <1>5, <2>1, <2>3 DEF Knows, OpLabels, Busy, CopyLabels, HeadLabels, InstLabels
<1>9. /\ "inst_log" \in PcLabels /\ "inst_log" \notin OpLabels /\ "inst_log" \in Busy
      /\ "head_load" \notin OpLabels /\ "head_load" \in Busy /\ "head_load" \notin InstLabels
  BY DEF PcLabels, CallLabels, OpLabels, Busy, CopyLabels, HeadLabels, InstLabels
<1>10. \A k \in 1..Len(lh) : Unpinned(pc[p], tail, k) <=> Unpinned("inst_log", tail', k)
  BY <1>1, <1>9 DEF Unpinned
<1>11. tail' \in 1..(LOGSIZE + 1)
  BY ONLY <1>1, BlockFacts
<1> QED
  BY <1>1, <1>3, <1>5, <1>6, <1>7, <1>8, <1>9, <1>10, <1>11, ReleaseKeeps

\* write_head() returns: to write_log()'s caller, or from the end of a commit.
LEMMA HeadReleaseCommits ==
  ASSUME IInv, NEW p \in Procs, HeadRelease(p), ~recovering
  PROVE  IInv' /\ ~panicked'
<1> DEFINE l == IF lh # <<>> THEN "inst_log" ELSE "finish"
<1>1. /\ Runs(p) /\ pc[p] = "head_release" /\ Brelse(p, Mine(p)) /\ pc' = [pc EXCEPT ![p] = l]
      /\ tail' = 1 /\ recovering' = recovering
  <2>1. recovering \in BOOLEAN
    <3>1. TypeInv
      BY DEF IInv
    <3> QED
      BY <3>1, Types
  <2> QED
    BY <2>1 DEF HeadRelease, At, Goto
<1>3. UNCHANGED <<lh, outstanding, committing, asleep, writes>>
  BY DEF HeadRelease
<1>4. /\ Knows("head_release", held[p], bblock, tail, lh, writes[p], recovering)
      /\ CacheInv /\ TypeInv
  BY <1>1, Running
<1>5. Len(held[p]) = 1 /\ held[p] # <<>> /\ writes[p] = 0
  BY <1>4 DEF Knows, OpLabels
<1>6. Mine(p) \in ToSet(held[p])
  BY <1>4, <1>5, MineFacts
<1>8. \A h \in Seq(Bufs) :
        Len(h) = Len(held[p]) - 1 => Knows(l, h, bblock, 1, lh, writes[p], recovering)
  <2> TAKE h \in Seq(Bufs)
  <2>1. Len(h) = Len(held[p]) - 1 => h = <<>>
    BY <1>5
  <2>2. Len(lh) \in Nat
    BY <1>4, Types
  <2>3. 1 <= Len(lh) + 1
    BY ONLY <2>2
  <2> QED
    BY <1>5, <2>1, <2>3 DEF Knows, OpLabels, Busy, CopyLabels, HeadLabels, InstLabels
<1>9. /\ l \in PcLabels /\ l \notin OpLabels /\ l \in Busy
      /\ "head_release" \notin OpLabels /\ "head_release" \in Busy /\ "head_release" \notin InstLabels
  BY DEF PcLabels, CallLabels, OpLabels, Busy, CopyLabels, HeadLabels, InstLabels
<1>10. \A k \in 1..Len(lh) : Unpinned(pc[p], tail, k) <=> Unpinned(l, tail', k)
  BY <1>1, <1>9 DEF Unpinned, InstLabels
<1>11. tail' \in 1..(LOGSIZE + 1) /\ lh' = lh /\ lh' \in Heads
  BY ONLY <1>1, <1>3, <1>4, BlockFacts DEF TypeInv
<1> HIDE DEF l
<1> QED
  BY <1>1, <1>3, <1>6, <1>8, <1>9, <1>10, <1>11, ReleaseKeeps

-----------------------------------------------------------------------------
(* Steps that leave the cache alone *)

LEMMA QuietEffect ==
  ASSUME CacheInv, ContentsInv, UNCHANGED <<diskVars, cacheVars>>
  PROVE  /\ CacheInv' /\ ContentsInv'
         /\ held' = held /\ bblock' = bblock /\ refcnt' = refcnt /\ panicked' = panicked
<1>u. /\ held' = held /\ bblock' = bblock /\ refcnt' = refcnt /\ panicked' = panicked
      /\ disk' = disk /\ bdata' = bdata /\ valid' = valid /\ holder' = holder /\ lru' = lru
  BY DEF diskVars, cacheVars
<1>1. refcnt \in [Bufs -> Nat] /\ panicked \in BOOLEAN
      /\ \A q \in Procs : \A c \in ToSet(held[q]) : refcnt[c] > 0
  BY DEF CacheInv, CacheTypeOK, BcacheTypeOK, HeldInv
<1>2. CacheInv'
  BY <1>1, <1>u, CountStep
<1> QED
  BY <1>2, <1>u, ContentsFrame

\* A process that goes on in the same part of the log and leaves the cache alone.
LEMMA QuietKeeps ==
  ASSUME IInv, NEW p \in Procs, Runs(p), UNCHANGED <<diskVars, cacheVars>>,
         NEW l \in PcLabels, pc' = [pc EXCEPT ![p] = l],
         UNCHANGED <<outstanding, committing, writes, recovering>>,
         l \in OpLabels <=> pc[p] \in OpLabels, l \in Busy <=> pc[p] \in Busy,
         lh' \in Heads, tail' \in 1..(LOGSIZE + 1), asleep' \subseteq Procs,
         lh' = lh \/ (lh' = <<>> /\ (recovering \/ committing)),
         pc[p] \in Busy \/ (lh' = lh /\ tail' = tail),
         recovering => p = Boot /\ asleep' = {}, asleep' = asleep \/ MustWait,
         Pinned' = Pinned,
         Knows(l, held[p], bblock, tail', lh', writes[p], recovering)
  PROVE  IInv'
<1>0. /\ CacheInv /\ ContentsInv /\ TypeInv /\ SleepersMustWait
      /\ PlaceInv /\ ModeInv /\ RefInv /\ SpaceInv
  BY Running
<1>1. /\ CacheInv' /\ ContentsInv'
      /\ held' = held /\ bblock' = bblock /\ refcnt' = refcnt /\ panicked' = panicked
  BY ONLY <1>0, UNCHANGED <<diskVars, cacheVars>>, QuietEffect
<1>p. pc' \in [Procs -> PcLabels] /\ pc'[p] = l /\ \A q \in Procs \ {p} : pc'[q] = pc[q]
  <2>1. pc \in [Procs -> PcLabels]
    BY ONLY <1>0, Types
  <2> QED
    BY ONLY <2>1, pc' = [pc EXCEPT ![p] = l], l \in PcLabels, p \in Procs
<1>u. /\ outstanding' = outstanding /\ committing' = committing
      /\ writes' = writes /\ recovering' = recovering
  OBVIOUS
<1>2. TypeInv'
  <2>1. BcacheTypeOK'
    BY ONLY <1>1 DEF CacheInv, CacheTypeOK
  <2>2. lh' \in Seq(Home) /\ IsInjective(lh')
    BY DEF Heads
  <2> QED
    BY <1>0, <1>p, <2>1, <2>2 DEF TypeInv, LogTypeOK
<1>3. SleepersMustWait'
  <2>1. CASE recovering
    BY <2>1 DEF SleepersMustWait
  <2>2. CASE committing
    BY <2>2, <1>u DEF SleepersMustWait, MustWait
  <2>3. CASE lh' = lh
    BY ONLY <1>0, <1>u, <2>3, asleep' = asleep \/ MustWait DEF SleepersMustWait, MustWait
  <2> QED
    BY <2>1, <2>2, <2>3
<1>4. ModeInv' /\ Operating' = Operating
  <2>1. lh' = lh \/ lh' = <<>>
    OBVIOUS
  <2> QED
    BY <1>0, <2>1, ModeSame
<1>6. RefInv'
  BY ONLY <1>0, <1>1, Pinned' = Pinned DEF RefInv
<1>7. SpaceInv'
  BY ONLY <1>0, <1>4, <1>u, lh' = lh \/ (lh' = <<>> /\ (recovering \/ committing)), SpaceSame
<1>8. PlaceInv'
  <2>1. \A q \in Procs \ {p} :
          Knows(pc'[q], held'[q], bblock', tail', lh', writes'[q], recovering')
    BY ONLY <1>0, <1>1, <1>p, <1>u, p \in Procs, PlaceOthers,
            pc[p] \in Busy \/ (lh' = lh /\ tail' = tail)
  <2> QED
    BY <1>1, <1>p, <1>u, <2>1 DEF PlaceInv
<1> QED
  BY ONLY <1>1, <1>2, <1>3, <1>4, <1>6, <1>7, <1>8 DEF IInv, RunInv

LEMMA BeginWaitKeeps ==
  ASSUME IInv, NEW p \in Procs, BeginCall(p) \/ BeginSleep(p)
  PROVE  IInv'
<1>1. /\ Runs(p) /\ pc[p] \in {"idle", "begin"} /\ UNCHANGED <<diskVars, cacheVars>>
      /\ UNCHANGED <<lh, outstanding, committing, tail, writes, recovering>>
      /\ (pc[p] = "idle" => ~recovering /\ asleep' = asleep)
      /\ (pc[p] = "begin" => MustWait /\ asleep' = asleep \union {p})
  BY DEF BeginCall, BeginSleep, At
<1>4. /\ Knows(pc[p], held[p], bblock, tail, lh, writes[p], recovering)
      /\ CacheInv /\ TypeInv /\ ModeInv /\ (recovering /\ pc[p] # "idle" => p = Boot /\ pc[p] \in Busy)
  BY <1>1, Running, RecoveringBoot
<1>2. pc' = [pc EXCEPT ![p] = "begin"]
  <2>1. CASE BeginCall(p)
    BY <2>1 DEF BeginCall, Goto
  <2>2. CASE BeginSleep(p)
    <3>1. pc' = pc /\ pc[p] = "begin"
      BY <2>2 DEF BeginSleep, At
    <3>2. [pc EXCEPT ![p] = pc[p]] = pc
      BY <1>4, Types
    <3> QED
      BY <3>1, <3>2
  <2> QED
    BY <2>1, <2>2
<1>5. held[p] = <<>> /\ writes[p] = 0
  BY <1>1, <1>4 DEF Knows, OpLabels
<1>9. /\ "begin" \in PcLabels /\ "begin" \notin OpLabels /\ "begin" \notin Busy
      /\ pc[p] \notin OpLabels /\ pc[p] \notin Busy /\ pc[p] \notin InstLabels /\ "begin" \notin InstLabels
  BY <1>1 DEF PcLabels, CallLabels, OpLabels, Busy, CopyLabels, HeadLabels, InstLabels
<1>6. ~recovering
  BY <1>1, <1>4, <1>9
<1>7. Knows("begin", held[p], bblock, tail, lh, writes[p], recovering)
  BY <1>5 DEF Knows, OpLabels, Busy, CopyLabels, HeadLabels, InstLabels
<1>8. lh' \in Heads /\ tail' \in 1..(LOGSIZE + 1) /\ asleep' \subseteq Procs
  <2>1. lh \in Heads /\ tail \in 1..(LOGSIZE + 1) /\ asleep \subseteq Procs
    BY <1>4 DEF TypeInv, LogTypeOK
  <2> QED
    BY <1>1, <2>1
<1>10. Pinned' = Pinned
  <2>1. \A k \in 1..Len(lh) : Unpinned(pc[p], tail, k) <=> Unpinned("begin", tail', k)
    BY <1>9 DEF Unpinned
  <2> QED
    BY <1>1, <1>2, <1>4, <1>9, <2>1, PinnedMoves
<1>11. /\ lh' = lh /\ tail' = tail /\ (asleep' = asleep \/ MustWait)
       /\ UNCHANGED <<outstanding, committing, writes, recovering>>
       /\ UNCHANGED <<diskVars, cacheVars>> /\ Runs(p)
  BY <1>1
<1>12. Knows("begin", held[p], bblock, tail', lh', writes[p], recovering)
  BY ONLY <1>7, <1>11
<1> QED
  BY ONLY IInv, p \in Procs, <1>2, <1>6, <1>8, <1>9, <1>10, <1>11, <1>12, QuietKeeps

\* From commit() to write_log(), to write_head(), and from install_trans() on.
LEMMA StageKeeps ==
  ASSUME IInv, NEW p \in Procs,
         \/ CommitStart(p)
         \/ (LogTo(p) \/ InstLog(p)) /\ ~(tail <= Len(lh))
  PROVE  IInv'
<1> DEFINE l == IF pc[p] = "commit" THEN IF lh = <<>> THEN "finish" ELSE "log_to" ELSE "head_get"
           t == IF pc[p] = "commit" THEN 1 ELSE tail
           s == IF pc[p] = "inst_log" THEN <<>> ELSE lh
<1>1. /\ Runs(p) /\ pc[p] \in {"commit", "log_to", "inst_log"} /\ UNCHANGED <<diskVars, cacheVars>>
      /\ UNCHANGED <<outstanding, committing, asleep, writes, recovering>>
      /\ pc' = [pc EXCEPT ![p] = l] /\ tail' = t /\ lh' = s
      /\ pc[p] = "inst_log" => ~(tail <= Len(lh))
  BY DEF CommitStart, LogTo, InstLog, At, Goto, logUnchanged
<1>4. /\ Knows(pc[p], held[p], bblock, tail, lh, writes[p], recovering)
      /\ CacheInv /\ TypeInv /\ ModeInv /\ (recovering => p = Boot)
  BY <1>1, Running
<1>5. /\ tail <= Len(lh) + 1 \/ pc[p] = "commit"
      /\ pc[p] \in {"commit", "log_to"} => ~recovering
  BY <1>1, <1>4 DEF Knows, OpLabels, CopyLabels
<1>w. held[p] = <<>> /\ writes[p] = 0
  BY <1>1, <1>4 DEF Knows, OpLabels
<1>t. /\ tail \in 1..(LOGSIZE + 1) /\ lh \in Heads /\ Len(lh) \in Nat /\ asleep \subseteq Procs
      /\ tail \in Nat \ {0} /\ 1 \in 1..(LOGSIZE + 1)
  BY <1>4, Types, BlockFacts DEF TypeInv, LogTypeOK
<1>9. /\ l \in PcLabels /\ l \notin OpLabels /\ l \in Busy /\ l \notin InstLabels
      /\ pc[p] # "idle" /\ pc[p] \in Busy /\ pc[p] \notin OpLabels
  BY <1>1 DEF PcLabels, CallLabels, OpLabels, Busy, CopyLabels, HeadLabels, InstLabels
<1>6. lh' \in Heads /\ t \in 1..(LOGSIZE + 1)
  <2>1. <<>> \in Heads
    BY LogAssumption DEF Heads, IsInjective
  <2> QED
    BY <1>1, <1>t, <2>1
<1>7. Knows(l, held[p], bblock, t, s, writes[p], recovering)
  <2>1. 1 <= Len(lh) + 1
    BY ONLY <1>t
  <2>2. CASE pc[p] = "commit"
    BY <1>5, <1>w, <2>1, <2>2 DEF Knows, OpLabels, Busy, CopyLabels, HeadLabels, InstLabels
  <2>3. CASE pc[p] = "log_to"
    BY <1>5, <1>w, <2>3 DEF Knows, OpLabels, Busy, CopyLabels, HeadLabels, InstLabels
  <2>4. CASE pc[p] = "inst_log"
    BY <1>w, <2>4 DEF Knows, OpLabels, Busy, CopyLabels, HeadLabels, InstLabels
  <2> QED
    BY <1>1, <2>2, <2>3, <2>4
<1>8. s = lh \/ (s = <<>> /\ (recovering \/ committing))
  BY <1>4, <1>9 DEF ModeInv
<1>10. Pinned' = Pinned
  <2>1. CASE pc[p] = "inst_log"
    <3>1. PinnedSlots = {}
      <4>1. \A k \in 1..Len(lh) : Unpinned(pc[p], tail, k)
        <5> TAKE k \in 1..Len(lh)
        <5>1. k < tail
          BY <1>1, <1>t, <2>1
        <5> QED
          BY <2>1, <5>1 DEF Unpinned, InstLabels
      <4> QED
        BY <4>1 DEF PinnedSlots
    <3>2. PinnedSlots' = {}
      <4>1. lh' = <<>>
        BY ONLY <1>1, <2>1
      <4>2. 1..Len(lh') = {}
        BY ONLY <4>1
      <4> QED
        BY ONLY <4>2 DEF PinnedSlots
    <3> QED
      BY ONLY <3>1, <3>2 DEF Pinned
  <2>2. CASE pc[p] # "inst_log"
    <3>1. pc[p] \notin InstLabels
      BY <1>1, <2>2 DEF InstLabels
    <3>2. \A k \in 1..Len(lh) : Unpinned(pc[p], tail, k) <=> Unpinned(l, tail', k)
      BY ONLY <1>9, <3>1 DEF Unpinned
    <3>3. lh' = lh /\ recovering' = recovering
      BY ONLY <1>1, <2>2
    <3> HIDE DEF l
    <3> QED
      BY <1>1, <1>4, <1>9, <3>2, <3>3, PinnedMoves
  <2> QED
    BY <2>1, <2>2
<1>11. recovering => asleep = {}
  BY <1>4 DEF ModeInv
<1> HIDE DEF l, s, t
<1> QED
  BY <1>1, <1>4, <1>6, <1>7, <1>8, <1>9, <1>10, <1>11, <1>t, QuietKeeps

-----------------------------------------------------------------------------
(* The ends of commit() and of recovery *)

\* With an empty log and no operation nothing is pinned and there is room.
LEMMA EmptyPinned == lh = <<>> => Pinned = {}
<1> SUFFICES ASSUME lh = <<>>
             PROVE  Pinned = {}
  OBVIOUS
<1>1. 1..Len(lh) = {}
  OBVIOUS
<1> QED
  BY ONLY <1>1 DEF Pinned, PinnedSlots

LEMMA EmptySpace == Operating = {} /\ lh = <<>> => SpaceInv
<1> SUFFICES ASSUME Operating = {}, lh = <<>>
             PROVE  SpaceInv
  OBVIOUS
<1>1. Left(MAXOPBLOCKS) = {} /\ Left(OpWrites) = {}
  BY DEF Left
<1>2. Cardinality({}) = 0 /\ Len(lh) = 0
  BY FS_EmptySet
<1>3. 0 <= LOGSIZE /\ 0 < nlog - 1
  <2>1. LOGSIZE \in Nat /\ nlog \in Nat /\ OpWrites \in Nat \ {0} /\ OpWrites < nlog - 1
    BY LogAssumption
  <2> QED
    BY ONLY <2>1
<1>4. Cardinality(Left(MAXOPBLOCKS)) = 0 /\ Cardinality(Left(OpWrites)) = 0
  BY ONLY <1>1, <1>2
<1> QED
  BY ONLY <1>2, <1>3, <1>4 DEF SpaceInv

\* A process that has nothing to do with the log.
LEMMA KnowsIdle == \A bb, t, l, rec : Knows("idle", <<>>, bb, t, l, 0, rec)
BY DEF Knows, OpLabels, CopyLabels, HeadLabels, InstLabels

\* initlog() returns.
LEMMA HeadReleaseBoots ==
  ASSUME IInv, NEW p \in Procs, HeadRelease(p), recovering
  PROVE  IInv' /\ ~panicked'
<1>1. Runs(p) /\ pc[p] = "head_release" /\ Brelse(p, Mine(p)) /\ tail' = 1
  BY DEF HeadRelease, At
<1>0. /\ CacheInv /\ ContentsInv /\ TypeInv /\ PlaceInv /\ ModeInv /\ p = Boot
      /\ Knows("head_release", held[p], bblock, tail, lh, writes[p], recovering)
  BY <1>1, Running
<1>2. Len(held[p]) = 1 /\ held[p] # <<>> /\ writes[p] = 0 /\ lh = <<>>
  BY <1>0 DEF Knows, OpLabels, HeadLabels
<1>3. /\ UNCHANGED <<lh, outstanding, committing, asleep, writes>>
      /\ recovering' = FALSE /\ pc' = [pc EXCEPT ![p] = "idle"]
  BY <1>2 DEF HeadRelease, Goto
<1>4. /\ CacheInv' /\ ContentsInv' /\ Releases(p, Mine(p)) /\ bblock' = bblock /\ ~panicked'
      /\ RefsAre(refcnt', held', bblock', Pinned)
  BY <1>0, <1>1, <1>2, MineFacts, ReleaseEffect
<1>5. asleep = {} /\ ~committing /\ \A q \in Procs \ {p} : pc[q] = "idle"
  BY <1>0 DEF ModeInv
<1>6. \A q \in Procs : pc'[q] = "idle"
  BY <1>0, <1>3, <1>5, Types
<1>7. Operating = {} /\ Operating' = {} /\ outstanding = 0
  <2>1. Operating = {} /\ Operating' = {}
    BY <1>1, <1>5, <1>6 DEF Operating, OpLabels
  <2> QED
    BY <1>0, <2>1, FS_EmptySet DEF ModeInv
<1>8. TypeInv'
  <2>1. BcacheTypeOK'
    BY ONLY <1>4 DEF CacheInv, CacheTypeOK
  <2>2. "idle" \in PcLabels /\ 1 \in 1..(LOGSIZE + 1)
    BY BlockFacts DEF PcLabels, CallLabels
  <2>3. pc' \in [Procs -> PcLabels]
    BY <1>0, <1>3, <2>2, Types
  <2> QED
    BY ONLY <1>0, <1>1, <1>3, <2>1, <2>2, <2>3 DEF TypeInv, LogTypeOK, Heads
<1>9. SleepersMustWait'
  BY <1>3, <1>5 DEF SleepersMustWait
<1>10. ModeInv'
  <2>1. \A q \in Procs : pc'[q] \notin Busy
    BY <1>6 DEF Busy, CopyLabels, HeadLabels, InstLabels
  <2>2. outstanding' = Cardinality(Operating')
    BY ONLY <1>3, <1>7, FS_EmptySet
  <2> QED
    BY ONLY <1>2, <1>3, <1>5, <2>1, <2>2 DEF ModeInv
<1>11. RefInv'
  <2>1. Pinned = {}
    BY <1>2, EmptyPinned
  <2>2. (lh = <<>> => Pinned = {})'
    BY EmptyPinned, PTL
  <2>3. Pinned' = {}
    BY ONLY <1>2, <1>3, <2>2
  <2> QED
    BY ONLY <1>4, <2>1, <2>3 DEF RefInv
<1>12. SpaceInv'
  <2>1. (Operating = {} /\ lh = <<>> => SpaceInv)'
    BY EmptySpace, PTL
  <2> QED
    BY ONLY <1>2, <1>3, <1>7, <2>1
<1>13. PlaceInv'
  <2>1. \A q \in Procs : held'[q] = <<>> /\ writes'[q] = 0
    <3>1. ASSUME NEW q \in Procs \ {p}
          PROVE  held'[q] = <<>> /\ writes'[q] = 0
      <4>1. Knows("idle", held[q], bblock, tail, lh, writes[q], recovering)
        BY <1>0, <1>5 DEF PlaceInv
      <4>2. held'[q] = held[q]
        BY ONLY <1>4, <3>1 DEF Releases
      <4> QED
        BY <1>3, <4>1, <4>2 DEF Knows, OpLabels
    <3>2. held'[p] = <<>>
      <4>1. held'[p] \in Seq(Bufs) /\ Len(held'[p]) = 0
        BY ONLY <1>2, <1>4 DEF Releases
      <4> QED
        BY ONLY <4>1
    <3> QED
      BY <1>2, <1>3, <3>1, <3>2
  <2> QED
    BY ONLY <1>6, <2>1, KnowsIdle DEF PlaceInv
<1> QED
  BY ONLY <1>4, <1>8, <1>9, <1>10, <1>11, <1>12, <1>13 DEF IInv, RunInv

LEMMA CommitDoneKeeps ==
  ASSUME IInv, NEW p \in Procs, CommitDone(p)
  PROVE  IInv'
<1>1. /\ Runs(p) /\ pc[p] = "finish" /\ committing' = FALSE /\ asleep' = {}
      /\ pc' = [pc EXCEPT ![p] = "idle"] /\ UNCHANGED <<diskVars, cacheVars>>
      /\ lh' = lh /\ outstanding' = outstanding /\ tail' = tail /\ writes' = writes
      /\ recovering' = recovering
  BY DEF CommitDone, At, Goto
<1>0. /\ CacheInv /\ ContentsInv /\ TypeInv /\ PlaceInv /\ ModeInv /\ RefInv /\ ~panicked
      /\ Knows("finish", held[p], bblock, tail, lh, writes[p], recovering)
  BY <1>1, Running
<1>2. held[p] = <<>> /\ writes[p] = 0 /\ lh = <<>> /\ ~recovering
  BY <1>0 DEF Knows, OpLabels
<1>4. /\ CacheInv' /\ ContentsInv' /\ held' = held /\ bblock' = bblock /\ refcnt' = refcnt
      /\ panicked' = panicked
  BY ONLY <1>0, <1>1, QuietEffect
<1>5. committing /\ outstanding = 0 /\ \A q \in Procs \ {p} : pc[q] \notin Busy
  <2>1. pc[p] \in Busy
    BY <1>1 DEF Busy
  <2> QED
    BY ONLY <1>0, <1>2, <2>1, p \in Procs DEF ModeInv
<1>6. pc'[p] = "idle" /\ \A q \in Procs \ {p} : pc'[q] = pc[q]
  BY <1>0, <1>1, Types
<1>7. \A q \in Procs : pc'[q] \notin Busy
  BY <1>5, <1>6 DEF Busy, CopyLabels, HeadLabels, InstLabels
<1>8. Operating = {} /\ Operating' = {}
  <2>1. \A q \in Procs : pc[q] \notin OpLabels
    BY ONLY <1>0, <1>5, NoneOperates
  <2>2. \A q \in Procs : pc'[q] \notin OpLabels
    BY <1>6, <2>1 DEF OpLabels
  <2> QED
    BY ONLY <2>1, <2>2 DEF Operating
<1>9. TypeInv'
  <2>1. BcacheTypeOK'
    BY ONLY <1>4 DEF CacheInv, CacheTypeOK
  <2>2. pc' \in [Procs -> PcLabels]
    <3>1. "idle" \in PcLabels
      BY DEF PcLabels, CallLabels
    <3> QED
      BY <1>0, <1>1, <3>1, Types
  <2> QED
    BY ONLY <1>0, <1>1, <2>1, <2>2 DEF TypeInv, LogTypeOK, Heads
<1>10. SleepersMustWait'
  BY <1>1 DEF SleepersMustWait
<1>11. ModeInv'
  <2>1. outstanding' = Cardinality(Operating')
    BY ONLY <1>1, <1>5, <1>8, FS_EmptySet
  <2> QED
    BY ONLY <1>1, <1>2, <1>7, <2>1 DEF ModeInv
<1>12. RefInv'
  <2>1. (lh = <<>> => Pinned = {})'
    BY EmptyPinned, PTL
  <2>2. Pinned' = Pinned
    BY ONLY <1>1, <1>2, <2>1, EmptyPinned
  <2> QED
    BY ONLY <1>0, <1>4, <2>2 DEF RefInv
<1>13. SpaceInv'
  <2>1. (Operating = {} /\ lh = <<>> => SpaceInv)'
    BY EmptySpace, PTL
  <2> QED
    BY ONLY <1>1, <1>2, <1>5, <1>8, <2>1
<1>14. PlaceInv'
  <2>1. \A q \in Procs \ {p} :
          Knows(pc'[q], held'[q], bblock', tail', lh', writes'[q], recovering')
    BY ONLY <1>0, <1>1, <1>4, <1>6, p \in Procs, PlaceOthers
  <2>2. Knows(pc'[p], held'[p], bblock', tail', lh', writes'[p], recovering')
    <3>1. pc'[p] = "idle" /\ held'[p] = <<>> /\ writes'[p] = 0
      BY ONLY <1>1, <1>2, <1>4, <1>6
    <3> QED
      BY ONLY <3>1, KnowsIdle
  <2> QED
    BY ONLY <2>1, <2>2 DEF PlaceInv
<1> QED
  BY ONLY <1>4, <1>9, <1>10, <1>11, <1>12, <1>13, <1>14 DEF IInv, RunInv

-----------------------------------------------------------------------------
(* begin_op() and end_op() *)

\* What operations have reserved, and what they may still write.
LEMMA Reserved ==
  ModeInv => \A n \in Nat :
    /\ IsFiniteSet(Left(n)) /\ Cardinality(Left(n)) \in Nat
    /\ Cardinality(Left(n)) <= outstanding * n
<1> SUFFICES ASSUME ModeInv, NEW n \in Nat
             PROVE  /\ IsFiniteSet(Left(n)) /\ Cardinality(Left(n)) \in Nat
                    /\ Cardinality(Left(n)) <= outstanding * n
  OBVIOUS
<1>1. IsFiniteSet(Operating) /\ Cardinality(Operating) = outstanding
  <2>1. IsFiniteSet(Operating)
    BY BlockFacts, FS_Subset DEF Operating
  <2> QED
    BY <2>1 DEF ModeInv
<1>2. IsFiniteSet(1..n) /\ Cardinality(1..n) = n
  <2>1. 1 \in Int /\ n \in Int
    OBVIOUS
  <2>2. IsFiniteSet(1..n) /\ Cardinality(1..n) = IF 1 > n THEN 0 ELSE n - 1 + 1
    BY ONLY <2>1, FS_Interval
  <2> QED
    BY ONLY <2>2, n \in Nat
<1>3. IsFiniteSet(Operating \X (1..n)) /\ Cardinality(Operating \X (1..n)) = outstanding * n
  BY ONLY <1>1, <1>2, FS_Product
<1>4. Left(n) \subseteq Operating \X (1..n)
  BY DEF Left
<1>5. IsFiniteSet(Left(n)) /\ Cardinality(Left(n)) <= Cardinality(Operating \X (1..n))
  BY ONLY <1>3, <1>4, FS_Subset
<1>6. Cardinality(Left(n)) \in Nat
  BY ONLY <1>5, FS_CardinalityType
<1> QED
  BY ONLY <1>3, <1>5, <1>6

\* A process at a place that is neither idle nor part of commit() or of
\* recovery does not run while the machine recovers.
LEMMA NotRecovering ==
  ASSUME IInv, NEW p \in Procs, Runs(p), pc[p] # "idle", pc[p] \notin Busy
  PROVE  ~recovering
BY Running, RecoveringBoot

\* While nobody commits or recovers, the whole transaction is pinned.
LEMMA AllPinned ==
  ~recovering /\ (\A q \in Procs : pc[q] \notin Busy) => Pinned = {lh[k] : k \in 1..Len(lh)}
<1> SUFFICES ASSUME ~recovering, \A q \in Procs : pc[q] \notin Busy
             PROVE  Pinned = {lh[k] : k \in 1..Len(lh)}
  OBVIOUS
<1>1. \A q \in Procs : \A k \in 1..Len(lh) : ~Unpinned(pc[q], tail, k)
  BY DEF Unpinned, Busy
<1>2. PinnedSlots = 1..Len(lh)
  BY <1>1 DEF PinnedSlots
<1> QED
  BY ONLY <1>2 DEF Pinned

\* The room in the log suffices for the operation that begins.
LEMMA RoomFor ==
  ASSUME NEW s \in Nat, NEW o \in Nat, NEW x \in Nat, NEW y \in Nat,
         s + (o + 1) * MAXOPBLOCKS <= LOGSIZE, o = 0 => s = 0,
         x <= (o + 1) * MAXOPBLOCKS, y <= (o + 1) * OpWrites
  PROVE  s + x <= LOGSIZE /\ s + y < nlog - 1
<1>1. /\ LOGSIZE \in Nat /\ nlog \in Nat /\ MAXOPBLOCKS \in Nat /\ OpWrites \in Nat
      /\ OpWrites < MAXOPBLOCKS /\ OpWrites < nlog - 1
      /\ LOGSIZE - 2 * (MAXOPBLOCKS - OpWrites) < nlog - 1
  BY LogAssumption
<1>2. s + x <= LOGSIZE
  <2> DEFINE r == (o + 1) * MAXOPBLOCKS
  <2>1. r \in Nat /\ s + r <= LOGSIZE /\ x <= r
    BY <1>1
  <2> HIDE DEF r
  <2> QED
    BY ONLY <1>1, <2>1, s \in Nat, x \in Nat
<1>3. CASE o = 0
  <2>1. s = 0 /\ y <= OpWrites
    BY ONLY <1>1, <1>3, o = 0 => s = 0, y <= (o + 1) * OpWrites
  <2> QED
    BY ONLY <1>1, <1>2, <2>1, y \in Nat
<1>4. CASE o > 0
  <2> DEFINE d == MAXOPBLOCKS - OpWrites
  <2>1. d \in Nat
    BY ONLY <1>1
  <2>2. (o + 1) * MAXOPBLOCKS = (o + 1) * OpWrites + (o + 1) * d
    BY ONLY <1>1, o \in Nat
  <2>3. (o + 1) * d >= 2 * d
    <3>1. (o + 1) * d = 2 * d + (o - 1) * d
      BY ONLY <2>1, o \in Nat
    <3>2. o - 1 \in Nat
      BY ONLY <1>4, o \in Nat
    <3>3. (o - 1) * d >= 0
      BY ONLY <2>1, <3>2
    <3> QED
      BY ONLY <2>1, <3>1, <3>3, o \in Nat
  <2>4. (o + 1) * OpWrites \in Nat /\ (o + 1) * d \in Nat
    BY ONLY <1>1, <2>1, o \in Nat
  <2>5. LOGSIZE - 2 * d < nlog - 1
    BY ONLY <1>1
  <2> HIDE DEF d
  <2> QED
    BY ONLY <1>1, <1>2, <2>1, <2>2, <2>3, <2>4, <2>5, s \in Nat, y \in Nat,
            s + (o + 1) * MAXOPBLOCKS <= LOGSIZE, y <= (o + 1) * OpWrites
<1> QED
  BY <1>2, <1>3, <1>4

LEMMA BeginOpKeeps ==
  ASSUME IInv, NEW p \in Procs, BeginOp(p)
  PROVE  IInv'
<1>1. /\ Runs(p) /\ pc[p] = "begin" /\ ~MustWait /\ UNCHANGED <<diskVars, cacheVars>>
      /\ outstanding' = outstanding + 1 /\ pc' = [pc EXCEPT ![p] = "op"]
      /\ lh' = lh /\ committing' = committing /\ asleep' = asleep /\ tail' = tail
      /\ writes' = writes /\ recovering' = recovering
  BY DEF BeginOp, At, Goto
<1>0. /\ CacheInv /\ ContentsInv /\ TypeInv /\ SleepersMustWait
      /\ PlaceInv /\ ModeInv /\ RefInv /\ SpaceInv /\ ~panicked
      /\ Knows("begin", held[p], bblock, tail, lh, writes[p], recovering)
  BY <1>1, Running
<1>l. /\ "begin" \notin Busy /\ "begin" \notin OpLabels /\ "op" \notin Busy /\ "op" \in OpLabels
      /\ "op" \in PcLabels
  BY DEF PcLabels, CallLabels, OpLabels, Busy, CopyLabels, HeadLabels, InstLabels
<1>2. held[p] = <<>> /\ writes[p] = 0
  BY <1>0, <1>l DEF Knows
<1>3. ~recovering /\ ~committing /\ asleep = {}
  <2>1. ~recovering
    BY <1>1, <1>l, NotRecovering
  <2> QED
    BY ONLY <1>0, <1>1, <2>1 DEF MustWait, SleepersMustWait
<1>4. \A q \in Procs : pc[q] \notin Busy
  BY ONLY <1>0, <1>3 DEF ModeInv
<1>t. /\ pc \in [Procs -> PcLabels] /\ outstanding \in Nat /\ Len(lh) \in Nat
      /\ IsFiniteSet(Procs)
  BY ONLY <1>0, Types, BlockFacts
<1>p. /\ pc' \in [Procs -> PcLabels] /\ pc'[p] = "op" /\ \A q \in Procs \ {p} : pc'[q] = pc[q]
  BY ONLY <1>1, <1>l, <1>t, p \in Procs
<1>5. \A q \in Procs : pc'[q] \notin Busy
  BY ONLY <1>4, <1>l, <1>p
<1>6. /\ CacheInv' /\ ContentsInv' /\ held' = held /\ bblock' = bblock /\ refcnt' = refcnt
      /\ panicked' = panicked
  BY ONLY <1>0, <1>1, QuietEffect
<1>7. Operating' = Operating \union {p} /\ p \notin Operating /\ IsFiniteSet(Operating)
  <2>1. Operating' = Operating \union {p} /\ p \notin Operating
    BY ONLY <1>1, <1>l, <1>p, p \in Procs DEF Operating
  <2> QED
    BY <1>t, <2>1, FS_Subset DEF Operating
<1>8. ModeInv'
  <2>1. outstanding' = Cardinality(Operating')
    <3>1. Cardinality(Operating') = Cardinality(Operating) + 1
      BY ONLY <1>7, FS_AddElement
    <3> QED
      BY ONLY <1>0, <1>1, <3>1 DEF ModeInv
  <2>2. outstanding' # 0
    BY ONLY <1>1, <1>t
  <2> QED
    BY ONLY <1>1, <1>3, <1>5, <2>1, <2>2 DEF ModeInv
<1>9. TypeInv'
  <2>1. BcacheTypeOK'
    BY ONLY <1>6 DEF CacheInv, CacheTypeOK
  <2>2. outstanding' \in 0..Cardinality(Procs)
    <3>1. Operating' \subseteq Procs
      BY DEF Operating
    <3>2. Cardinality(Operating') <= Cardinality(Procs) /\ Cardinality(Procs) \in Nat
      BY ONLY <1>t, <3>1, FS_Subset, FS_CardinalityType
    <3>3. outstanding' = Cardinality(Operating')
      BY ONLY <1>8 DEF ModeInv
    <3> QED
      BY ONLY <1>1, <1>t, <3>2, <3>3
  <2> QED
    BY ONLY <1>0, <1>1, <1>p, <2>1, <2>2 DEF TypeInv, LogTypeOK, Heads
<1>10. SleepersMustWait'
  BY ONLY <1>1, <1>3 DEF SleepersMustWait
<1>11. RefInv'
  <2>1. Pinned' = Pinned
    <3>1. \A q \in Procs : \A k \in 1..Len(lh) : Unpinned(pc'[q], tail', k) <=> Unpinned(pc[q], tail, k)
      BY ONLY <1>4, <1>5 DEF Unpinned, Busy
    <3> QED
      BY ONLY <1>1, <3>1, PinnedSame
  <2> QED
    BY ONLY <1>0, <1>6, <2>1 DEF RefInv
<1>12. SpaceInv'
  <2>1. (ModeInv => \A n \in Nat :
           /\ IsFiniteSet(Left(n)) /\ Cardinality(Left(n)) \in Nat
           /\ Cardinality(Left(n)) <= outstanding * n)'
    BY Reserved, PTL
  <2>2. \A n \in Nat : Cardinality(Left(n)') \in Nat /\ Cardinality(Left(n)') <= (outstanding + 1) * n
    BY ONLY <1>1, <1>8, <2>1
  <2>3. MAXOPBLOCKS \in Nat /\ OpWrites \in Nat
    BY BlockFacts
  <2>4. Len(lh) + (outstanding + 1) * MAXOPBLOCKS <= LOGSIZE
    <3>1. LOGSIZE \in Nat /\ (outstanding + 1) * MAXOPBLOCKS \in Nat
      BY <1>t, BlockFacts
    <3> QED
      BY ONLY <1>1, <1>t, <3>1 DEF MustWait
  <2>5. outstanding = 0 => Len(lh) = 0
    BY ONLY <1>0, <1>3 DEF ModeInv
  <2>6. /\ Len(lh) + Cardinality(Left(MAXOPBLOCKS)') <= LOGSIZE
        /\ Len(lh) + Cardinality(Left(OpWrites)') < nlog - 1
    BY ONLY <1>t, <2>2, <2>3, <2>4, <2>5, RoomFor
  <2> QED
    BY ONLY <1>1, <2>6 DEF SpaceInv
<1>13. PlaceInv'
  <2>1. \A q \in Procs \ {p} :
          Knows(pc'[q], held'[q], bblock', tail', lh', writes'[q], recovering')
    BY ONLY <1>0, <1>1, <1>6, <1>p, p \in Procs, PlaceOthers
  <2>2. Knows("op", held[p], bblock, tail, lh, writes[p], recovering)
    BY ONLY <1>2, <1>l DEF Knows, OpLabels, CopyLabels, HeadLabels, InstLabels
  <2> QED
    BY ONLY <1>1, <1>6, <1>p, <2>1, <2>2 DEF PlaceInv
<1> QED
  BY ONLY <1>6, <1>8, <1>9, <1>10, <1>11, <1>12, <1>13 DEF IInv, RunInv

\* end_op() never finds log.committing set, and what others may write is what
\* they could write before.
LEMMA EndOpKeeps ==
  ASSUME IInv, NEW p \in Procs, EndOp(p)
  PROVE  IInv' /\ ~panicked'
<1> DEFINE l == IF outstanding = 1 THEN "commit" ELSE "idle"
<1>1. /\ Runs(p) /\ pc[p] = "op" /\ UNCHANGED <<diskVars, valid, refcnt, holder, lru, held>>
      /\ outstanding' = outstanding - 1 /\ panicked' = committing /\ pc' = [pc EXCEPT ![p] = l]
      /\ committing' = (committing \/ outstanding = 1)
      /\ asleep' = IF outstanding = 1 THEN asleep ELSE {}
      /\ writes' = [writes EXCEPT ![p] = 0]
      /\ lh' = lh /\ tail' = tail /\ recovering' = recovering
  <2>1. committing \in BOOLEAN
    BY Types DEF IInv
  <2> QED
    BY <2>1 DEF EndOp, At, Goto
<1>0. /\ CacheInv /\ ContentsInv /\ TypeInv /\ SleepersMustWait
      /\ PlaceInv /\ ModeInv /\ RefInv /\ SpaceInv /\ ~panicked
      /\ Knows("op", held[p], bblock, tail, lh, writes[p], recovering)
  BY <1>1, Running
<1>l. /\ "op" \notin Busy /\ "op" \in OpLabels /\ l \notin OpLabels /\ l \in PcLabels
      /\ (l \in Busy <=> outstanding = 1) /\ l \notin InstLabels /\ "op" \notin InstLabels
  BY DEF PcLabels, CallLabels, OpLabels, Busy, CopyLabels, HeadLabels, InstLabels
<1>2. held[p] = <<>>
  BY <1>0 DEF Knows
<1>t. /\ pc \in [Procs -> PcLabels] /\ outstanding \in Nat /\ Len(lh) \in Nat
      /\ writes \in [Procs -> 0..OpWrites] /\ IsFiniteSet(Procs)
  BY ONLY <1>0, Types, BlockFacts
<1>7. Operating' = Operating \ {p} /\ p \in Operating /\ IsFiniteSet(Operating)
  <2>1. pc'[p] = l /\ \A q \in Procs \ {p} : pc'[q] = pc[q]
    BY ONLY <1>1, <1>t, p \in Procs
  <2>2. Operating' = Operating \ {p} /\ p \in Operating
    BY ONLY <1>1, <1>l, <2>1, p \in Procs DEF Operating
  <2> QED
    BY <1>t, <2>2, FS_Subset DEF Operating
<1>c. outstanding = Cardinality(Operating) /\ Cardinality(Operating') = outstanding - 1 /\ outstanding > 0
  <2>1. outstanding = Cardinality(Operating)
    BY ONLY <1>0 DEF ModeInv
  <2>2. Cardinality(Operating') = Cardinality(Operating) - 1
    BY ONLY <1>7, FS_RemoveElement
  <2>3. Cardinality(Operating) # 0
    BY ONLY <1>7, FS_EmptySet
  <2> QED
    BY ONLY <1>t, <2>1, <2>2, <2>3
<1>3. ~recovering /\ ~committing
  <2>1. ~recovering
    BY <1>1, <1>l, NotRecovering
  <2> QED
    BY ONLY <1>0, <1>c, <2>1 DEF ModeInv
<1>4. \A q \in Procs : pc[q] \notin Busy
  BY ONLY <1>0, <1>3 DEF ModeInv
<1> HIDE DEF l
<1>p. /\ pc' \in [Procs -> PcLabels] /\ pc'[p] = l /\ \A q \in Procs \ {p} : pc'[q] = pc[q]
      /\ writes' \in [Procs -> 0..OpWrites]
      /\ writes'[p] = 0 /\ \A q \in Procs \ {p} : writes'[q] = writes[q]
  <2>1. 0 \in 0..OpWrites
    BY BlockFacts
  <2> QED
    BY ONLY <1>1, <1>l, <1>t, <2>1, p \in Procs
<1>5. \A q \in Procs \ {p} : pc'[q] \notin Busy
  BY ONLY <1>4, <1>p
<1>6. CacheInv' /\ ContentsInv' /\ held' = held /\ bblock' = bblock /\ refcnt' = refcnt /\ ~panicked'
  <2>1. /\ held' = held /\ bblock' = bblock /\ refcnt' = refcnt /\ valid' = valid
        /\ disk' = disk /\ bdata' = bdata
    BY ONLY <1>1 DEF diskVars
  <2>2. refcnt \in [Bufs -> Nat] /\ \A q \in Procs : \A c \in ToSet(held[q]) : refcnt[c] > 0
    BY <1>0 DEF CacheInv, CacheTypeOK, BcacheTypeOK, HeldInv
  <2>3. panicked' = FALSE
    BY <1>1, <1>3
  <2>4. CacheInv'
    BY <1>0, <1>1, <2>1, <2>2, <2>3, CountStep
  <2> QED
    BY ONLY <1>0, <2>1, <2>3, <2>4, ContentsFrame
<1>8. ModeInv'
  <2>1. outstanding' = Cardinality(Operating')
    BY ONLY <1>1, <1>c
  <2>2. \A q \in Procs : pc'[q] \in Busy <=> q = p /\ outstanding = 1
    BY ONLY <1>5, <1>l, <1>p
  <2>3. committing' <=> outstanding = 1
    BY ONLY <1>1, <1>3
  <2>4. outstanding' = 0 <=> outstanding = 1
    BY ONLY <1>1, <1>t
  <2> QED
    BY ONLY <1>1, <1>3, <2>1, <2>2, <2>3, <2>4, p \in Procs DEF ModeInv
<1>9. TypeInv'
  <2>1. BcacheTypeOK'
    BY ONLY <1>6 DEF CacheInv, CacheTypeOK
  <2>2. outstanding' \in 0..Cardinality(Procs)
    <3>1. outstanding \in 0..Cardinality(Procs) /\ Cardinality(Procs) \in Nat
      BY <1>0, <1>t, FS_CardinalityType DEF TypeInv, LogTypeOK
    <3> QED
      BY ONLY <1>1, <1>c, <1>t, <3>1
  <2>3. committing' \in BOOLEAN
    BY ONLY <1>1
  <2>4. asleep' \subseteq Procs
    BY <1>0, <1>1 DEF TypeInv, LogTypeOK
  <2> QED
    BY ONLY <1>0, <1>1, <1>p, <2>1, <2>2, <2>3, <2>4 DEF TypeInv, LogTypeOK, Heads
<1>10. SleepersMustWait'
  BY ONLY <1>1 DEF SleepersMustWait, MustWait
<1>11. RefInv'
  <2>1. Pinned' = Pinned
    <3>1. \A q \in Procs : \A k \in 1..Len(lh) : Unpinned(pc'[q], tail', k) <=> Unpinned(pc[q], tail, k)
      BY ONLY <1>1, <1>4, <1>l, <1>p DEF Unpinned, Busy
    <3> QED
      BY ONLY <1>1, <3>1, PinnedSame
  <2> QED
    BY ONLY <1>0, <1>6, <2>1 DEF RefInv
<1>12. SpaceInv'
  <2>1. ASSUME NEW n \in Nat
        PROVE  Left(n)' \subseteq Left(n)
    <3>1. \A q \in Operating' : q \in Operating /\ writes'[q] = writes[q]
      <4>1. Operating \subseteq Procs
        BY DEF Operating
      <4> QED
        BY ONLY <1>7, <1>p, <4>1
    <3> QED
      BY ONLY <3>1 DEF Left
  <2>2. \A n \in Nat : IsFiniteSet(Left(n)) /\ Cardinality(Left(n)) \in Nat
    BY ONLY <1>0, Reserved
  <2>3. \A n \in Nat : Cardinality(Left(n)') <= Cardinality(Left(n)) /\ Cardinality(Left(n)') \in Nat
    BY ONLY <2>1, <2>2, FS_Subset, FS_CardinalityType
  <2>4. MAXOPBLOCKS \in Nat /\ OpWrites \in Nat /\ LOGSIZE \in Nat /\ nlog \in Nat
    BY BlockFacts
  <2>5. /\ Len(lh) + Cardinality(Left(MAXOPBLOCKS)) <= LOGSIZE
        /\ Len(lh) + Cardinality(Left(OpWrites)) < nlog - 1
    BY ONLY <1>0, <1>3 DEF SpaceInv
  <2>6. /\ Len(lh) + Cardinality(Left(MAXOPBLOCKS)') <= LOGSIZE
        /\ Len(lh) + Cardinality(Left(OpWrites)') < nlog - 1
    <3>1. ASSUME NEW n \in Nat, NEW r \in Nat
          PROVE  /\ Len(lh) + Cardinality(Left(n)) <= r => Len(lh) + Cardinality(Left(n)') <= r
                 /\ Len(lh) + Cardinality(Left(n)) < r => Len(lh) + Cardinality(Left(n)') < r
      <4>1. /\ Cardinality(Left(n)) \in Nat /\ Cardinality(Left(n)') \in Nat
            /\ Cardinality(Left(n)') <= Cardinality(Left(n))
        BY ONLY <2>2, <2>3, n \in Nat
      <4> QED
        BY ONLY <1>t, <3>1, <4>1
    <3>2. nlog - 1 \in Nat
      BY ONLY <2>4, LogAssumption
    <3> QED
      BY ONLY <2>4, <2>5, <3>1, <3>2
  <2> QED
    BY ONLY <1>1, <2>6 DEF SpaceInv
<1>13. PlaceInv'
  <2>1. \A q \in Procs \ {p} :
          Knows(pc'[q], held'[q], bblock', tail', lh', writes'[q], recovering')
    BY ONLY <1>0, <1>1, <1>6, <1>p, p \in Procs, PlaceOthers
  <2>2. Knows(l, held[p], bblock, tail, lh, 0, recovering)
    BY ONLY <1>2, <1>3, <1>l DEF l, Knows, OpLabels, CopyLabels, HeadLabels, InstLabels
  <2> QED
    BY ONLY <1>1, <1>6, <1>p, <2>1, <2>2 DEF PlaceInv
<1> QED
  BY ONLY <1>6, <1>8, <1>9, <1>10, <1>11, <1>12, <1>13 DEF IInv, RunInv

-----------------------------------------------------------------------------
(* log_write() and bunpin() *)

\* log_write() records a block that the log has room for, pins its buffer, and
\* never panics.
LEMMA LogWriteKeeps ==
  ASSUME IInv, NEW p \in Procs, LogWrite(p)
  PROVE  IInv' /\ ~panicked'
<1> DEFINE b == Mine(p)
           x == bblock[b]
<1>1. /\ Runs(p) /\ pc[p] = "log_write" /\ UNCHANGED <<diskVars, valid, holder, lru, held>>
      /\ pc' = [pc EXCEPT ![p] = "release"] /\ outstanding' = outstanding
      /\ committing' = committing /\ asleep' = asleep
      /\ tail' = tail /\ recovering' = recovering
  BY DEF LogWrite, At, Goto
<1>0. /\ CacheInv /\ ContentsInv /\ TypeInv /\ SleepersMustWait /\ io[p] = Run
      /\ PlaceInv /\ ModeInv /\ RefInv /\ SpaceInv /\ ~panicked
      /\ Knows("log_write", held[p], bblock, tail, lh, writes[p], recovering)
  BY <1>1, Running
<1>l. /\ "log_write" \notin Busy /\ "log_write" \in OpLabels /\ "release" \notin Busy
      /\ "release" \in OpLabels /\ "release" \in PcLabels
  BY DEF PcLabels, CallLabels, OpLabels, Busy, CopyLabels, HeadLabels, InstLabels
<1>2. /\ Len(held[p]) = 1 /\ held[p] # <<>> /\ bblock[held[p][1]] \in Home
      /\ bblock[held[p][1]] \in ToSet(lh) \/ writes[p] < OpWrites
  BY <1>0 DEF Knows
<1>b. b \in ToSet(held[p]) /\ b \in Bufs /\ b = held[p][1] /\ x \in Home /\ x # NoBlock
  <2>1. b \in ToSet(held[p]) /\ b = held[p][1]
    BY ONLY <1>0, <1>2, p \in Procs, MineFacts
  <2> QED
    BY ONLY <1>0, <1>2, <2>1, p \in Procs, Locked, BlockFacts
<1>t. /\ pc \in [Procs -> PcLabels] /\ outstanding \in Nat /\ Len(lh) \in Nat
      /\ writes \in [Procs -> 0..OpWrites] /\ IsFiniteSet(Procs) /\ lh \in Seq(Home)
      /\ IsInjective(lh) /\ refcnt \in [Bufs -> Nat]
      /\ LOGSIZE \in Nat /\ nlog \in Nat /\ OpWrites \in Nat /\ MAXOPBLOCKS \in Nat
      /\ OpWrites < MAXOPBLOCKS
  BY ONLY <1>0, Types, CacheTypes, BlockFacts
<1>p. /\ pc' \in [Procs -> PcLabels] /\ pc'[p] = "release" /\ \A q \in Procs \ {p} : pc'[q] = pc[q]
      /\ writes[p] \in Nat /\ writes[p] <= OpWrites
  BY ONLY <1>1, <1>l, <1>t, p \in Procs
<1>7. Operating' = Operating /\ p \in Operating /\ IsFiniteSet(Operating)
  <2>1. Operating' = Operating /\ p \in Operating
    BY ONLY <1>1, <1>l, <1>p, p \in Procs DEF Operating
  <2> QED
    BY <1>t, <2>1, FS_Subset DEF Operating
<1>c. outstanding = Cardinality(Operating) /\ outstanding > 0
  <2>1. outstanding = Cardinality(Operating)
    BY ONLY <1>0 DEF ModeInv
  <2>2. Cardinality(Operating) # 0
    BY ONLY <1>7, FS_EmptySet
  <2> QED
    BY ONLY <1>t, <2>1, <2>2
<1>3. ~recovering /\ ~committing
  <2>1. ~recovering
    BY <1>1, <1>l, NotRecovering
  <2> QED
    BY ONLY <1>0, <1>c, <2>1 DEF ModeInv
<1>4. (\A q \in Procs : pc[q] \notin Busy) /\ (\A q \in Procs : pc'[q] \notin Busy)
  <2>1. \A q \in Procs : pc[q] \notin Busy
    BY ONLY <1>0, <1>3 DEF ModeInv
  <2> QED
    BY ONLY <1>l, <1>p, <2>1
\* The process has a block left, which it uses up when it adds one.
<1>5. ASSUME NEW n \in Nat, writes[p] < n
      PROVE  /\ Cardinality(Left(n)) \in Nat /\ 1 <= Cardinality(Left(n))
             /\ writes' = [writes EXCEPT ![p] = writes[p] + 1]
                  => /\ Cardinality(Left(n)') \in Nat
                     /\ Cardinality(Left(n)') + 1 <= Cardinality(Left(n))
  <2> DEFINE w == <<p, writes[p] + 1>>
  <2>1. w \in Left(n)
    <3>1. writes[p] + 1 \in 1..n
      BY ONLY <1>p, <1>5
    <3> QED
      BY ONLY <1>7, <1>p, <3>1 DEF Left
  <2>2. ASSUME writes' = [writes EXCEPT ![p] = writes[p] + 1]
        PROVE  Left(n)' \subseteq Left(n) \ {w}
    <3>1. writes'[p] = writes[p] + 1 /\ \A q \in Procs \ {p} : writes'[q] = writes[q]
      BY ONLY <1>t, <2>2, p \in Procs
    <3>2. \A v \in Left(n)' : v \in Left(n) /\ v # w
      <4> TAKE v \in Left(n)'
      <4>1. v \in Operating \X (1..n) /\ writes'[v[1]] < v[2]
        BY ONLY <1>7 DEF Left
      <4>2. CASE v[1] = p
        BY ONLY <1>p, <3>1, <4>1, <4>2 DEF Left
      <4>3. CASE v[1] # p
        <5>1. v[1] \in Procs \ {p}
          BY ONLY <4>1, <4>3 DEF Operating
        <5> QED
          BY ONLY <3>1, <4>1, <4>3, <5>1 DEF Left
      <4> QED
        BY ONLY <4>2, <4>3
    <3> QED
      BY ONLY <3>2
  <2>3. IsFiniteSet(Left(n)) /\ Cardinality(Left(n)) \in Nat
    BY ONLY <1>0, Reserved, n \in Nat
  <2>4. /\ IsFiniteSet(Left(n) \ {w}) /\ Cardinality(Left(n) \ {w}) = Cardinality(Left(n)) - 1
        /\ Cardinality(Left(n) \ {w}) \in Nat
    BY ONLY <2>1, <2>3, FS_RemoveElement, FS_CardinalityType
  <2>5. ASSUME writes' = [writes EXCEPT ![p] = writes[p] + 1]
        PROVE  Cardinality(Left(n)') <= Cardinality(Left(n) \ {w}) /\ Cardinality(Left(n)') \in Nat
    BY ONLY <2>2, <2>4, <2>5, FS_Subset, FS_CardinalityType
  <2>6. 1 <= Cardinality(Left(n))
    BY ONLY <2>3, <2>4
  <2> QED
    BY ONLY <2>3, <2>4, <2>5, <2>6
<1>6. /\ Len(lh) + Cardinality(Left(MAXOPBLOCKS)) <= LOGSIZE
      /\ Len(lh) + Cardinality(Left(OpWrites)) < nlog - 1
  BY ONLY <1>0, <1>3 DEF SpaceInv
\* So there is room even when the block is in the transaction.
<1>8. Len(lh) < LOGSIZE /\ Len(lh) < nlog - 1
  <2>1. Cardinality(Left(MAXOPBLOCKS)) \in Nat /\ 1 <= Cardinality(Left(MAXOPBLOCKS))
    BY ONLY <1>5, <1>p, <1>t
  <2>2. Cardinality(Left(OpWrites)) \in Nat
    BY ONLY <1>0, <1>t, Reserved
  <2> QED
    BY ONLY <1>6, <1>t, <2>1, <2>2
\* It does not panic; the block is recorded unless it is there.
<1>9. /\ panicked' = panicked
      /\ \/ x \in ToSet(lh) /\ lh' = lh /\ refcnt' = refcnt /\ writes' = writes
         \/ /\ x \notin ToSet(lh) /\ lh' = Append(lh, x)
            /\ refcnt' = [refcnt EXCEPT ![b] = refcnt[b] + 1]
            /\ writes[p] < OpWrites /\ writes' = [writes EXCEPT ![p] = writes[p] + 1]
  <2>1. ~(Len(lh) >= LOGSIZE \/ Len(lh) >= nlog - 1 \/ outstanding < 1)
    BY ONLY <1>8, <1>c, <1>t
  <2> QED
    BY <1>2, <1>b, <2>1 DEF LogWrite, Bpin
<1>w. /\ writes' \in [Procs -> 0..OpWrites] /\ writes'[p] \in Nat
      /\ \A q \in Procs \ {p} : writes'[q] = writes[q]
  <2>1. CASE writes' = writes
    BY ONLY <1>p, <1>t, <2>1
  <2>2. CASE writes[p] < OpWrites /\ writes' = [writes EXCEPT ![p] = writes[p] + 1]
    <3>1. writes[p] + 1 \in 0..OpWrites
      BY ONLY <1>p, <1>t, <2>2
    <3> QED
      BY ONLY <1>p, <1>t, <2>2, <3>1, p \in Procs
  <2> QED
    BY ONLY <1>9, <2>1, <2>2
<1>10. lh' \in Heads /\ ToSet(lh') = ToSet(lh) \union {x} /\ Len(lh') \in Nat
       /\ Len(lh') <= Len(lh) + 1
  <2>1. CASE lh' = lh /\ x \in ToSet(lh)
    <3>1. lh \in Heads
      BY <1>0 DEF TypeInv
    <3> QED
      BY ONLY <1>t, <2>1, <3>1
  <2>2. CASE x \notin ToSet(lh) /\ lh' = Append(lh, x)
    <3>1. /\ lh' \in Seq(Home) /\ Len(lh') = Len(lh) + 1 /\ ToSet(lh') = ToSet(lh) \union {x}
          /\ IsInjective(lh')
      BY ONLY <1>b, <1>t, <2>2, AppendFacts
    <3> QED
      BY ONLY <1>8, <1>t, <3>1 DEF Heads
  <2> QED
    BY ONLY <1>9, <2>1, <2>2
<1>11. refcnt' \in [Bufs -> Nat] /\ \A c \in Bufs : refcnt'[c] >= refcnt[c]
  <2>1. refcnt' = refcnt \/ refcnt' = [refcnt EXCEPT ![b] = refcnt[b] + 1]
    BY ONLY <1>9
  <2>2. refcnt[b] \in Nat /\ refcnt[b] + 1 \in Nat /\ \A c \in Bufs : refcnt[c] \in Nat
    BY ONLY <1>b, <1>t
  <2> HIDE DEF b
  <2>3. CASE refcnt' = refcnt
    BY ONLY <1>t, <2>2, <2>3
  <2>4. CASE refcnt' = [refcnt EXCEPT ![b] = refcnt[b] + 1]
    BY ONLY <1>b, <1>t, <2>2, <2>4
  <2> QED
    BY ONLY <2>1, <2>3, <2>4
<1>12. CacheInv' /\ ContentsInv' /\ held' = held /\ bblock' = bblock
  <2>1. /\ held' = held /\ bblock' = bblock /\ valid' = valid
        /\ disk' = disk /\ bdata' = bdata
    BY ONLY <1>1 DEF diskVars
  <2>2. \A q \in Procs : \A c \in ToSet(held[q]) : c \in Bufs /\ refcnt[c] > 0
    BY <1>0 DEF CacheInv, CacheTypeOK, BcacheTypeOK, HeldInv, ToSet
  <2>3. \A q \in Procs : \A c \in ToSet(held[q]) : refcnt'[c] > 0
    <3> TAKE q \in Procs
    <3> TAKE c \in ToSet(held[q])
    <3>1. c \in Bufs /\ refcnt[c] > 0
      BY ONLY <2>2, q \in Procs, c \in ToSet(held[q])
    <3>2. refcnt'[c] >= refcnt[c] /\ refcnt'[c] \in Nat /\ refcnt[c] \in Nat
      BY ONLY <1>11, <1>t, <3>1
    <3> QED
      BY ONLY <3>1, <3>2
  <2>4. panicked' \in BOOLEAN
    BY ONLY <1>0, <1>9 DEF CacheInv, CacheTypeOK
  <2>5. CacheInv'
    BY ONLY <1>0, <1>1, <1>11, <2>3, <2>4, CountStep
  <2> QED
    BY ONLY <1>0, <2>1, <2>5, ContentsFrame
<1>13. ModeInv'
  <2>1. outstanding' # 0
    BY ONLY <1>1, <1>c, <1>t
  <2>2. outstanding' = Cardinality(Operating')
    BY ONLY <1>1, <1>7, <1>c
  <2> QED
    BY ONLY <1>1, <1>3, <1>4, <2>1, <2>2 DEF ModeInv
<1>14. TypeInv'
  <2>1. BcacheTypeOK'
    BY ONLY <1>12 DEF CacheInv, CacheTypeOK
  <2> QED
    BY ONLY <1>0, <1>1, <1>10, <1>p, <1>w, <2>1 DEF TypeInv, LogTypeOK, Heads
<1>15. SleepersMustWait'
  <2>1. Len(lh') >= Len(lh)
    BY ONLY <1>9, <1>t, <1>b
  <2>2. ASSUME asleep # {}
        PROVE  Len(lh') + (outstanding + 1) * MAXOPBLOCKS > LOGSIZE
    <3> DEFINE r == (outstanding + 1) * MAXOPBLOCKS
    <3>1. r \in Nat
      BY <1>t
    <3>2. Len(lh) + r > LOGSIZE
      BY ONLY <1>0, <1>3, <2>2 DEF SleepersMustWait, MustWait
    <3> HIDE DEF r
    <3>3. Len(lh') + r > LOGSIZE
      BY ONLY <1>10, <1>t, <2>1, <3>1, <3>2
    <3> QED
      BY ONLY <3>3 DEF r
  <2> QED
    BY ONLY <1>1, <2>2 DEF SleepersMustWait, MustWait
<1>16. Pinned = ToSet(lh) /\ Pinned' = ToSet(lh')
  <2>1. (~recovering /\ (\A q \in Procs : pc[q] \notin Busy)
           => Pinned = {lh[k] : k \in 1..Len(lh)})'
    BY AllPinned, PTL
  <2>2. lh' \in Seq(Home)
    BY ONLY <1>10 DEF Heads
  <2>3. Pinned = {lh[k] : k \in 1..Len(lh)}
    BY ONLY <1>3, <1>4, AllPinned
  <2>4. Pinned' = {lh'[k] : k \in 1..Len(lh')}
    BY ONLY <1>1, <1>3, <1>4, <2>1
  <2>5. DOMAIN lh = 1..Len(lh) /\ DOMAIN lh' = 1..Len(lh')
    BY ONLY <1>t, <2>2
  <2> QED
    BY ONLY <2>3, <2>4, <2>5 DEF ToSet
<1>17. RefInv'
  <2>1. /\ RefsAre(refcnt, held, bblock, ToSet(lh)) /\ Unique
        /\ \A y \in ToSet(lh) : \E c \in Bufs : bblock[c] = y
    BY <1>0, <1>16, CacheTypes DEF RefInv
  <2>2. \A c \in Bufs \ {b} : bblock[c] # x
    BY ONLY <1>b, <2>1 DEF Unique
  <2>3. RefsAre(refcnt', held, bblock, ToSet(lh'))
    <3> DEFINE R(c) == Cardinality({q \in Procs : c \in ToSet(held[q])})
    <3>1. \A c \in Bufs : refcnt[c] = R(c) + (IF bblock[c] \in ToSet(lh) THEN 1 ELSE 0)
      BY ONLY <2>1 DEF RefsAre
    <3>2. \A c \in Bufs : R(c) \in Nat
      BY ONLY <1>t, FS_Subset, FS_CardinalityType
    <3> HIDE DEF R
    <3>3. \A c \in Bufs : refcnt'[c] = R(c) + (IF bblock[c] \in ToSet(lh') THEN 1 ELSE 0)
      <4> TAKE c \in Bufs
      <4>1. CASE c # b
        BY ONLY <1>9, <1>10, <1>b, <1>t, <2>2, <3>1, <4>1, c \in Bufs
      <4>2. CASE c = b
        BY ONLY <1>9, <1>10, <1>b, <1>t, <3>1, <3>2, <4>2
      <4> QED
        BY ONLY <4>1, <4>2
    <3> QED
      BY ONLY <3>3 DEF RefsAre, R
  <2>4. \A y \in ToSet(lh') : \E c \in Bufs : bblock[c] = y
    BY ONLY <1>10, <1>b, <2>1
  <2> QED
    BY ONLY <1>12, <1>16, <2>3, <2>4 DEF RefInv
<1>18. SpaceInv'
  <2>1. CASE lh' = lh /\ writes' = writes
    <3>1. \A n : Left(n)' = Left(n)
      BY ONLY <1>7, <2>1 DEF Left
    <3> QED
      BY ONLY <1>6, <2>1, <3>1 DEF SpaceInv
  <2>2. CASE /\ lh' = Append(lh, x) /\ writes[p] < OpWrites
             /\ writes' = [writes EXCEPT ![p] = writes[p] + 1]
    <3>1. Len(lh') = Len(lh) + 1
      BY ONLY <1>b, <1>t, <2>2
    <3>2. \A n \in {MAXOPBLOCKS, OpWrites} :
            /\ Cardinality(Left(n)) \in Nat /\ Cardinality(Left(n)') \in Nat
            /\ Cardinality(Left(n)') + 1 <= Cardinality(Left(n))
      BY ONLY <1>5, <1>p, <1>t, <2>2
    <3>3. /\ Len(lh') + Cardinality(Left(MAXOPBLOCKS)') <= LOGSIZE
          /\ Len(lh') + Cardinality(Left(OpWrites)') < nlog - 1
      BY ONLY <1>6, <1>t, <3>1, <3>2
    <3> QED
      BY ONLY <3>3 DEF SpaceInv
  <2> QED
    BY ONLY <1>9, <2>1, <2>2
<1>19. PlaceInv'
  <2>0. \A y \in ToSet(lh) : y \in ToSet(lh')
    BY ONLY <1>10
  <2>1. \A q \in Procs \ {p} :
          Knows(pc'[q], held'[q], bblock', tail', lh', writes'[q], recovering')
    BY ONLY <1>0, <1>4, <1>12, <1>p, <1>w, <2>0, p \in Procs, PlaceOthers
  <2>2. Knows("release", held[p], bblock, tail, lh', writes'[p], recovering)
    BY ONLY <1>2, <1>l DEF Knows, OpLabels, Busy, CopyLabels, HeadLabels, InstLabels
  <2> QED
    BY ONLY <1>1, <1>12, <1>p, <2>1, <2>2 DEF PlaceInv
<1> QED
  BY ONLY <1>0, <1>9, <1>12, <1>13, <1>14, <1>15, <1>17, <1>18, <1>19 DEF IInv, RunInv

\* install_trans() takes back the reference of log_write().
LEMMA InstUnpinKeeps ==
  ASSUME IInv, NEW p \in Procs, InstUnpin(p)
  PROVE  IInv'
<1> DEFINE b == Mine(p)
           R(c) == Cardinality({q \in Procs : c \in ToSet(held[q])})
<1>1. /\ Runs(p) /\ pc[p] = "inst_unpin" /\ pc' = [pc EXCEPT ![p] = "inst_release"]
      /\ UNCHANGED <<diskVars, valid, holder, lru, held>> /\ panicked' = panicked
      /\ refcnt' = IF recovering THEN refcnt ELSE [refcnt EXCEPT ![b] = refcnt[b] - 1]
      /\ outstanding' = outstanding /\ committing' = committing /\ asleep' = asleep
      /\ tail' = tail /\ recovering' = recovering /\ lh' = lh /\ writes' = writes
  BY DEF InstUnpin, At, Goto, logUnchanged
<1>0. /\ CacheInv /\ ContentsInv /\ TypeInv /\ SleepersMustWait /\ io[p] = Run
      /\ PlaceInv /\ ModeInv /\ RefInv /\ SpaceInv /\ ~panicked
      /\ Knows("inst_unpin", held[p], bblock, tail, lh, writes[p], recovering)
      /\ (recovering => p = Boot)
  BY <1>1, Running
<1>l. /\ "inst_unpin" \in Busy /\ "inst_unpin" \notin OpLabels /\ "inst_release" \in Busy
      /\ "inst_release" \notin OpLabels /\ "inst_release" \in PcLabels
      /\ "inst_unpin" \in InstLabels /\ "inst_release" \in InstLabels
  BY DEF PcLabels, CallLabels, OpLabels, Busy, CopyLabels, HeadLabels, InstLabels
<1>t. /\ pc \in [Procs -> PcLabels] /\ tail \in Nat \ {0} /\ Len(lh) \in Nat /\ IsFiniteSet(Procs)
      /\ refcnt \in [Bufs -> Nat] /\ lh \in Seq(Home) /\ IsInjective(lh)
      /\ \A k \in 1..Len(lh) : lh[k] \in Home
  BY ONLY <1>0, Types, CacheTypes, BlockFacts
<1>2. Len(held[p]) = 2 /\ held[p] # <<>> /\ bblock[held[p][2]] = lh[tail] /\ tail \in 1..Len(lh)
      /\ writes[p] = 0
  <2>1. /\ Len(held[p]) = 2 /\ bblock[held[p][2]] = lh[tail] /\ tail <= Len(lh) /\ writes[p] = 0
    BY ONLY <1>0, <1>l DEF Knows
  <2> QED
    BY ONLY <1>t, <2>1
<1>b. b \in ToSet(held[p]) /\ b \in Bufs /\ bblock[b] = lh[tail] /\ lh[tail] # NoBlock
  <2>1. b \in ToSet(held[p]) /\ b = held[p][2]
    BY ONLY <1>0, <1>2, p \in Procs, MineFacts
  <2> QED
    BY ONLY <1>0, <1>2, <1>t, <2>1, p \in Procs, Locked, BlockFacts
<1>3. \A q \in Procs \ {p} : pc[q] \notin Busy
  BY ONLY <1>0, <1>1, <1>l, p \in Procs DEF ModeInv
<1>p. /\ pc' \in [Procs -> PcLabels] /\ pc'[p] = "inst_release" /\ \A q \in Procs \ {p} : pc'[q] = pc[q]
  BY ONLY <1>1, <1>l, <1>t, p \in Procs
<1>4. Pinned' = IF recovering THEN Pinned ELSE Pinned \ {lh[tail]}
  <2>1. CASE recovering
    BY ONLY <1>1, <2>1 DEF Pinned, PinnedSlots
  <2>2. CASE ~recovering
    <3>1. \A q \in Procs \ {p} : \A k \in 1..Len(lh) : ~Unpinned(pc[q], tail, k) /\ ~Unpinned(pc'[q], tail, k)
      BY ONLY <1>3, <1>p DEF Unpinned, Busy
    <3>2. \A k \in 1..Len(lh) : /\ Unpinned(pc[p], tail, k) <=> k < tail
                                /\ Unpinned(pc'[p], tail, k) <=> k < tail \/ k = tail
      BY ONLY <1>1, <1>l, <1>p DEF Unpinned
    <3>3. PinnedSlots = {k \in 1..Len(lh) : ~(k < tail)}
      BY ONLY <2>2, <3>1, <3>2, p \in Procs DEF PinnedSlots
    <3>4. PinnedSlots' = {k \in 1..Len(lh) : ~(k < tail \/ k = tail)}
      BY ONLY <1>1, <2>2, <3>1, <3>2, p \in Procs DEF PinnedSlots
    <3>5. PinnedSlots' = PinnedSlots \ {tail}
      BY ONLY <3>3, <3>4
    <3>6. \A j, k \in 1..Len(lh) : lh[j] = lh[k] => j = k
      <4>1. DOMAIN lh = 1..Len(lh)
        BY ONLY <1>t
      <4> QED
        BY ONLY <1>t, <4>1 DEF IsInjective
    <3>7. PinnedSlots \subseteq 1..Len(lh)
      BY ONLY <3>3
    <3>8. {lh[k] : k \in PinnedSlots \ {tail}} = {lh[k] : k \in PinnedSlots} \ {lh[tail]}
      BY ONLY <1>2, <3>6, <3>7
    <3>9. Pinned' = {lh[k] : k \in PinnedSlots \ {tail}}
      BY ONLY <1>1, <3>5 DEF Pinned
    <3> QED
      BY ONLY <2>2, <3>8, <3>9 DEF Pinned
  <2> QED
    BY ONLY <2>1, <2>2
<1>5. ~recovering => lh[tail] \in Pinned
  <2>1. ASSUME ~recovering
        PROVE  tail \in PinnedSlots
    <3>1. \A q \in Procs : ~Unpinned(pc[q], tail, tail)
      BY ONLY <1>1, <1>3, <1>t DEF Unpinned, Busy
    <3> QED
      BY ONLY <1>2, <2>1, <3>1 DEF PinnedSlots
  <2> QED
    BY ONLY <2>1 DEF Pinned
<1>6. /\ \A c \in Bufs : R(c) \in Nat
      /\ \A c \in Bufs : refcnt[c] = R(c) + (IF bblock[c] \in Pinned THEN 1 ELSE 0)
      /\ R(b) > 0
  <2>1. ASSUME NEW c \in Bufs
        PROVE  /\ IsFiniteSet({q \in Procs : c \in ToSet(held[q])}) /\ R(c) \in Nat
    BY ONLY <1>t, FS_Subset, FS_CardinalityType
  <2>2. R(b) # 0
    <3>1. p \in {q \in Procs : b \in ToSet(held[q])}
      BY ONLY <1>b, p \in Procs
    <3> QED
      BY ONLY <1>b, <2>1, <3>1, FS_EmptySet
  <2>3. \A c \in Bufs : refcnt[c] = R(c) + (IF bblock[c] \in Pinned THEN 1 ELSE 0)
    BY ONLY <1>0 DEF RefInv, RefsAre
  <2> QED
    BY ONLY <1>b, <2>1, <2>2, <2>3
<1>7. \A c \in Bufs : refcnt'[c] = R(c) + (IF bblock[c] \in Pinned' THEN 1 ELSE 0)
  <2> TAKE c \in Bufs
  <2> HIDE DEF R, b
  <2>1. CASE recovering
    BY ONLY <1>1, <1>4, <1>6, <2>1, c \in Bufs
  <2>2. CASE ~recovering /\ c = b
    <3>1. refcnt[b] = R(b) + 1 /\ R(b) \in Nat
      BY ONLY <1>5, <1>6, <1>b, <2>2
    <3>2. refcnt'[b] = refcnt[b] - 1
      BY ONLY <1>1, <1>b, <1>t, <2>2
    <3>3. bblock[b] \notin Pinned'
      BY ONLY <1>4, <1>b, <2>2
    <3> QED
      BY ONLY <2>2, <3>1, <3>2, <3>3
  <2>3. CASE ~recovering /\ c # b
    <3>1. bblock[c] # lh[tail]
      <4>1. Unique
        BY <1>0, CacheTypes
      <4> QED
        BY ONLY <1>b, <2>3, <4>1, c \in Bufs DEF Unique
    <3>2. refcnt'[c] = refcnt[c]
      BY ONLY <1>1, <1>t, <2>3, c \in Bufs
    <3>3. bblock[c] \in Pinned' <=> bblock[c] \in Pinned
      BY ONLY <1>4, <2>3, <3>1
    <3> QED
      BY ONLY <1>6, <3>2, <3>3, c \in Bufs
  <2> QED
    BY ONLY <2>1, <2>2, <2>3
<1>8. /\ refcnt' \in [Bufs -> Nat]
      /\ \A q \in Procs : \A c \in ToSet(held[q]) : refcnt'[c] > 0
  <2>1. \A q \in Procs : \A c \in ToSet(held[q]) : c \in Bufs
    BY <1>0 DEF CacheInv, CacheTypeOK, BcacheTypeOK, ToSet
  <2>2. \A c \in Bufs : refcnt'[c] \in Nat /\ refcnt'[c] >= R(c)
    <3> HIDE DEF R
    <3> QED
      BY ONLY <1>6, <1>7
  <2>3. DOMAIN refcnt' = Bufs /\ refcnt' = [c \in Bufs |-> refcnt'[c]]
    <3>1. CASE recovering
      BY ONLY <1>1, <1>t, <3>1
    <3>2. CASE ~recovering
      BY ONLY <1>1, <1>t, <3>2
    <3> QED
      BY ONLY <3>1, <3>2
  <2>4. ASSUME NEW q \in Procs, NEW c \in ToSet(held[q])
        PROVE  refcnt'[c] > 0
    <3>1. IsFiniteSet({s \in Procs : c \in ToSet(held[s])})
      BY ONLY <1>t, FS_Subset
    <3>2. q \in {s \in Procs : c \in ToSet(held[s])}
      BY ONLY <2>4
    <3>3. R(c) # 0
      BY ONLY <3>1, <3>2, FS_EmptySet
    <3>4. c \in Bufs
      BY ONLY <2>1, <2>4
    <3>5. R(c) \in Nat /\ refcnt'[c] \in Nat /\ refcnt'[c] >= R(c)
      BY ONLY <1>6, <2>2, <3>4
    <3> HIDE DEF R
    <3> QED
      BY ONLY <3>3, <3>5
  <2> QED
    BY ONLY <2>2, <2>3, <2>4
<1>12. CacheInv' /\ ContentsInv' /\ held' = held /\ bblock' = bblock
  <2>1. /\ held' = held /\ bblock' = bblock /\ valid' = valid
        /\ disk' = disk /\ bdata' = bdata
    BY ONLY <1>1 DEF diskVars
  <2>2. panicked' \in BOOLEAN
    BY ONLY <1>0, <1>1 DEF CacheInv, CacheTypeOK
  <2>3. CacheInv'
    BY ONLY <1>0, <1>1, <1>8, <2>2, CountStep
  <2> QED
    BY ONLY <1>0, <2>1, <2>3, ContentsFrame
<1>13. ModeInv' /\ Operating' = Operating
  <2>1. recovering => asleep' = {}
    BY <1>0, <1>1 DEF ModeInv
  <2> QED
    BY <1>0, <1>1, <1>l, <2>1, ModeSame
<1>14. TypeInv'
  <2>1. BcacheTypeOK'
    BY ONLY <1>12 DEF CacheInv, CacheTypeOK
  <2> QED
    BY ONLY <1>0, <1>1, <1>p, <2>1 DEF TypeInv, LogTypeOK, Heads
<1>15. SleepersMustWait'
  BY ONLY <1>0, <1>1 DEF SleepersMustWait, MustWait
<1>16. RefInv'
  <2>1. RefsAre(refcnt', held', bblock', Pinned')
    BY ONLY <1>7, <1>12 DEF RefsAre
  <2>2. \A y \in Pinned' : \E c \in Bufs : bblock'[c] = y
    BY ONLY <1>0, <1>4, <1>12 DEF RefInv
  <2> QED
    BY ONLY <2>1, <2>2 DEF RefInv
<1>17. SpaceInv'
  BY ONLY <1>0, <1>1, <1>13, SpaceSame
<1>18. PlaceInv'
  <2>1. \A q \in Procs \ {p} :
          Knows(pc'[q], held'[q], bblock', tail', lh', writes'[q], recovering')
    BY ONLY <1>0, <1>1, <1>12, <1>p, p \in Procs, PlaceOthers
  <2>2. Knows("inst_release", held[p], bblock, tail, lh, writes[p], recovering)
    BY <1>2, <1>l DEF Knows, CopyLabels, HeadLabels, InstLabels
  <2> QED
    BY ONLY <1>1, <1>12, <1>p, <2>1, <2>2 DEF PlaceInv
<1> QED
  BY ONLY <1>0, <1>1, <1>12, <1>13, <1>14, <1>15, <1>16, <1>17, <1>18 DEF IInv, RunInv

-----------------------------------------------------------------------------
(* The start of the machine *)

\* After mkfs, or a crash: empty caches, and a disk whose blocks have their types.
LEMMA FreshKeeps ==
  Fresh /\ MemoryInit /\ (\A x \in Blocks : Typed(x, disk[x])) => IInv
<1> SUFFICES ASSUME Fresh, MemoryInit, \A x \in Blocks : Typed(x, disk[x])
             PROVE  IInv
  OBVIOUS
<1>m. /\ lh = <<>> /\ outstanding = 0 /\ committing = FALSE /\ asleep = {} /\ recovering = TRUE
      /\ pc = [q \in Procs |-> IF q = Boot THEN "head_read" ELSE "idle"]
      /\ tail = 1 /\ writes = [q \in Procs |-> 0]
  BY DEF MemoryInit
<1>f. /\ bblock = [b \in Bufs |-> NoBlock] /\ valid = [b \in Bufs |-> FALSE]
      /\ refcnt = [b \in Bufs |-> 0] /\ held = [q \in Procs |-> <<>>]
  BY DEF Fresh
<1>1. CacheInv
  BY FreshCache
<1>2. ContentsInv
  BY <1>f DEF ContentsInv
<1>3. \A q \in Procs : pc[q] = IF q = Boot THEN "head_read" ELSE "idle"
  BY ONLY <1>m
<1>l. /\ "head_read" \in Busy /\ "idle" \notin Busy /\ "head_read" \in PcLabels /\ "idle" \in PcLabels
      /\ "head_read" \notin OpLabels /\ "idle" \notin OpLabels
  BY DEF PcLabels, CallLabels, OpLabels, Busy, CopyLabels, HeadLabels, InstLabels
<1>4. TypeInv
  <2>1. BcacheTypeOK
    BY <1>1 DEF CacheInv, CacheTypeOK
  <2>2. lh \in Heads
    BY <1>m, LogAssumption DEF Heads, IsInjective
  <2>3. pc \in [Procs -> PcLabels]
    BY ONLY <1>m, <1>l
  <2>4. writes \in [Procs -> 0..OpWrites] /\ tail \in 1..(LOGSIZE + 1)
    BY <1>m, BlockFacts
  <2>5. outstanding \in 0..Cardinality(Procs)
    <3>1. Cardinality(Procs) \in Nat
      BY BlockFacts, FS_CardinalityType
    <3> QED
      BY ONLY <1>m, <3>1
  <2> QED
    BY ONLY <1>m, <2>1, <2>2, <2>3, <2>4, <2>5 DEF TypeInv, LogTypeOK, Heads
<1>5. SleepersMustWait
  BY <1>m DEF SleepersMustWait
<1>6. ModeInv
  <2>1. Operating = {}
    BY ONLY <1>3, <1>l DEF Operating
  <2>2. outstanding = Cardinality(Operating)
    BY ONLY <1>m, <2>1, FS_EmptySet
  <2>3. Boot \in Procs
    BY BlockFacts
  <2> QED
    BY ONLY <1>m, <1>3, <1>l, <2>2, <2>3 DEF ModeInv
<1>7. PlaceInv
  <2>1. Knows("head_read", <<>>, bblock, tail, lh, 0, TRUE)
    BY DEF Knows, OpLabels, CopyLabels, HeadLabels, InstLabels
  <2> QED
    BY ONLY <1>m, <1>f, <1>3, <2>1, KnowsIdle DEF PlaceInv
<1>8. RefInv
  <2>1. Pinned = {}
    BY <1>m, EmptyPinned
  <2>2. \A b : {q \in Procs : b \in ToSet(held[q])} = {}
    BY ONLY <1>f DEF ToSet
  <2>3. \A b \in Bufs : refcnt[b] = Cardinality({}) + (IF bblock[b] \in {} THEN 1 ELSE 0)
    BY ONLY <1>f, FS_EmptySet
  <2> QED
    BY ONLY <2>1, <2>2, <2>3 DEF RefInv, RefsAre
<1>9. SpaceInv
  BY ONLY <1>m DEF SpaceInv
<1> QED
  BY <1>1, <1>2, <1>4, <1>5, <1>6, <1>7, <1>8, <1>9 DEF IInv, RunInv

LEMMA InitKeeps == Init => IInv
<1> SUFFICES ASSUME Init
             PROVE  IInv
  OBVIOUS
<1>1. Blank \in Values
  BY LogAssumption DEF Blank
<1>2. <<>> \in Heads
  BY LogAssumption DEF Heads, IsInjective
<1>3. disk = [x \in Blocks |-> IF x = header THEN <<>> ELSE Blank]
  BY DEF Init
<1>4. \A x \in Blocks : Typed(x, disk[x])
  BY ONLY <1>1, <1>2, <1>3 DEF Typed
<1>5. Fresh
  BY DEF Init, DiskInit, BcacheInit, Fresh
<1> QED
  BY <1>4, <1>5, FreshKeeps DEF Init

LEMMA CrashKeeps ==
  ASSUME IInv, Crash
  PROVE  IInv'
<1>1. (Fresh /\ MemoryInit /\ (\A x \in Blocks : Typed(x, disk[x])) => IInv)'
  BY FreshKeeps, PTL
<1>2. DOMAIN disk = Blocks /\ \A x \in Blocks : Typed(x, disk[x])
  BY DEF IInv, CacheInv, CacheTypeOK, ContentsInv
<1>3. Fresh'
  BY <1>2 DEF Crash, Fresh
<1>4. MemoryInit'
  BY DEF Crash, MemoryInit
<1>5. disk' = disk
  BY DEF Crash
<1> QED
  BY ONLY <1>1, <1>2, <1>3, <1>4, <1>5

-----------------------------------------------------------------------------
(* Every step *)

LEMMA StutterKeeps ==
  ASSUME IInv, UNCHANGED vars
  PROVE  IInv'
<1>u. UNCHANGED <<diskVars, cacheVars>> /\ UNCHANGED logVars
  BY DEF vars
<1>1. CacheInv /\ ContentsInv /\ TypeInv /\ SleepersMustWait /\ (~panicked => RunInv)
  BY DEF IInv
<1>2. /\ CacheInv' /\ ContentsInv'
      /\ held' = held /\ bblock' = bblock /\ refcnt' = refcnt /\ panicked' = panicked
  BY ONLY <1>u, <1>1, QuietEffect
<1>3. TypeInv'
  BY ONLY <1>u, <1>1, <1>2, TypeFrame
<1>4. SleepersMustWait'
  BY ONLY <1>u, <1>1 DEF SleepersMustWait, MustWait, logVars
<1>5. ~panicked' => RunInv'
  BY ONLY <1>u, <1>1, <1>2, RunFrame
<1> QED
  BY ONLY <1>2, <1>3, <1>4, <1>5 DEF IInv

LEMMA OpStepKeeps ==
  ASSUME IInv, NEW p \in Procs, OpStep(p)
  PROVE  IInv'
BY BeginWaitKeeps, BeginOpKeeps, OpBreadKeeps, OpModifyKeeps, LogWriteKeeps, OpBrelseKeeps,
   EndOpKeeps, ReadBlockKeeps DEF OpStep

LEMMA CommitStepKeeps ==
  ASSUME IInv, NEW p \in Procs, CommitStep(p)
  PROVE  IInv'
<1>1. CASE CommitStart(p) \/ LogTo(p) \/ InstLog(p)
  BY <1>1, StageKeeps, SlotReadKeeps
<1>2. CASE LogFrom(p) \/ InstHome(p)
  BY <1>2, HomeReadKeeps
<1>3. CASE LogCopy(p) \/ InstCopy(p)
  BY <1>3, CopyKeeps
<1>4. CASE LogRelease(p) \/ InstRelease(p)
  BY <1>4, PairReleaseKeeps
<1>5. CASE HeadGet(p) \/ HeadRead(p)
  BY <1>5, HeadGetKeeps
<1>6. CASE HeadRelease(p)
  BY <1>6, HeadReleaseBoots, HeadReleaseCommits
<1>7. CASE HeadWrite(p) \/ HeadLoad(p) \/ InstUnpin(p) \/ CommitDone(p)
  BY <1>7, HeadWriteKeeps, HeadLoadKeeps, InstUnpinKeeps, CommitDoneKeeps
<1> QED
  BY <1>1, <1>2, <1>3, <1>4, <1>5, <1>6, <1>7 DEF CommitStep

LEMMA NextKeeps ==
  ASSUME IInv, [Next]_vars
  PROVE  IInv'
<1>1. CASE UNCHANGED vars
  BY <1>1, StutterKeeps
<1>2. ASSUME NEW p \in Procs, Runs(p) /\ IF pc[p] \in CallLabels THEN OpStep(p) ELSE CommitStep(p)
      PROVE  IInv'
  BY <1>2, OpStepKeeps, CommitStepKeeps
<1>3. ASSUME ((\E p \in Procs : IoStep(p)) \/ DeviceStep), UNCHANGED <<logVars, bounds>>
      PROVE  IInv'
  BY <1>3, IoKeeps
<1>4. CASE Crash
  BY <1>4, CrashKeeps
<1> QED
  BY <1>1, <1>2, <1>3, <1>4 DEF Next

-----------------------------------------------------------------------------
(* Panics *)

\* bread() panics when every buffer is referenced.
LEMMA BreadPanics ==
  ASSUME CacheInv, NEW p \in Procs, NEW blk, Bread(p, blk), ~panicked, panicked'
  PROVE  \A b \in Bufs : refcnt[b] > 0
<1>1. Recyclable = 0
  BY DEF Bread, BgetHit, BgetRecycle, BgetNoBuffers
<1>2. \A b \in Bufs : refcnt[b] # 0
  BY <1>1, RecyclableFacts DEF CacheInv
<1>3. refcnt \in [Bufs -> Nat]
  BY CacheTypes
<1> QED
  BY ONLY <1>2, <1>3

\* Every buffer is referenced, and a process calls bread().
Exhausted ==
  /\ \A b \in Bufs : refcnt[b] > 0
  /\ \E p \in Procs : pc'[p] # pc[p] /\ pc'[p] \in Reads

\* The only step that panics is a call of bread() then.
LEMMA PanicStep ==
  ASSUME IInv, [Next]_vars, ~panicked, panicked'
  PROVE  Exhausted
<1>1. CASE UNCHANGED <<diskVars, cacheVars>>
  BY <1>1 DEF cacheVars
<1>2. ASSUME NEW p \in Procs, NEW blk, NEW l \in Reads, GotoWith(p, blk, l), pc[p] # l
      PROVE  Exhausted
  <2>1. \A b \in Bufs : refcnt[b] > 0
    BY <1>2, BreadPanics DEF IInv, GotoWith
  <2>2. pc'[p] = l
    BY <1>2, Types DEF IInv, GotoWith, Goto
  <2> QED
    BY ONLY <1>2, <2>1, <2>2, p \in Procs DEF Exhausted
<1>3. ASSUME NEW p \in Procs, OpStep(p)
      PROVE  Exhausted
  <2>1. CASE BeginCall(p) \/ BeginSleep(p) \/ BeginOp(p)
    BY <1>1, <2>1 DEF BeginCall, BeginSleep, BeginOp
  <2>2. CASE OpModify(p) \/ LogWrite(p) \/ OpBrelse(p) \/ EndOp(p) \/ ReadDone(p)
    BY <2>2, OpModifyKeeps, LogWriteKeeps, OpBrelseKeeps, EndOpKeeps
  <2>3. CASE OpBread(p) \/ ReadBlock(p)
    <3>1. /\ pc[p] \in {"op", "idle"}
          /\ \E blk, l : l \in {"modify", "read"} /\ GotoWith(p, blk, l)
      BY <2>3 DEF OpBread, ReadBlock, At
    <3> QED
      BY <1>2, <3>1 DEF Reads
  <2> QED
    BY <1>3, <2>1, <2>2, <2>3 DEF OpStep
<1>4. ASSUME NEW p \in Procs, CommitStep(p)
      PROVE  Exhausted
  <2>1. CASE CommitStart(p) \/ CommitDone(p) \/ InstUnpin(p)
    BY <2>1 DEF CommitStart, CommitDone, InstUnpin, cacheVars
  <2>2. CASE HeadWrite(p) \/ LogCopy(p) \/ InstCopy(p)
    BY <2>2, HeadWriteKeeps, CopyKeeps
  <2>3. CASE LogRelease(p) \/ InstRelease(p) \/ HeadRelease(p) \/ HeadLoad(p)
    BY <2>3, PairReleaseKeeps, HeadReleaseBoots, HeadReleaseCommits, HeadLoadKeeps
  <2>4. CASE LogTo(p) \/ LogFrom(p) \/ HeadGet(p) \/ InstLog(p) \/ InstHome(p) \/ HeadRead(p)
    <3>1. /\ pc[p] \in {"log_to", "log_from", "head_get", "inst_log", "inst_home", "head_read"}
          /\ \/ \E blk, l : /\ l \in Reads /\ GotoWith(p, blk, l)
                            /\ <<pc[p], l>> \in
                                 {<<"log_to", "log_from">>, <<"log_from", "log_copy">>,
                                  <<"head_get", "head_write">>, <<"inst_log", "inst_home">>,
                                  <<"inst_home", "inst_copy">>, <<"head_read", "head_load">>}
             \/ UNCHANGED <<diskVars, cacheVars>>
      BY <2>4 DEF LogTo, LogFrom, HeadGet, InstLog, InstHome, HeadRead, At, Reads
    <3> QED
      BY <1>1, <1>2, <3>1
  <2> QED
    BY <1>4, <2>1, <2>2, <2>3, <2>4 DEF CommitStep
<1>5. ASSUME NEW p \in Procs, IoStep(p)
      PROVE  panicked' = panicked
  BY <1>5 DEF IoStep, Acquiresleep, Transferred, cacheVars
<1>6. CASE DeviceStep
  BY <1>6 DEF DeviceStep, cacheVars
<1>7. CASE Crash
  BY <1>7 DEF Crash
<1>8. CASE UNCHANGED vars
  BY <1>1, <1>8 DEF vars
<1> QED
  BY <1>3, <1>4, <1>5, <1>6, <1>7, <1>8 DEF Next

-----------------------------------------------------------------------------
(* Theorems *)

\* The invariant of the whole stack: the cache and the driver are in order,
\* every block and buffer contains what its kind of block may contain, each
\* place in log.c has the buffers and the part of the log it relies on, one
\* process at most commits or recovers, references are accounted for, and what
\* operations may still write fits the log.
THEOREM InvariantAlways == Spec => []IInv
<1>1. Init => IInv
  BY InitKeeps
<1>2. IInv /\ [Next]_vars => IInv'
  BY NextKeeps
<1> QED
  BY <1>1, <1>2, PTL DEF Spec

\* The types; among them, that no block is recorded twice in log.lh.
THEOREM TypeCorrect == Spec => []LogTypeOK
<1>1. IInv => LogTypeOK
  BY DEF IInv, TypeInv
<1> QED
  BY <1>1, InvariantAlways, PTL

\* bget() never gives two buffers the same block and recycles none that a
\* process has a pointer to.
THEOREM OneBufferEach == Spec => []OneBufferPerBlock
<1>1. IInv => OneBufferPerBlock
  <2> SUFFICES ASSUME IInv
               PROVE  OneBufferPerBlock
    OBVIOUS
  <2>1. Unique /\ \A p \in Procs : held[p] \in Seq(Bufs)
    BY CacheTypes DEF IInv
  <2>2. \A p \in Procs : \A b \in ToSet(held[p]) : refcnt[b] > 0
    BY DEF IInv, CacheInv, HeldInv
  <2>3. \A p \in Procs : \A k \in DOMAIN held[p] : refcnt[held[p][k]] > 0
    BY ONLY <2>1, <2>2 DEF ToSet
  <2> QED
    BY ONLY <2>1, <2>3 DEF OneBufferPerBlock, Unique
<1> QED
  BY <1>1, InvariantAlways, PTL

\* virtio_disk.c never loses a descriptor and never gives one away twice,
\* whatever the order of requests, completions and interrupts.
THEOREM DescriptorsKept == Spec => []DescriptorsAccounted
<1>1. IInv => DescriptorsAccounted
  BY DEF IInv, CacheInv
<1> QED
  BY <1>1, InvariantAlways, PTL

\* begin_op() sleeps only while a commit is under way or the log may be too small.
THEOREM NoSleepForNothing == Spec => []SleepersMustWait
<1>1. IInv => SleepersMustWait
  BY DEF IInv
<1> QED
  BY <1>1, InvariantAlways, PTL

\* The only panic of the stack is "bget: no buffers": brelse() and bwrite() find
\* the lock held, end_op() never finds log.committing set, and log_write() never
\* finds the log full or no operation under way.
THEOREM OtherPanicsUnreachable == Spec => OnlyBgetPanics
<1>1. IInv /\ [Next]_vars =>
        [panicked' /\ ~panicked =>
           /\ \A b \in Bufs : refcnt[b] > 0
           /\ \E p \in Procs : pc'[p] # pc[p] /\ pc'[p] \in Reads]_vars
  BY PanicStep DEF Exhausted
<1> QED
  BY <1>1, InvariantAlways, PTL DEF Spec, OnlyBgetPanics

=============================================================================
