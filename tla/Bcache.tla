------------------------------- MODULE Bcache -------------------------------
(***************************************************************************)
(* The buffer cache (kernel/bio.c) on the disk: a fixed set of buffers in  *)
(* least-recently-used order, each with a reference count and a sleep lock *)
(* (kernel/sleeplock.c).  A process that calls bread() takes a reference   *)
(* under the cache's lock, waits for the buffer's lock, and reads the      *)
(* block if the buffer is not valid.                                       *)
(*                                                                         *)
(* The module has no Next: Log extends it.                                 *)
(***************************************************************************)
EXTENDS Disk, SequencesExt

CONSTANT Nobody   \* holder of a sleep lock that is not locked

ASSUME BcacheAssumption ==
  /\ Nobody \notin Procs
  /\ IsFiniteSet(Bufs)

VARIABLES
  valid,     \* b->valid
  refcnt,    \* b->refcnt
  holder,    \* the process that holds b->lock
  lru,       \* the list from bcache.head.next on: most recently used first
  held,      \* the buffers each process has from bread(), in the order of the calls
  panicked   \* has the kernel called panic()?

cacheVars == <<valid, refcnt, holder, lru, held, panicked>>

BcacheTypeOK ==
  /\ bblock \in [Bufs -> Blocks \union {NoBlock}]
  /\ valid \in [Bufs -> BOOLEAN]
  /\ refcnt \in [Bufs -> Nat]
  /\ holder \in [Bufs -> Procs \union {Nobody}]
  /\ Len(lru) = Cardinality(Bufs) /\ ToSet(lru) = Bufs
  /\ \A p \in Procs : held[p] \in Seq(Bufs)
  /\ io \in [Procs -> [step : Steps, buf : Bufs \union {NoBuf}, write : BOOLEAN]]
  /\ free \subseteq Descs

BcacheInit ==
  /\ valid = [b \in Bufs |-> FALSE]
  /\ refcnt = [b \in Bufs |-> 0]
  /\ holder = [b \in Bufs |-> Nobody]
  /\ lru = SetToSeq(Bufs)
  /\ held = [p \in Procs |-> <<>>]
  /\ panicked = FALSE

\* p executes its own code: it is in no call of the cache or the disk.
Runs(p) == io[p].step = "run" /\ ~panicked

\* The buffer p got from its last bread().
Mine(p) == Last(held[p])

-----------------------------------------------------------------------------
(* bread() *)

\* Where the list has a buffer for the block; where, from its end, it has an
\* unreferenced one.  0 when there is none.
Cached(blk) == SelectInSeq(lru, LAMBDA b : bblock[b] = blk)
Recyclable == SelectLastInSeq(lru, LAMBDA b : refcnt[b] = 0)

\* The reference is taken: next, the buffer's lock.
Reference(p, b) ==
  /\ io' = [io EXCEPT ![p] = [step |-> "lock", buf |-> b, write |-> FALSE]]
  /\ held' = [held EXCEPT ![p] = Append(@, b)]
  /\ UNCHANGED <<disk, bdata, chain, free, info, inflight, used, owned, waiting>>
  /\ UNCHANGED <<holder, lru>>

\* bget(): the block is cached.
BgetHit(p, blk) ==
  /\ Cached(blk) # 0
  /\ LET b == lru[Cached(blk)] IN
       /\ refcnt' = [refcnt EXCEPT ![b] = @ + 1]
       /\ Reference(p, b)
  /\ UNCHANGED <<bblock, valid, panicked>>

\* (mutant of BgetRecycle: takes the least recently used buffer, referenced or not)
BgetRecycleAny(p, blk) ==
  /\ Cached(blk) = 0
  /\ LET b == Last(lru) IN
       /\ bblock' = [bblock EXCEPT ![b] = blk]
       /\ valid' = [valid EXCEPT ![b] = FALSE]
       /\ refcnt' = [refcnt EXCEPT ![b] = 1]
       /\ Reference(p, b)
  /\ UNCHANGED panicked

\* bget(): it is not; recycle the least recently used buffer without references.
BgetRecycle(p, blk) ==
  /\ Cached(blk) = 0
  /\ Recyclable # 0
  /\ LET b == lru[Recyclable] IN
       /\ bblock' = [bblock EXCEPT ![b] = blk]
       /\ valid' = [valid EXCEPT ![b] = FALSE]
       /\ refcnt' = [refcnt EXCEPT ![b] = 1]
       /\ Reference(p, b)
  /\ UNCHANGED panicked

\* bget(): every buffer is referenced: panic("bget: no buffers").
BgetNoBuffers ==
  /\ Recyclable = 0
  /\ panicked' = TRUE
  /\ UNCHANGED <<diskVars, valid, refcnt, holder, lru, held>>

\* p calls bread() for the block.
Bread(p, blk) ==
  \/ BgetHit(p, blk)
  \/ BgetRecycle(p, blk)
  \/ Cached(blk) = 0 /\ BgetNoBuffers

\* acquiresleep(&b->lock), when it is not locked; then bread() tests b->valid.
Acquiresleep(p) ==
  /\ io[p].step = "lock"
  /\ holder[io[p].buf] = Nobody
  /\ holder' = [holder EXCEPT ![io[p].buf] = p]
  /\ io' = [io EXCEPT ![p] = IF valid[@.buf] THEN Run ELSE [@ EXCEPT !.step = "start"]]
  /\ UNCHANGED <<disk, bblock, bdata, chain, free, info, inflight, used, owned, waiting>>
  /\ UNCHANGED <<valid, refcnt, lru, held, panicked>>

\* virtio_disk_rw() returns; after a read, bread() sets b->valid.
Transferred(p) ==
  /\ DiskDone(p)
  /\ valid' = [valid EXCEPT ![io[p].buf] = @ \/ ~io[p].write]
  /\ UNCHANGED <<refcnt, holder, lru, held, panicked>>

-----------------------------------------------------------------------------
(* The other calls *)

\* bwrite(): panics unless the process holds the buffer's lock.
Bwrite(p, b) ==
  IF holder[b] = p
    THEN /\ io' = [io EXCEPT ![p] = [step |-> "start", buf |-> b, write |-> TRUE]]
         /\ UNCHANGED panicked
    ELSE /\ panicked' = TRUE
         /\ UNCHANGED io

\* The list with b moved to its front.
MoveToFront(b) == <<b>> \o RemoveFirst(lru, b)

\* brelse(): give up the lock and the reference.
Brelse(p, b) ==
  /\ panicked' = (holder[b] # p)
  /\ holder' = [holder EXCEPT ![b] = Nobody]
  /\ refcnt' = [refcnt EXCEPT ![b] = @ - 1]
  /\ lru' = IF refcnt[b] = 1 THEN MoveToFront(b) ELSE lru
  /\ held' = [held EXCEPT ![p] = RemoveFirst(@, b)]
  /\ UNCHANGED <<diskVars, valid>>

\* bpin() and bunpin() change the reference count only.
Bpin(b) == refcnt' = [refcnt EXCEPT ![b] = @ + 1]

\* The steps a process takes inside bread() and bwrite(), and the device.
IoStep(p) ==
  \/ Acquiresleep(p)
  \/ (DiskSubmit(p) \/ DiskWait(p)) /\ UNCHANGED cacheVars
  \/ Transferred(p)

DeviceStep ==
  /\ DiskIntr \/ DevicePerform
  /\ UNCHANGED cacheVars

-----------------------------------------------------------------------------
(* Properties *)

\* No two buffers hold the same block, although bget() waits for the buffer's
\* lock after it has let the cache's lock go, and a buffer a process has a
\* pointer to is never recycled under it.
OneBufferPerBlock ==
  /\ \A b, c \in Bufs : bblock[b] = bblock[c] /\ bblock[b] # NoBlock => b = c
  /\ \A p \in Procs : \A k \in DOMAIN held[p] : refcnt[held[p][k]] > 0

=============================================================================
