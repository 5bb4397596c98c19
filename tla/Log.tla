-------------------------------- MODULE Log --------------------------------
(***************************************************************************)
(* The write-ahead log (kernel/log.c) on the buffer cache and the disk:    *)
(* operations that write blocks between begin_op() and end_op(), the group *)
(* commit by the last of them, processes that read blocks meanwhile, and   *)
(* a machine that may crash at any point, also while it recovers.          *)
(*                                                                         *)
(* log.lock is held only inside the steps that take it, and what sleeps on *)
(* &log is woken as Kernel models it, so that sleeping and waking are      *)
(* atomic here.                                                            *)
(***************************************************************************)
EXTENDS Bcache

CONSTANTS
  Home,          \* the blocks of the file system
  header,        \* the log's header block; the log's data blocks are 1, 2, ...
  Values,        \* what a block may contain
  LOGSIZE, MAXOPBLOCKS,
  nlog,          \* sb.nlog: blocks in the log area, header included
  OpWrites,      \* how many blocks an operation adds to a transaction at most
  Boot,          \* the process that runs initlog()
  MaxCalls,      \* bound: how many operations begin and blocks are read outside them
  MaxCrashes     \* bound: how many times the machine crashes; after the last it only recovers

Slots == 1..(nlog - 1)

ASSUME LogAssumption ==
  /\ LOGSIZE \in Nat /\ MAXOPBLOCKS \in Nat \ {0} /\ nlog \in Nat
  /\ OpWrites \in Nat \ {0}
  /\ Boot \in Procs
  /\ header \notin Home /\ header \notin Slots /\ Home \intersect Slots = {}
  /\ Blocks = Home \union {header} \union Slots
  /\ \* What operations really add leaves a block of the log over, without which
     \* log_write() panics even when it has nothing to add: what a lone operation
     \* adds, and what several do, of which the last one to begin has found room
     \* for MAXOPBLOCKS of each.
     /\ OpWrites < MAXOPBLOCKS /\ OpWrites < nlog - 1
     /\ LOGSIZE - 2 * (MAXOPBLOCKS - OpWrites) < nlog - 1
  /\ IsFiniteSet(Procs) /\ Values # {}

VARIABLES
  lh,           \* log.lh: the home blocks of the transaction
  outstanding,  \* log.outstanding
  committing,   \* log.committing
  asleep,       \* the processes asleep on &log
  pc,           \* where each process is
  tail,         \* the loop of write_log() and install_trans(), from 1
  writes,       \* how many blocks each process has added to the transaction in its operation
  recovering,   \* install_trans()'s argument: has initlog() not finished?
  ncalls, ncrashes

logVars == <<lh, outstanding, committing, asleep, pc, tail, writes, recovering>>
bounds == <<ncalls, ncrashes>>
vars == <<diskVars, cacheVars, logVars, bounds>>

\* Inside an operation: op between two blocks, get to rel at one of them.
OpLabels == {"op", "modify", "log_write", "release"}

\* Outside commit() and recovery.
CallLabels == OpLabels \union {"idle", "begin", "read"}

PcLabels == CallLabels \union
  {"head_read", "head_load",
   "commit", "log_to", "log_from", "log_copy", "log_release",
   "head_get", "head_write", "head_release",
   "inst_log", "inst_home", "inst_copy", "inst_unpin", "inst_release", "finish"}

LogTypeOK ==
  /\ BcacheTypeOK
  /\ lh \in Seq(Home) /\ IsInjective(lh)
  /\ outstanding \in 0..Cardinality(Procs)
  /\ committing \in BOOLEAN
  /\ asleep \subseteq Procs
  /\ pc \in [Procs -> PcLabels]
  /\ tail \in 1..(LOGSIZE + 1)
  /\ writes \in [Procs -> 0..OpWrites]
  /\ recovering \in BOOLEAN

\* Nothing of the memory has survived; Boot is in read_head().
MemoryInit ==
  /\ lh = <<>>
  /\ outstanding = 0 /\ committing = FALSE /\ asleep = {}
  /\ pc = [p \in Procs |-> IF p = Boot THEN "head_read" ELSE "idle"]
  /\ tail = 1
  /\ writes = [p \in Procs |-> 0]
  /\ recovering = TRUE

\* The contents of a block that nothing was written to.
Blank == CHOOSE v \in Values : TRUE

\* mkfs has written the file system and an empty log.
Init ==
  /\ DiskInit /\ BcacheInit /\ MemoryInit
  /\ disk = [b \in Blocks |-> IF b = header THEN <<>> ELSE Blank]
  /\ bdata = [b \in Bufs |-> Blank]
  /\ ncalls = 0 /\ ncrashes = 0

-----------------------------------------------------------------------------
(* Steps of a process *)

At(p, label) == pc[p] = label /\ Runs(p)

Goto(p, label) == pc' = [pc EXCEPT ![p] = label]

\* p calls bread(blk) and goes on at the label.
GotoWith(p, blk, label) ==
  /\ Bread(p, blk)
  /\ Goto(p, label)

\* p overwrites the data of buffer b and calls bwrite(b).
PutAndWrite(p, b, contents) ==
  /\ bdata' = [bdata EXCEPT ![b] = contents]
  /\ Bwrite(p, b)
  /\ UNCHANGED <<disk, bblock, chain, free, info, inflight, used, owned, waiting>>
  /\ UNCHANGED <<valid, refcnt, holder, lru, held>>

-----------------------------------------------------------------------------
(* Operations *)

\* begin_op() is called.
BeginCall(p) ==
  /\ At(p, "idle") /\ ~recovering
  /\ ncalls < MaxCalls /\ ncrashes < MaxCrashes
  /\ ncalls' = ncalls + 1
  /\ Goto(p, "begin")
  /\ UNCHANGED <<diskVars, cacheVars, lh, outstanding, committing, asleep, tail, writes, recovering>>
  /\ UNCHANGED ncrashes

\* Must begin_op() wait: for a commit, or for log space?
MustWait == committing \/ Len(lh) + (outstanding + 1) * MAXOPBLOCKS > LOGSIZE

BeginSleep(p) ==
  /\ At(p, "begin") /\ p \notin asleep
  /\ MustWait
  /\ asleep' = asleep \union {p}
  /\ UNCHANGED <<diskVars, cacheVars, lh, outstanding, committing, pc, tail, writes, recovering, bounds>>

\* (mutant of BeginOp: does not wait for log space)
BeginOpUnreserved(p) ==
  /\ At(p, "begin") /\ p \notin asleep
  /\ ~committing
  /\ outstanding' = outstanding + 1
  /\ Goto(p, "op")
  /\ UNCHANGED <<diskVars, cacheVars, lh, committing, asleep, tail, writes, recovering, bounds>>

BeginOp(p) ==
  /\ At(p, "begin") /\ p \notin asleep
  /\ ~MustWait
  /\ outstanding' = outstanding + 1
  /\ Goto(p, "op")
  /\ UNCHANGED <<diskVars, cacheVars, lh, committing, asleep, tail, writes, recovering, bounds>>

\* The operation reads a block in order to write it: any block that is in the
\* transaction, as often as it wants, and up to OpWrites others.
OpBread(p) ==
  /\ At(p, "op")
  /\ \E b \in Home :
       /\ b \in ToSet(lh) \/ writes[p] < OpWrites
       /\ GotoWith(p, b, "modify")
  /\ UNCHANGED <<lh, outstanding, committing, asleep, tail, writes, recovering, bounds>>

\* It changes the buffer's data.
OpModify(p) ==
  /\ At(p, "modify")
  /\ \E v \in Values \ {bdata[Mine(p)]} : bdata' = [bdata EXCEPT ![Mine(p)] = v]
  /\ Goto(p, "log_write")
  /\ UNCHANGED <<disk, bblock, io, chain, free, info, inflight, used, owned, waiting, cacheVars>>
  /\ UNCHANGED <<lh, outstanding, committing, asleep, tail, writes, recovering, bounds>>

\* (mutants of LogWrite: logs a block again instead of absorbing the write;
\* does not pin the buffer)
LogWriteTwice(p) ==
  /\ At(p, "log_write")
  /\ lh' = Append(lh, bblock[Mine(p)])
  /\ Bpin(Mine(p))
  /\ writes' = [writes EXCEPT ![p] = @ + 1]
  /\ Goto(p, "release")
  /\ UNCHANGED <<diskVars, valid, holder, lru, held, panicked, outstanding, committing, asleep, tail, recovering, bounds>>

LogWriteUnpinned(p) ==
  /\ At(p, "log_write")
  /\ lh' = IF bblock[Mine(p)] \in ToSet(lh) THEN lh ELSE Append(lh, bblock[Mine(p)])
  /\ writes' = [writes EXCEPT ![p] = Len(lh') - Len(lh) + @]
  /\ Goto(p, "release")
  /\ UNCHANGED <<diskVars, cacheVars, outstanding, committing, asleep, tail, recovering, bounds>>

\* log_write(): panic if the log is full or no operation is under way, else
\* record the block, once, and pin its buffer.
LogWrite(p) ==
  /\ At(p, "log_write")
  /\ IF Len(lh) >= LOGSIZE \/ Len(lh) >= nlog - 1 \/ outstanding < 1
       THEN panicked' = TRUE /\ UNCHANGED <<lh, refcnt, writes>>
       ELSE IF bblock[Mine(p)] \in ToSet(lh)
              THEN UNCHANGED <<lh, refcnt, writes, panicked>>
              ELSE /\ lh' = Append(lh, bblock[Mine(p)])
                   /\ writes' = [writes EXCEPT ![p] = @ + 1]
                   /\ Bpin(Mine(p))
                   /\ UNCHANGED panicked
  /\ Goto(p, "release")
  /\ UNCHANGED <<diskVars, valid, holder, lru, held, outstanding, committing, asleep, tail, recovering, bounds>>

OpBrelse(p) ==
  /\ At(p, "release")
  /\ Brelse(p, Mine(p))
  /\ Goto(p, "op")
  /\ UNCHANGED <<lh, outstanding, committing, asleep, tail, writes, recovering, bounds>>

\* (mutant of EndOp: wakes nobody when it does not commit)
EndOpSilently(p) ==
  /\ At(p, "op")
  /\ outstanding' = outstanding - 1
  /\ panicked' = committing
  /\ committing' = (outstanding = 1)
  /\ Goto(p, IF outstanding = 1 THEN "commit" ELSE "idle")
  /\ writes' = [writes EXCEPT ![p] = 0]
  /\ UNCHANGED <<diskVars, valid, refcnt, holder, lru, held, lh, asleep, tail, recovering, bounds>>

\* end_op(): the last operation commits; otherwise the log space it had
\* reserved may be enough for whoever waits.
EndOp(p) ==
  /\ At(p, "op")
  /\ outstanding' = outstanding - 1
  /\ panicked' = committing
  /\ IF outstanding = 1
       THEN /\ committing' = TRUE
            /\ Goto(p, "commit")
            /\ UNCHANGED asleep
       ELSE /\ asleep' = {}
            /\ Goto(p, "idle")
            /\ UNCHANGED committing
  /\ writes' = [writes EXCEPT ![p] = 0]
  /\ UNCHANGED <<diskVars, valid, refcnt, holder, lru, held, lh, tail, recovering, bounds>>

\* Outside any operation, a process reads a block (fileread() does).
ReadBlock(p) ==
  /\ At(p, "idle") /\ ~recovering
  /\ ncalls < MaxCalls /\ ncrashes < MaxCrashes
  /\ ncalls' = ncalls + 1
  /\ \E b \in Home : GotoWith(p, b, "read")
  /\ UNCHANGED <<lh, outstanding, committing, asleep, tail, writes, recovering, ncrashes>>

ReadDone(p) ==
  /\ At(p, "read")
  /\ Brelse(p, Mine(p))
  /\ Goto(p, "idle")
  /\ UNCHANGED <<lh, outstanding, committing, asleep, tail, writes, recovering, bounds>>

-----------------------------------------------------------------------------
(* commit() *)

logUnchanged == <<lh, outstanding, committing, asleep, writes, recovering, bounds>>

\* (mutant of CommitStart: writes the header before the log blocks)
CommitStartHeadFirst(p) ==
  /\ At(p, "commit")
  /\ tail' = 1
  /\ Goto(p, IF lh = <<>> THEN "finish" ELSE "head_get")
  /\ UNCHANGED <<diskVars, cacheVars, logUnchanged>>

CommitStart(p) ==
  /\ At(p, "commit")
  /\ tail' = 1
  /\ Goto(p, IF lh = <<>> THEN "finish" ELSE "log_to")
  /\ UNCHANGED <<diskVars, cacheVars, logUnchanged>>

\* write_log(): the next block of the transaction, or on to write_head().
LogTo(p) ==
  /\ At(p, "log_to")
  /\ IF tail <= Len(lh)
       THEN GotoWith(p, tail, "log_from")
       ELSE Goto(p, "head_get") /\ UNCHANGED <<diskVars, cacheVars>>
  /\ UNCHANGED <<tail, logUnchanged>>

LogFrom(p) ==
  /\ At(p, "log_from")
  /\ GotoWith(p, lh[tail], "log_copy")
  /\ UNCHANGED <<tail, logUnchanged>>

LogCopy(p) ==
  /\ At(p, "log_copy")
  /\ PutAndWrite(p, held[p][1], bdata[held[p][2]])
  /\ Goto(p, "log_release")
  /\ UNCHANGED <<tail, logUnchanged>>

\* brelse(from), then brelse(to).
LogRelease(p) ==
  /\ At(p, "log_release")
  /\ Brelse(p, Mine(p))
  /\ IF Len(held[p]) = 1
       THEN tail' = tail + 1 /\ Goto(p, "log_to")
       ELSE UNCHANGED <<tail, pc>>
  /\ UNCHANGED logUnchanged

\* write_head(): bread(), copy log.lh into the buffer, bwrite(), brelse().
HeadGet(p) ==
  /\ At(p, "head_get")
  /\ GotoWith(p, header, "head_write")
  /\ UNCHANGED <<tail, logUnchanged>>

HeadWrite(p) ==
  /\ At(p, "head_write")
  /\ PutAndWrite(p, Mine(p), lh)
  /\ Goto(p, "head_release")
  /\ UNCHANGED <<tail, logUnchanged>>

\* It is called to commit, before install_trans(), and to erase, at the end of
\* commit() or of recover_from_log().
HeadRelease(p) ==
  /\ At(p, "head_release")
  /\ Brelse(p, Mine(p))
  /\ tail' = 1
  /\ Goto(p, IF lh # <<>> THEN "inst_log" ELSE IF recovering THEN "idle" ELSE "finish")
  /\ recovering' = (recovering /\ lh # <<>>)
  /\ UNCHANGED <<lh, outstanding, committing, asleep, writes, bounds>>

\* (mutant of InstLog: the transaction is not erased from the log)
InstLogKeep(p) ==
  /\ At(p, "inst_log")
  /\ IF tail <= Len(lh)
       THEN GotoWith(p, tail, "inst_home") /\ UNCHANGED <<lh, recovering>>
       ELSE /\ lh' = <<>> /\ recovering' = FALSE
            /\ Goto(p, IF recovering THEN "idle" ELSE "finish")
            /\ UNCHANGED <<diskVars, cacheVars>>
  /\ UNCHANGED <<tail, outstanding, committing, asleep, writes, bounds>>

\* install_trans(): the next block, or log.lh.n = 0 and on to write_head().
InstLog(p) ==
  /\ At(p, "inst_log")
  /\ IF tail <= Len(lh)
       THEN GotoWith(p, tail, "inst_home") /\ UNCHANGED lh
       ELSE lh' = <<>> /\ Goto(p, "head_get") /\ UNCHANGED <<diskVars, cacheVars>>
  /\ UNCHANGED <<tail, outstanding, committing, asleep, writes, recovering, bounds>>

InstHome(p) ==
  /\ At(p, "inst_home")
  /\ GotoWith(p, lh[tail], "inst_copy")
  /\ UNCHANGED <<tail, logUnchanged>>

InstCopy(p) ==
  /\ At(p, "inst_copy")
  /\ PutAndWrite(p, held[p][2], bdata[held[p][1]])
  /\ Goto(p, "inst_unpin")
  /\ UNCHANGED <<tail, logUnchanged>>

\* if(recovering == 0) bunpin(dbuf)
InstUnpin(p) ==
  /\ At(p, "inst_unpin")
  /\ refcnt' = IF recovering THEN refcnt ELSE [refcnt EXCEPT ![Mine(p)] = @ - 1]
  /\ Goto(p, "inst_release")
  /\ UNCHANGED <<diskVars, valid, holder, lru, held, panicked, tail, logUnchanged>>

\* brelse(lbuf), then brelse(dbuf).
InstRelease(p) ==
  /\ At(p, "inst_release")
  /\ Brelse(p, held[p][1])
  /\ IF Len(held[p]) = 1
       THEN tail' = tail + 1 /\ Goto(p, "inst_log")
       ELSE UNCHANGED <<tail, pc>>
  /\ UNCHANGED logUnchanged

\* end_op(), after commit(): wake whoever waits in begin_op().
CommitDone(p) ==
  /\ At(p, "finish")
  /\ committing' = FALSE
  /\ asleep' = {}
  /\ Goto(p, "idle")
  /\ UNCHANGED <<diskVars, cacheVars, lh, outstanding, tail, writes, recovering, bounds>>

-----------------------------------------------------------------------------
(* Crash and recovery *)

\* recover_from_log(): read_head(), then install_trans(1).
HeadRead(p) ==
  /\ At(p, "head_read")
  /\ GotoWith(p, header, "head_load")
  /\ UNCHANGED <<tail, logUnchanged>>

HeadLoad(p) ==
  /\ At(p, "head_load")
  /\ lh' = bdata[Mine(p)]
  /\ Brelse(p, Mine(p))
  /\ tail' = 1
  /\ Goto(p, "inst_log")
  /\ UNCHANGED <<outstanding, committing, asleep, writes, recovering, bounds>>

\* The machine stops: the disk keeps what the device has performed, and the
\* kernel starts again.
Crash ==
  /\ ncrashes < MaxCrashes
  /\ ncrashes' = ncrashes + 1
  /\ bblock' = [b \in Bufs |-> NoBlock]
  /\ io' = [p \in Procs |-> Run]
  /\ chain' = [p \in Procs |-> NoChain]
  /\ free' = Descs
  /\ info' = [d \in Descs |-> NoBuf]
  /\ inflight' = {} /\ used' = <<>> /\ owned' = {} /\ waiting' = {}
  /\ valid' = [b \in Bufs |-> FALSE]
  /\ refcnt' = [b \in Bufs |-> 0]
  /\ holder' = [b \in Bufs |-> Nobody]
  /\ lru' = SetToSeq(Bufs)
  /\ held' = [p \in Procs |-> <<>>]
  /\ panicked' = FALSE
  /\ lh' = <<>>
  /\ outstanding' = 0 /\ committing' = FALSE /\ asleep' = {}
  /\ pc' = [p \in Procs |-> IF p = Boot THEN "head_read" ELSE "idle"]
  /\ tail' = 1
  /\ writes' = [p \in Procs |-> 0]
  /\ recovering' = TRUE
  /\ bdata' = [b \in Bufs |-> Blank]
  /\ UNCHANGED <<disk, ncalls>>

CommitStep(p) ==
  \/ CommitStart(p) \/ LogTo(p) \/ LogFrom(p) \/ LogCopy(p) \/ LogRelease(p)
  \/ HeadGet(p) \/ HeadWrite(p) \/ HeadRelease(p)
  \/ InstLog(p) \/ InstHome(p) \/ InstCopy(p) \/ InstUnpin(p) \/ InstRelease(p)
  \/ CommitDone(p)
  \/ HeadRead(p) \/ HeadLoad(p)

OpStep(p) ==
  \/ BeginCall(p) \/ BeginSleep(p) \/ BeginOp(p)
  \/ OpBread(p) \/ OpModify(p) \/ LogWrite(p) \/ OpBrelse(p)
  \/ EndOp(p)
  \/ ReadBlock(p) \/ ReadDone(p)

Next ==
  \/ \E p \in Procs :
       \/ Runs(p) /\ IF pc[p] \in CallLabels THEN OpStep(p) ELSE CommitStep(p)
       \/ IoStep(p) /\ UNCHANGED <<logVars, bounds>>
  \/ DeviceStep /\ UNCHANGED <<logVars, bounds>>
  \/ Crash

Spec == Init /\ [][Next]_vars

-----------------------------------------------------------------------------
(* Properties *)

\* Where a process goes on when bread() has given it a buffer.
Reads == {"modify", "read", "log_from", "log_copy", "head_write", "inst_home", "inst_copy", "head_load"}

\* The only panic of the cache and the log that is reached is "bget: no buffers",
\* in a bread(), when every buffer is referenced: log_write() never finds a
\* transaction too big or no operation under way, end_op() none that commits,
\* brelse() and bwrite() a lock that is not held.
OnlyBgetPanics ==
  [][panicked' /\ ~panicked =>
       /\ \A b \in Bufs : refcnt[b] > 0
       /\ \E p \in Procs : pc'[p] # pc[p] /\ pc'[p] \in Reads]_vars

\* Nobody sleeps in begin_op() without a reason: neither the end of a commit
\* nor log space given back by an operation that ends goes unnoticed.
SleepersMustWait == asleep # {} => MustWait

\* What a crash would leave: recovery copies the log over the home blocks if
\* the header says that it holds a transaction.
Recovered ==
  [b \in Home |->
     IF b \in ToSet(disk[header])
       THEN disk[CHOOSE k \in DOMAIN disk[header] : disk[header][k] = b]
       ELSE disk[b]]

\* What the running system sees: the cache, where it holds the block.
Data ==
  [b \in Home |->
     LET cached == {c \in Bufs : bblock[c] = b /\ valid[c]} IN
       IF recovering THEN Recovered[b]
       ELSE IF cached # {} THEN bdata[CHOOSE c \in cached : TRUE]
       ELSE disk[b]]

\* The writes of an operation survive a crash all together or not at all, also
\* when the machine crashes while it commits or recovers.
AllOrNothing ==
  INSTANCE AtomicDisk WITH
    data <- Data, durable <- Recovered, active <- {p \in Procs : pc[p] \in OpLabels}

CrashAtomic == AllOrNothing!AbsSpec

\* When no operation is under way and none commits, everything is on the disk
\* and the log is empty.
IdleIsDurable ==
  ~recovering /\ outstanding = 0 /\ ~committing => Data = Recovered /\ disk[header] = <<>>

\* The blocks of a transaction stay in the cache until they are installed, and
\* a buffer outside it that nobody holds has what the disk has.
CacheCoherent ==
  ~recovering =>
    /\ \A b \in ToSet(lh) :
         \/ \E c \in Bufs : bblock[c] = b /\ valid[c] /\ refcnt[c] > 0
         \/ disk[header] = lh /\ disk[b] = Recovered[b]
    /\ \A c \in Bufs :
         valid[c] /\ holder[c] = Nobody /\ bblock[c] \notin ToSet(lh) => bdata[c] = disk[bblock[c]]

=============================================================================
