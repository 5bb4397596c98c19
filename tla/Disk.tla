-------------------------------- MODULE Disk --------------------------------
(***************************************************************************)
(* The virtio disk (kernel/virtio_disk.c): the driver, which hands the     *)
(* device chains of three descriptors and sleeps until the interrupt says  *)
(* that the request is done, and the device, which performs requests in    *)
(* any order.                                                              *)
(*                                                                         *)
(* A process has at most one request, for the buffer io[p].buf it holds    *)
(* locked.  The module has no Next: Bcache and Log extend it.              *)
(***************************************************************************)
EXTENDS Integers, Sequences, FiniteSets

CONSTANTS
  Procs,    \* the processes
  NUM,      \* number of descriptors
  Bufs,     \* the buffers of the cache
  NoBuf,    \* a null buffer pointer
  Blocks,   \* the blocks of the disk
  NoBlock   \* the block number of a buffer that was never used

ASSUME DiskAssumption ==
  /\ NUM \in Nat /\ NUM >= 3
  /\ NoBuf \notin Bufs
  /\ NoBlock \notin Blocks

VARIABLES
  disk,      \* the contents of each block on the device
  bblock,    \* b->blockno
  bdata,     \* b->data
  io,        \* what virtio_disk_rw() each process is in, and how far
  chain,     \* idx[3] of that call
  free,      \* the descriptors with disk.free[i] set
  info,      \* disk.info[id].b
  inflight,  \* the commands (disk.ops[head]) the device has been told of and has not performed
  used,      \* heads the device has put in the used ring, not seen by the driver
  owned,     \* the buffers with b->disk = 1
  waiting    \* the processes asleep on &disk.free[0]

diskVars == <<disk, bblock, bdata, io, chain, free, info, inflight, used, owned, waiting>>

Descs == 0..(NUM - 1)
NoChain == <<>>

\* run: in no disk call; lock: waiting for a buffer's lock; start: about to
\* submit; wait: submitted.
Steps == {"run", "lock", "start", "wait"}

Run == [step |-> "run", buf |-> NoBuf, write |-> FALSE]

DiskInit ==
  /\ bblock = [b \in Bufs |-> NoBlock]
  /\ io = [p \in Procs |-> Run]
  /\ chain = [p \in Procs |-> NoChain]
  /\ free = Descs
  /\ info = [d \in Descs |-> NoBuf]
  /\ inflight = {} /\ used = <<>> /\ owned = {} /\ waiting = {}

-----------------------------------------------------------------------------
(* The driver *)

\* The n lowest elements of a set of numbers.
Lowest(S, n) == {d \in S : Cardinality({e \in S : e < d}) < n}

\* alloc3_desc(): alloc_desc() takes the lowest free descriptor, three times.
Alloc3 ==
  LET three == Lowest(free, 3) IN
    CHOOSE idx \in [1..3 -> three] : idx[1] < idx[2] /\ idx[2] < idx[3]

\* virtio_disk_rw(): three descriptors are free; format the chain, hand the
\* buffer to the device and notify it.
DiskSubmit(p) ==
  /\ io[p].step = "start"
  /\ p \notin waiting
  /\ Cardinality(free) >= 3
  /\ LET idx == Alloc3
         b == io[p].buf IN
       /\ free' = free \ {idx[1], idx[2], idx[3]}
       /\ chain' = [chain EXCEPT ![p] = idx]
       /\ info' = [info EXCEPT ![idx[1]] = b]
       /\ owned' = owned \union {b}
       /\ inflight' = inflight \union {[head |-> idx[1], block |-> bblock[b], write |-> io[p].write]}
  /\ io' = [io EXCEPT ![p].step = "wait"]
  /\ UNCHANGED <<disk, bblock, bdata, used, waiting>>

\* Fewer than three are free: those taken are given back, which wakes whoever
\* waits for one, and the process sleeps.
DiskWait(p) ==
  /\ io[p].step = "start"
  /\ p \notin waiting
  /\ Cardinality(free) < 3
  /\ waiting' = (IF free = {} THEN waiting ELSE {}) \union {p}
  /\ UNCHANGED <<disk, bblock, bdata, io, chain, free, info, inflight, used, owned>>

\* virtio_disk_intr(): for every new entry of the used ring, b->disk = 0 and
\* wakeup(b).  (The device reports no error, on which the handler panics.)
DiskIntr ==
  /\ used # <<>>
  /\ owned' = owned \ {info[used[k]] : k \in DOMAIN used}
  /\ used' = <<>>
  /\ UNCHANGED <<disk, bblock, bdata, io, chain, free, info, inflight, waiting>>

\* (mutant of DiskDone: frees the first descriptor of the chain only)
DiskDoneLeaks(p) ==
  /\ io[p].step = "wait"
  /\ io[p].buf \notin owned
  /\ info' = [info EXCEPT ![chain[p][1]] = NoBuf]
  /\ free' = free \union {chain[p][1]}
  /\ waiting' = {}
  /\ chain' = [chain EXCEPT ![p] = NoChain]
  /\ io' = [io EXCEPT ![p] = Run]
  /\ UNCHANGED <<disk, bblock, bdata, inflight, used, owned>>

\* virtio_disk_rw(), once b->disk is 0: free_chain() wakes every process that
\* waits for descriptors.
DiskDone(p) ==
  /\ io[p].step = "wait"
  /\ io[p].buf \notin owned
  /\ info' = [info EXCEPT ![chain[p][1]] = NoBuf]
  /\ free' = free \union {chain[p][k] : k \in 1..3}
  /\ waiting' = {}
  /\ chain' = [chain EXCEPT ![p] = NoChain]
  /\ io' = [io EXCEPT ![p] = Run]
  /\ UNCHANGED <<disk, bblock, bdata, inflight, used, owned>>

-----------------------------------------------------------------------------
(* The device *)

\* It performs any request it has been told of and adds it to the used ring.
\* A block is read or written as a whole.
DevicePerform ==
  \E r \in inflight :
    /\ inflight' = inflight \ {r}
    /\ used' = Append(used, r.head)
    /\ IF r.write
         THEN /\ disk' = [disk EXCEPT ![r.block] = bdata[info[r.head]]]
              /\ UNCHANGED bdata
         ELSE /\ bdata' = [bdata EXCEPT ![info[r.head]] = disk[r.block]]
              /\ UNCHANGED disk
    /\ UNCHANGED <<bblock, io, chain, free, info, owned, waiting>>

-----------------------------------------------------------------------------
(* Properties *)

\* The descriptors of a chain in use.
ChainOf(p) == {chain[p][k] : k \in DOMAIN chain[p]}

\* Every descriptor is free or in the chain of exactly one process, however
\* requests complete, and nobody sleeps for descriptors while three are free.
DescriptorsAccounted ==
  /\ Descs = free \union UNION {ChainOf(p) : p \in Procs}
  /\ \A p, q \in Procs : ChainOf(p) \intersect free = {} /\ (p # q => ChainOf(p) \intersect ChainOf(q) = {})
  /\ waiting # {} => Cardinality(free) < 3

=============================================================================
