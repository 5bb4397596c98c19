--------------------------- MODULE Bcache_proofs ---------------------------
(***************************************************************************)
(* What the buffer cache and the disk driver keep true whoever calls them, *)
(* for every number of processes, buffers, blocks and descriptors: the     *)
(* invariant CacheInv, and one lemma for every operation of Bcache, which  *)
(* says that the operation preserves it when it is called as the kernel    *)
(* calls it, and what it does to the state that Log's invariant is about.  *)
(***************************************************************************)
EXTENDS Bcache, FiniteSetTheorems, SequenceTheorems, WellFoundedInduction, TLAPS

-----------------------------------------------------------------------------
(* The invariant *)

CacheTypeOK ==
  /\ BcacheTypeOK
  /\ DOMAIN disk = Blocks /\ DOMAIN bdata = Bufs /\ DOMAIN held = Procs /\ lru \in Seq(Bufs)
  /\ chain \in [Procs -> Seq(Descs)]
  /\ info \in [Descs -> Bufs \union {NoBuf}]
  /\ inflight \subseteq [head : Descs, block : Blocks, write : BOOLEAN]
  /\ used \in Seq(Descs)
  /\ owned \subseteq Bufs
  /\ waiting \subseteq Procs
  /\ panicked \in BOOLEAN

\* A process in a call of the cache or the disk waits for the lock of the buffer
\* it has got last, reads that buffer, or writes one that it has.
IoInv == \A p \in Procs :
  /\ io[p].step = "run" => io[p] = Run
  /\ io[p].step = "lock" =>
       held[p] # <<>> /\ io[p].buf = Last(held[p]) /\ ~io[p].write
  /\ io[p].step \in {"start", "wait"} =>
       /\ io[p].buf \in ToSet(held[p]) /\ holder[io[p].buf] = p
       /\ io[p].write => valid[io[p].buf]
       /\ ~io[p].write => io[p].buf = Last(held[p]) /\ ~valid[io[p].buf]

\* A process holds the locks of the buffers it has from bread(), except while it
\* waits for one, and has a reference to each of them.
HeldInv == \A p \in Procs :
  /\ IsInjective(held[p])
  /\ \A b \in ToSet(held[p]) :
       /\ bblock[b] # NoBlock /\ refcnt[b] > 0
       /\ io[p].step = "lock" /\ b = io[p].buf <=> holder[b] # p
       /\ valid[b] \/ b = io[p].buf
  /\ \A b \in Bufs : holder[b] = p => b \in ToSet(held[p])

\* No two buffers hold the same block.
Unique == \A b, c \in Bufs : bblock[b] = bblock[c] /\ bblock[b] # NoBlock => b = c

\* The command that p has given the device.
Request(p) == [head |-> chain[p][1], block |-> bblock[io[p].buf], write |-> io[p].write]

\* Commands and used descriptors belong to processes that wait for them, and
\* after the command the buffer and the disk agree.
RequestInv ==
  /\ \A p \in Procs :
       /\ io[p].step # "wait" => chain[p] = NoChain
       /\ io[p].step = "wait" =>
            /\ Len(chain[p]) = 3 /\ info[chain[p][1]] = io[p].buf
            /\ Request(p) \notin inflight => bdata[io[p].buf] = disk[bblock[io[p].buf]]
  /\ \A r \in inflight : \E p \in Procs :
       /\ io[p].step = "wait" /\ r = Request(p) /\ io[p].buf \in owned
       /\ r.head \notin ToSet(used)
  /\ \A d \in ToSet(used) : \E p \in Procs :
       io[p].step = "wait" /\ d = chain[p][1] /\ io[p].buf \in owned

CacheInv == CacheTypeOK /\ IoInv /\ HeldInv /\ Unique /\ RequestInv /\ DescriptorsAccounted

\* Every buffer is referenced once by each process that has it, and once more if
\* its block is one of those pinned.
RefsAre(refs, has, block, pinned) ==
  \A b \in Bufs : refs[b] = Cardinality({p \in Procs : b \in ToSet(has[p])})
                            + (IF block[b] \in pinned THEN 1 ELSE 0)

-----------------------------------------------------------------------------
(* Numbers, sequences and descriptors *)

\* A set of numbers has a least one.
LEMMA MinNat ==
  ASSUME NEW S \in SUBSET Nat, S # {}
  PROVE  Min(S) \in S /\ \A y \in S : Min(S) <= y
<1> DEFINE R == {ss \in Nat \X Nat : ss[1] < ss[2]}
<1>1. IsWellFoundedOn(R, Nat)
  BY NatLessThanWellFounded, Zenon DEF OpToRel
<1>2. \E x \in S : \A y \in S : ~ (<<y, x>> \in R)
  <2> HIDE DEF R
  <2> QED
    BY <1>1, WFMin
<1>3. \A x, y \in Nat : ~ (<<y, x>> \in R) => x <= y
  OBVIOUS
<1>4. PICK x \in S : \A y \in S : x <= y
  <2> HIDE DEF R
  <2> QED
    BY <1>2, <1>3
<1> QED
  BY <1>4 DEF Min

\* A bounded set of numbers has a greatest one.
LEMMA MaxNat ==
  ASSUME NEW S \in SUBSET Nat, S # {}, NEW n \in Nat, \A y \in S : y <= n
  PROVE  Max(S) \in S
<1> DEFINE T == {x \in 0..n : n - x \in S}
<1>1. \A y \in S : n - y \in T
  <2>1. \A y \in S : n - y \in 0..n /\ n - (n - y) = y
    OBVIOUS
  <2> TAKE y \in S
  <2>2. n - y \in 0..n /\ n - (n - y) \in S
    BY <2>1
  <2> QED
    BY <2>2
<1>2. T \in SUBSET Nat /\ T # {}
  <2>1. PICK y \in S : TRUE
    OBVIOUS
  <2>2. n - y \in T
    BY ONLY <1>1, <2>1
  <2>3. \A x \in T : x \in Nat
    OBVIOUS
  <2> HIDE DEF T
  <2> QED
    BY ONLY <2>2, <2>3
<1>3. Min(T) \in T /\ \A y \in T : Min(T) <= y
  <2> HIDE DEF T
  <2> QED
    BY <1>2, MinNat
<1>4. PICK x \in S : \A y \in S : x >= y
  <2>1. n - Min(T) \in S
    BY <1>3
  <2> QED
    BY ONLY <2>1, <1>1, <1>2, <1>3, S \in SUBSET Nat, n \in Nat
<1> QED
  BY <1>4 DEF Max

\* Cached() finds the buffer of a block if there is one.
LEMMA CachedFacts ==
  ASSUME CacheTypeOK, NEW blk
  PROVE  /\ Cached(blk) # 0 => lru[Cached(blk)] \in Bufs /\ bblock[lru[Cached(blk)]] = blk
         /\ Cached(blk) = 0 => \A b \in Bufs : bblock[b] # blk
<1> DEFINE I == {i \in 1..Len(lru) : bblock[lru[i]] = blk}
<1>1. Cached(blk) = IF I # {} THEN Min(I) ELSE 0
  BY DEF Cached, SelectInSeq
<1>2. I \in SUBSET Nat /\ 0 \notin I
  OBVIOUS
<1>3. I # {} => Min(I) \in I
  <2> HIDE DEF I
  <2> QED
    BY <1>2, MinNat
<1>4. ToSet(lru) = Bufs /\ DOMAIN lru = 1..Len(lru)
  BY SMTT(30) DEF CacheTypeOK, BcacheTypeOK, ToSet
<1>5. \A i \in 1..Len(lru) : lru[i] \in Bufs
  BY <1>4 DEF ToSet
<1>6. \A b \in Bufs : \E i \in 1..Len(lru) : lru[i] = b
  BY <1>4 DEF ToSet
<1> QED
  BY ONLY <1>1, <1>2, <1>3, <1>5, <1>6

\* Recyclable finds a buffer without references if there is one.
LEMMA RecyclableFacts ==
  ASSUME CacheTypeOK
  PROVE  /\ Recyclable # 0 => lru[Recyclable] \in Bufs /\ refcnt[lru[Recyclable]] = 0
         /\ Recyclable = 0 => \A b \in Bufs : refcnt[b] # 0
<1> DEFINE I == {i \in 1..Len(lru) : refcnt[lru[i]] = 0}
<1>1. Recyclable = IF I # {} THEN Max(I) ELSE 0
  BY DEF Recyclable, SelectLastInSeq
<1>2. Len(lru) \in Nat /\ ToSet(lru) = Bufs /\ DOMAIN lru = 1..Len(lru)
  BY DEF CacheTypeOK, BcacheTypeOK, ToSet
<1>3. I \in SUBSET Nat /\ \A y \in I : y <= Len(lru)
  BY <1>2
<1>4. I # {} => Max(I) \in I
  <2> HIDE DEF I
  <2> QED
    BY <1>2, <1>3, MaxNat
<1>5. \A i \in 1..Len(lru) : lru[i] \in Bufs
  BY <1>2 DEF ToSet
<1>6. \A b \in Bufs : \E i \in 1..Len(lru) : lru[i] = b
  BY <1>2 DEF ToSet
<1>7. Recyclable = 0 => I = {}
  <2>1. 0 \notin I
    BY <1>2
  <2> HIDE DEF I
  <2> QED
    BY ONLY <1>1, <1>4, <2>1
<1> QED
  BY ONLY <1>1, <1>4, <1>5, <1>6, <1>7

\* What is left of a sequence when an element is removed.
LEMMA RemoveFacts ==
  ASSUME NEW S, NEW s \in Seq(S), NEW e \in ToSet(s)
  PROVE  /\ RemoveFirst(s, e) \in Seq(S) /\ Len(RemoveFirst(s, e)) = Len(s) - 1
         /\ \E i \in 1..Len(s) :
              /\ s[i] = e
              /\ \A j \in 1..(Len(s) - 1) :
                   RemoveFirst(s, e)[j] = IF j < i THEN s[j] ELSE s[j + 1]
<1> DEFINE I == {i \in 1..Len(s) : s[i] = e}
<1>1. I # {} /\ I \in SUBSET Nat
  BY DEF ToSet
<1>2. Min(I) \in I
  <2> HIDE DEF I
  <2> QED
    BY <1>1, MinNat
<1>3. RemoveFirst(s, e) = RemoveAt(s, Min(I))
  BY <1>1 DEF RemoveFirst, SelectInSeq
<1>4. PICK i \in 1..Len(s) : i = Min(I) /\ s[i] = e
  BY <1>2
<1> DEFINE a == SubSeq(s, 1, i - 1)
           b == SubSeq(s, i + 1, Len(s))
<1>5. RemoveFirst(s, e) = a \o b
  BY <1>3, <1>4 DEF RemoveAt
<1>6. Len(s) \in Nat /\ i \in 1..Len(s) /\ \A j \in 1..Len(s) : s[j] \in S
  OBVIOUS
<1>7. a \in Seq(S) /\ Len(a) = i - 1 /\ \A j \in 1..(i - 1) : a[j] = s[j]
  BY ONLY <1>6
<1>8. b \in Seq(S) /\ Len(b) = Len(s) - i /\ \A j \in 1..(Len(s) - i) : b[j] = s[i + j]
  <2>1. \A j \in (i + 1)..Len(s) : s[j] \in S
    BY <1>6
  <2>2. /\ b \in Seq(S) /\ Len(b) = IF i + 1 <= Len(s) THEN Len(s) - (i + 1) + 1 ELSE 0
        /\ \A j \in 1..(Len(s) - (i + 1) + 1) : b[j] = s[i + 1 + j - 1]
    BY <1>6, <2>1, SubSeqProperties
  <2> QED
    BY ONLY <1>6, <2>2
<1> HIDE DEF a, b
<1>9. /\ a \o b \in Seq(S) /\ Len(a \o b) = Len(a) + Len(b)
      /\ \A j \in 1..(Len(a) + Len(b)) : (a \o b)[j] = IF j <= Len(a) THEN a[j] ELSE b[j - Len(a)]
  BY ONLY <1>7, <1>8, ConcatProperties
<1>10. Len(s) - 1 = Len(a) + Len(b)
  BY ONLY <1>6, <1>7, <1>8
<1>11. \A j \in 1..(Len(s) - 1) : (a \o b)[j] = IF j < i THEN s[j] ELSE s[j + 1]
  <2> TAKE j \in 1..(Len(s) - 1)
  <2>1. CASE j < i
    BY ONLY <1>6, <1>7, <1>9, <1>10, <2>1, j \in 1..(Len(s) - 1)
  <2>2. CASE ~ (j < i)
    <3>1. j - (i - 1) \in 1..(Len(s) - i) /\ i + (j - (i - 1)) = j + 1
      BY ONLY <1>6, <2>2, j \in 1..(Len(s) - 1)
    <3>2. b[j - (i - 1)] = s[i + (j - (i - 1))]
      BY ONLY <1>8, <3>1
    <3>3. (a \o b)[j] = b[j - (i - 1)]
      BY ONLY <1>6, <1>7, <1>9, <1>10, <2>2, j \in 1..(Len(s) - 1)
    <3> QED
      BY ONLY <2>2, <3>1, <3>2, <3>3
  <2> QED
    BY <2>1, <2>2
<1> QED
  BY ONLY <1>4, <1>5, <1>6, <1>9, <1>10, <1>11

\* Three free descriptors can be allocated.
LEMMA AllocFacts ==
  ASSUME CacheTypeOK, Cardinality(free) >= 3
  PROVE  /\ Alloc3 \in [1..3 -> free]
         /\ Alloc3[1] # Alloc3[2] /\ Alloc3[1] # Alloc3[3] /\ Alloc3[2] # Alloc3[3]
<1>1. free \in SUBSET Nat /\ IsFiniteSet(free)
  <2>1. free \subseteq 0..(NUM - 1) /\ NUM - 1 \in Int
    BY DiskAssumption DEF CacheTypeOK, BcacheTypeOK, Descs
  <2>2. IsFiniteSet(0..(NUM - 1))
    BY ONLY <2>1, FS_Interval, 0 \in Int
  <2>3. IsFiniteSet(free)
    BY ONLY <2>1, <2>2, FS_Subset
  <2> QED
    BY ONLY <2>1, <2>3
<1>2. ASSUME NEW S \in SUBSET free, Cardinality(S) < 3
      PROVE  free \ S # {} /\ free \ S \in SUBSET Nat
  <2>1. Cardinality(free) \in Nat /\ Cardinality(S) \in Nat
    BY <1>1, FS_Subset, FS_CardinalityType
  <2>2. S # free
    BY <1>2, <2>1
  <2> QED
    BY ONLY <1>1, <2>2, S \in SUBSET free
<1>3. Cardinality({}) = 0
  BY FS_EmptySet
<1> DEFINE a == Min(free)
           b == Min(free \ {a})
           c == Min(free \ {a, b})
<1>4. a \in free /\ \A y \in free : a <= y
  <2>1. free \ {} # {}
    BY <1>2, <1>3
  <2> QED
    BY ONLY <1>1, <2>1, MinNat
<1>5. IsFiniteSet({a}) /\ Cardinality({a}) = 1
  BY FS_Singleton
<1>6. b \in free \ {a} /\ \A y \in free \ {a} : b <= y
  <2>1. free \ {a} # {} /\ free \ {a} \in SUBSET Nat
    BY ONLY <1>2, <1>4, <1>5
  <2> QED
    BY ONLY <2>1, MinNat
<1>7. Cardinality({a, b}) = 2
  <2>1. {a, b} = {a} \union {b} /\ b \notin {a}
    BY <1>6
  <2>2. Cardinality({a} \union {b}) = 1 + 1
    BY ONLY <2>1, <1>5, FS_AddElement
  <2> QED
    BY ONLY <2>1, <2>2
<1>8. c \in free \ {a, b} /\ \A y \in free \ {a, b} : c <= y
  <2>1. free \ {a, b} # {} /\ free \ {a, b} \in SUBSET Nat
    BY ONLY <1>2, <1>4, <1>6, <1>7
  <2> QED
    BY ONLY <2>1, MinNat
<1> HIDE DEF a, b, c
<1>9. a \in Nat /\ b \in Nat /\ c \in Nat /\ a < b /\ b < c
  <2>1. a \in Nat /\ b \in Nat /\ c \in Nat
    BY ONLY <1>1, <1>4, <1>6, <1>8
  <2>2. a <= b /\ a # b /\ b <= c /\ b # c
    BY ONLY <1>4, <1>6, <1>8
  <2> QED
    BY ONLY <2>1, <2>2
<1>10. {e \in free : e < a} = {} /\ {e \in free : e < b} = {a} /\ {e \in free : e < c} = {a, b}
  <2>1. \A e \in free : ~ (e < a) /\ (e < b <=> e = a) /\ (e < c <=> e = a \/ e = b)
    <3> TAKE e \in free
    <3>1. e \in Nat /\ a <= e /\ (e # a => b <= e) /\ (e # a /\ e # b => c <= e)
      BY ONLY <1>1, <1>4, <1>6, <1>8, e \in free
    <3> QED
      BY ONLY <1>9, <3>1
  <2> QED
    BY ONLY <1>4, <1>6, <2>1
<1>11. a \in Lowest(free, 3) /\ b \in Lowest(free, 3) /\ c \in Lowest(free, 3)
  BY ONLY <1>3, <1>4, <1>5, <1>6, <1>7, <1>8, <1>10 DEF Lowest
<1> DEFINE idx == [k \in 1..3 |-> IF k = 1 THEN a ELSE IF k = 2 THEN b ELSE c]
<1>12. idx \in [1..3 -> Lowest(free, 3)] /\ idx[1] = a /\ idx[2] = b /\ idx[3] = c
  BY ONLY <1>11
<1>13. Alloc3 \in [1..3 -> Lowest(free, 3)] /\ Alloc3[1] < Alloc3[2] /\ Alloc3[2] < Alloc3[3]
  <2> HIDE DEF idx
  <2> QED
    BY <1>9, <1>12 DEF Alloc3
<1>14. Lowest(free, 3) \subseteq free
  BY DEF Lowest
<1>15. Alloc3[1] \in Nat /\ Alloc3[2] \in Nat /\ Alloc3[3] \in Nat
  <2>1. Alloc3[1] \in free /\ Alloc3[2] \in free /\ Alloc3[3] \in free
    BY ONLY <1>13, <1>14
  <2> QED
    BY ONLY <1>1, <2>1
<1> QED
  BY ONLY <1>13, <1>14, <1>15

-----------------------------------------------------------------------------
(* bread() *)

\* What bget() does when it finds a buffer: p gets b for the block, which b has
\* already, or which replaces that of a buffer nobody refers to.
Gets(p, blk, b) ==
  /\ b \in Bufs /\ b \notin ToSet(held[p])
  /\ held' = [held EXCEPT ![p] = Append(held[p], b)]
  /\ io' = [io EXCEPT ![p] = [step |-> "lock", buf |-> b, write |-> FALSE]]
  /\ refcnt' = [refcnt EXCEPT ![b] = refcnt[b] + 1]
  /\ bblock' = [bblock EXCEPT ![b] = blk]
  /\ \/ bblock[b] = blk /\ valid' = valid
     \/ /\ refcnt[b] = 0 /\ \A c \in Bufs : bblock[c] # blk
        /\ valid' = [valid EXCEPT ![b] = FALSE]
  /\ UNCHANGED <<disk, bdata, chain, free, info, inflight, used, owned, waiting>>
  /\ UNCHANGED <<holder, lru, panicked>>

\* The elements of a sequence, and of one with an element more.
LEMMA AppendFacts ==
  ASSUME NEW S, NEW s \in Seq(S), NEW e \in S
  PROVE  /\ Append(s, e) \in Seq(S) /\ Append(s, e) # <<>>
         /\ Len(Append(s, e)) = Len(s) + 1 /\ Last(Append(s, e)) = e
         /\ \A i \in 1..Len(s) : Append(s, e)[i] = s[i]
         /\ ToSet(Append(s, e)) = ToSet(s) \union {e}
         /\ IsInjective(s) /\ e \notin ToSet(s) => IsInjective(Append(s, e))
<1>1. /\ Len(s) \in Nat /\ DOMAIN s = 1..Len(s)
      /\ Append(s, e) \in Seq(S) /\ Append(s, e) # <<>> /\ Len(Append(s, e)) = Len(s) + 1
      /\ DOMAIN Append(s, e) = 1..(Len(s) + 1)
      /\ Append(s, e)[Len(s) + 1] = e
      /\ \A i \in 1..Len(s) : Append(s, e)[i] = s[i]
  BY AppendProperties
<1>2. ToSet(Append(s, e)) = ToSet(s) \union {e}
  <2>1. \A i \in 1..(Len(s) + 1) : i \in 1..Len(s) \/ i = Len(s) + 1
    BY ONLY <1>1
  <2>2. \A i \in 1..Len(s) : i \in 1..(Len(s) + 1)
    BY ONLY <1>1
  <2>3. Len(s) + 1 \in 1..(Len(s) + 1)
    BY ONLY <1>1
  <2> QED
    BY ONLY <1>1, <2>1, <2>2, <2>3 DEF ToSet
<1>3. IsInjective(s) /\ e \notin ToSet(s) => IsInjective(Append(s, e))
  BY ONLY <1>1 DEF IsInjective, ToSet
<1> QED
  BY ONLY <1>1, <1>2, <1>3 DEF Last

\* A buffer that nobody refers to is in nobody's hands.
LEMMA Unreferenced ==
  ASSUME CacheInv, NEW b \in Bufs, refcnt[b] = 0
  PROVE  \A q \in Procs : b \notin ToSet(held[q]) /\ io[q].buf # b
<1> SUFFICES ASSUME NEW q \in Procs
             PROVE  b \notin ToSet(held[q]) /\ io[q].buf # b
  OBVIOUS
<1>1. b \notin ToSet(held[q])
  BY DEF CacheInv, HeldInv
<1>2. io[q].step \in Steps /\ held[q] \in Seq(Bufs) /\ NoBuf \notin Bufs
  BY DiskAssumption DEF CacheInv, CacheTypeOK, BcacheTypeOK
<1>3. CASE io[q].step = "run"
  BY <1>1, <1>2, <1>3 DEF CacheInv, IoInv, Run
<1>4. CASE io[q].step = "lock"
  <2>1. held[q] # <<>> /\ io[q].buf = Last(held[q])
    BY <1>4 DEF CacheInv, IoInv
  <2> QED
    BY ONLY <1>1, <1>2, <2>1 DEF Last, ToSet
<1>5. CASE io[q].step \in {"start", "wait"}
  BY <1>1, <1>5 DEF CacheInv, IoInv
<1> QED
  BY <1>1, <1>2, <1>3, <1>4, <1>5 DEF Steps

\* bread() gets a buffer, or panics because every buffer is referenced.
LEMMA BreadGets ==
  ASSUME CacheInv, NEW p \in Procs, NEW blk, Bread(p, blk),
         \A b \in ToSet(held[p]) : bblock[b] # blk
  PROVE  \/ \E b \in Bufs : Gets(p, blk, b)
         \/ panicked' /\ Recyclable = 0 /\ UNCHANGED <<diskVars, valid, refcnt, holder, lru, held>>
<1>1. CASE BgetHit(p, blk)
  <2> DEFINE b == lru[Cached(blk)]
  <2>1. b \in Bufs /\ bblock[b] = blk
    BY <1>1, CachedFacts DEF CacheInv, BgetHit
  <2>2. bblock \in [Bufs -> Blocks \union {NoBlock}]
    BY DEF CacheInv, CacheTypeOK, BcacheTypeOK
  <2>3. bblock' = [bblock EXCEPT ![b] = blk]
    BY <1>1, <2>1, <2>2 DEF BgetHit
  <2>4. Gets(p, blk, b)
    BY <1>1, <2>1, <2>3 DEF BgetHit, Reference, Gets
  <2> QED
    BY <2>1, <2>4
<1>2. CASE BgetRecycle(p, blk)
  <2> DEFINE b == lru[Recyclable]
  <2>1. b \in Bufs /\ refcnt[b] = 0
    BY <1>2, RecyclableFacts DEF CacheInv, BgetRecycle
  <2>2. \A c \in Bufs : bblock[c] # blk
    BY <1>2, CachedFacts DEF CacheInv, BgetRecycle
  <2>3. b \notin ToSet(held[p])
    BY <2>1, Unreferenced
  <2>4. refcnt' = [refcnt EXCEPT ![b] = refcnt[b] + 1]
    BY <1>2, <2>1 DEF BgetRecycle
  <2>5. Gets(p, blk, b)
    BY <1>2, <2>1, <2>2, <2>3, <2>4 DEF BgetRecycle, Reference, Gets
  <2> QED
    BY <2>1, <2>5
<1>3. CASE BgetNoBuffers
  BY <1>3 DEF BgetNoBuffers
<1> QED
  BY <1>1, <1>2, <1>3 DEF Bread

\* What getting a buffer changes, process by process and buffer by buffer.
Got(p, blk, b) ==
  /\ held'[p] \in Seq(Bufs) /\ held'[p] # <<>> /\ Last(held'[p]) = b
  /\ IsInjective(held'[p])
  /\ ToSet(held'[p]) = ToSet(held[p]) \union {b}
  /\ Len(held'[p]) = Len(held[p]) + 1
  /\ \A k \in 1..Len(held[p]) : held'[p][k] = held[p][k]
  /\ io'[p] = [step |-> "lock", buf |-> b, write |-> FALSE]
  /\ \A q \in Procs \ {p} : held'[q] = held[q] /\ io'[q] = io[q]
  /\ bblock'[b] = blk /\ refcnt'[b] = refcnt[b] + 1
  /\ \A c \in Bufs \ {b} :
       bblock'[c] = bblock[c] /\ valid'[c] = valid[c] /\ refcnt'[c] = refcnt[c]
  /\ \A q \in Procs : \A c \in ToSet(held[q]) : bblock'[c] = bblock[c] /\ valid'[c] = valid[c]
  /\ \A q \in Procs : io[q].buf \in Bufs =>
       bblock'[io[q].buf] = bblock[io[q].buf] /\ valid'[io[q].buf] = valid[io[q].buf]

LEMMA GetsEffect ==
  ASSUME CacheInv, NEW p \in Procs, io[p] = Run, NEW blk \in Blocks, NEW b \in Bufs, Gets(p, blk, b)
  PROVE  Got(p, blk, b)
<1>1. /\ held[p] \in Seq(Bufs) /\ DOMAIN held = Procs
      /\ bblock \in [Bufs -> Blocks \union {NoBlock}] /\ valid \in [Bufs -> BOOLEAN]
      /\ refcnt \in [Bufs -> Nat] /\ DOMAIN io = Procs /\ IsInjective(held[p])
      /\ \A q \in Procs : held[q] \in Seq(Bufs)
  BY DEF CacheInv, CacheTypeOK, BcacheTypeOK, HeldInv
<1>2. held'[p] = Append(held[p], b) /\ \A q \in Procs \ {p} : held'[q] = held[q] /\ io'[q] = io[q]
  BY <1>1 DEF Gets
<1>3. io'[p] = [step |-> "lock", buf |-> b, write |-> FALSE]
  BY <1>1 DEF Gets
<1>4. b \in Bufs /\ b \notin ToSet(held[p])
  BY DEF Gets
<1>5. /\ bblock'[b] = blk /\ refcnt'[b] = refcnt[b] + 1
      /\ \A c \in Bufs \ {b} :
           bblock'[c] = bblock[c] /\ valid'[c] = valid[c] /\ refcnt'[c] = refcnt[c]
  BY <1>1 DEF Gets
<1>6. CASE bblock[b] = blk /\ valid' = valid
  <2>1. \A c \in Bufs : bblock'[c] = bblock[c] /\ valid'[c] = valid[c]
    BY ONLY <1>5, <1>6
  <2>2. \A q \in Procs : \A c \in ToSet(held[q]) : c \in Bufs
    BY ONLY <1>1 DEF ToSet
  <2> QED
    BY ONLY <1>1, <1>2, <1>3, <1>4, <1>5, <2>1, <2>2, AppendFacts DEF Got
<1>7. CASE refcnt[b] = 0
  <2>1. \A q \in Procs : b \notin ToSet(held[q]) /\ io[q].buf # b
    BY <1>4, <1>7, Unreferenced
  <2>2. \A q \in Procs : \A c \in ToSet(held[q]) : c \in Bufs \ {b}
    BY ONLY <1>1, <2>1 DEF ToSet
  <2> QED
    BY ONLY <1>1, <1>2, <1>3, <1>4, <1>5, <2>1, <2>2, AppendFacts DEF Got
<1> QED
  BY <1>6, <1>7 DEF Gets

\* A process that waits for the disk has a buffer.
LEMMA IoBuf ==
  ASSUME CacheInv, NEW q \in Procs, io[q].step # "run"
  PROVE  /\ io[q].buf \in Bufs /\ io[q].buf \in ToSet(held[q])
         /\ bblock[io[q].buf] \in Blocks /\ refcnt[io[q].buf] > 0
         /\ io[q].step \in {"lock", "start", "wait"}
<1>1. io[q].step \in Steps /\ held[q] \in Seq(Bufs) /\ bblock \in [Bufs -> Blocks \union {NoBlock}]
  BY DEF CacheInv, CacheTypeOK, BcacheTypeOK
<1>2. io[q].buf \in ToSet(held[q])
  <2>1. CASE io[q].step = "lock"
    BY <1>1, <2>1 DEF CacheInv, IoInv, Last, ToSet
  <2>2. CASE io[q].step \in {"start", "wait"}
    BY <2>2 DEF CacheInv, IoInv
  <2> QED
    BY <1>1, <2>1, <2>2 DEF Steps
<1>3. io[q].buf \in Bufs
  BY ONLY <1>1, <1>2 DEF ToSet
<1>4. bblock[io[q].buf] # NoBlock /\ refcnt[io[q].buf] > 0
  BY <1>2 DEF CacheInv, HeldInv
<1> QED
  BY <1>1, <1>2, <1>3, <1>4 DEF Steps

\* Requests are in order as long as those who wait for the disk are left alone.
LEMMA RequestFrame ==
  ASSUME CacheInv, UNCHANGED <<disk, chain, info, inflight, used, owned>>,
         \A q \in Procs : io'[q].step = "wait" <=> io[q].step = "wait",
         \A q \in Procs : io[q].step = "wait" =>
           /\ io'[q] = io[q] /\ bblock'[io[q].buf] = bblock[io[q].buf]
           /\ bdata'[io[q].buf] = bdata[io[q].buf]
  PROVE  RequestInv'
<1>1. RequestInv
  BY DEF CacheInv
<1>2. \A q \in Procs : io[q].step = "wait" => Request(q)' = Request(q) /\ io'[q].buf = io[q].buf
  BY DEF Request
<1>3. \A q \in Procs :
        /\ io'[q].step # "wait" => chain'[q] = NoChain
        /\ io'[q].step = "wait" =>
             /\ Len(chain'[q]) = 3 /\ info'[chain'[q][1]] = io'[q].buf
             /\ Request(q)' \notin inflight' => bdata'[io'[q].buf] = disk'[bblock'[io'[q].buf]]
  BY <1>1, <1>2 DEF RequestInv
<1>4. \A r \in inflight' : \E q \in Procs :
        /\ io'[q].step = "wait" /\ r = Request(q)' /\ io'[q].buf \in owned'
        /\ r.head \notin ToSet(used')
  BY <1>1, <1>2 DEF RequestInv
<1>5. \A d \in ToSet(used') : \E q \in Procs :
        io'[q].step = "wait" /\ d = chain'[q][1] /\ io'[q].buf \in owned'
  BY <1>1, <1>2 DEF RequestInv
<1> QED
  BY ONLY <1>3, <1>4, <1>5 DEF RequestInv, Request

LEMMA DescriptorFrame ==
  ASSUME DescriptorsAccounted, UNCHANGED <<chain, free, waiting>>
  PROVE  DescriptorsAccounted'
<1>1. \A q \in Procs : ChainOf(q)' = ChainOf(q)
  BY DEF ChainOf
<1>2. UNION {ChainOf(q)' : q \in Procs} = UNION {ChainOf(q) : q \in Procs}
  BY ONLY <1>1
<1> QED
  BY <1>1, <1>2 DEF DescriptorsAccounted

\* Getting a buffer leaves the cache in order.
LEMMA GetsStep ==
  ASSUME CacheInv, NEW p \in Procs, io[p] = Run, NEW blk \in Blocks, NEW b \in Bufs, Gets(p, blk, b)
  PROVE  CacheInv'
<1>0. CacheTypeOK /\ IoInv /\ HeldInv /\ Unique /\ RequestInv /\ DescriptorsAccounted
  BY DEF CacheInv
<1>g. Got(p, blk, b)
  BY GetsEffect
<1>t. /\ \A q \in Procs : held[q] \in Seq(Bufs) /\ \A c \in ToSet(held[q]) : c \in Bufs
      /\ refcnt \in [Bufs -> Nat] /\ blk # NoBlock /\ NoBuf \notin Bufs
  BY <1>0, DiskAssumption DEF CacheTypeOK, BcacheTypeOK, ToSet
<1>1. CacheTypeOK'
  <2>1. \A q \in Procs : held'[q] \in Seq(Bufs)
    BY ONLY <1>g, <1>t DEF Got
  <2>2. bblock' \in [Bufs -> Blocks \union {NoBlock}] /\ refcnt' \in [Bufs -> Nat] /\ valid' \in [Bufs -> BOOLEAN]
    <3>1. /\ bblock \in [Bufs -> Blocks \union {NoBlock}] /\ refcnt \in [Bufs -> Nat]
          /\ valid \in [Bufs -> BOOLEAN] /\ refcnt[b] + 1 \in Nat
      BY ONLY <1>0, b \in Bufs DEF CacheTypeOK, BcacheTypeOK
    <3>2. /\ bblock' = [bblock EXCEPT ![b] = blk] /\ refcnt' = [refcnt EXCEPT ![b] = refcnt[b] + 1]
          /\ valid' = valid \/ valid' = [valid EXCEPT ![b] = FALSE]
      BY ONLY Gets(p, blk, b) DEF Gets
    <3> QED
      BY ONLY <3>1, <3>2, blk \in Blocks
  <2>3. io' \in [Procs -> [step : Steps, buf : Bufs \union {NoBuf}, write : BOOLEAN]]
    BY <1>0 DEF Gets, CacheTypeOK, BcacheTypeOK, Steps
  <2>4. DOMAIN held' = Procs
    BY <1>0 DEF Gets, CacheTypeOK
  <2> QED
    BY ONLY <1>0, <2>1, <2>2, <2>3, <2>4, Gets(p, blk, b) DEF CacheTypeOK, BcacheTypeOK, Gets
<1>2. IoInv'
  <2> SUFFICES ASSUME NEW q \in Procs
               PROVE  /\ io'[q].step = "run" => io'[q] = Run
                      /\ io'[q].step = "lock" =>
                           held'[q] # <<>> /\ io'[q].buf = Last(held'[q]) /\ ~io'[q].write
                      /\ io'[q].step \in {"start", "wait"} =>
                           /\ io'[q].buf \in ToSet(held'[q]) /\ holder'[io'[q].buf] = q
                           /\ io'[q].write => valid'[io'[q].buf]
                           /\ ~io'[q].write => io'[q].buf = Last(held'[q]) /\ ~valid'[io'[q].buf]
    BY DEF IoInv, Run
  <2>1. CASE q = p
    BY ONLY <1>g, <2>1 DEF Got
  <2>2. CASE q # p
    <3>1. held'[q] = held[q] /\ io'[q] = io[q] /\ holder' = holder
      BY ONLY <1>g, <2>2, q \in Procs, Gets(p, blk, b) DEF Gets, Got
    <3>2. io[q].step \in {"start", "wait"} => valid'[io[q].buf] = valid[io[q].buf]
      <4>1. io[q].step \in {"start", "wait"} => io[q].buf \in Bufs
        BY ONLY CacheInv, q \in Procs, IoBuf
      <4> QED
        BY ONLY <1>g, <4>1, q \in Procs DEF Got
    <3> QED
      BY ONLY <1>0, <3>1, <3>2, q \in Procs DEF IoInv
  <2> QED
    BY <2>1, <2>2
<1>3. HeldInv'
  <2>0. holder' = holder /\ b \notin ToSet(held[p])
    BY DEF Gets
  <2> SUFFICES ASSUME NEW q \in Procs
               PROVE  /\ IsInjective(held'[q])
                      /\ \A c \in ToSet(held'[q]) :
                           /\ bblock'[c] # NoBlock /\ refcnt'[c] > 0
                           /\ io'[q].step = "lock" /\ c = io'[q].buf <=> holder'[c] # q
                           /\ valid'[c] \/ c = io'[q].buf
                      /\ \A c \in Bufs : holder'[c] = q => c \in ToSet(held'[q])
    BY DEF HeldInv
  <2>1. ASSUME NEW c \in Bufs
        PROVE  refcnt[c] > 0 => refcnt'[c] > 0
    BY ONLY <1>g, <1>t, c \in Bufs DEF Got
  <2>2. CASE q = p
    <3>1. IsInjective(held'[p])
      BY ONLY <1>g DEF Got
    <3>2. /\ bblock'[b] # NoBlock /\ refcnt'[b] > 0 /\ holder[b] # p
      BY ONLY <1>0, <1>g, <1>t, <2>0, p \in Procs, b \in Bufs DEF HeldInv, Got
    <3>3. ASSUME NEW c \in ToSet(held[p])
          PROVE  bblock'[c] # NoBlock /\ refcnt'[c] > 0 /\ holder[c] = p /\ valid'[c] /\ c # b
      <4>1. bblock[c] # NoBlock /\ refcnt[c] > 0 /\ holder[c] = p /\ valid[c] /\ c # b
        <5>1. io[p].step # "lock" /\ io[p].buf = NoBuf /\ NoBuf \notin Bufs /\ c \in Bufs
          BY <1>t, <3>3 DEF Run
        <5> QED
          BY ONLY <1>0, <2>0, <3>3, <5>1, p \in Procs DEF HeldInv
      <4> QED
        BY ONLY <1>g, <1>t, <2>1, <3>3, <4>1, p \in Procs DEF Got
    <3>4. \A c \in Bufs : holder[c] = p => c \in ToSet(held[p])
      BY <1>0 DEF HeldInv
    <3>5. io'[p].step = "lock" /\ io'[p].buf = b /\ ToSet(held'[p]) = ToSet(held[p]) \union {b}
      BY ONLY <1>g DEF Got
    <3> QED
      BY ONLY <2>0, <2>2, <3>1, <3>2, <3>3, <3>4, <3>5
  <2>3. CASE q # p
    <3>1. held'[q] = held[q] /\ io'[q] = io[q]
      BY ONLY <1>g, <2>3, q \in Procs DEF Got
    <3>2. ASSUME NEW c \in ToSet(held[q])
          PROVE  bblock'[c] # NoBlock /\ refcnt'[c] > 0 /\ valid'[c] = valid[c]
      <4>1. bblock[c] # NoBlock /\ refcnt[c] > 0 /\ c \in Bufs
        BY ONLY <1>0, <1>t, <3>2, q \in Procs DEF HeldInv
      <4> QED
        BY ONLY <1>g, <2>1, <3>2, <4>1, q \in Procs DEF Got
    <3> QED
      BY ONLY <1>0, <2>0, <3>1, <3>2, q \in Procs DEF HeldInv
  <2> QED
    BY <2>2, <2>3
<1>4. Unique'
  <2>1. \/ bblock[b] = blk
        \/ \A c \in Bufs : bblock[c] # blk
    BY DEF Gets
  <2>2. bblock'[b] = blk /\ \A c \in Bufs \ {b} : bblock'[c] = bblock[c]
    BY ONLY <1>g DEF Got
  <2>3. blk # NoBlock
    BY <1>t
  <2> QED
    BY ONLY <1>0, <2>1, <2>2, <2>3, b \in Bufs DEF Unique
<1>5. RequestInv'
  <2>1. UNCHANGED <<disk, bdata, chain, info, inflight, used, owned>>
    BY ONLY Gets(p, blk, b) DEF Gets
  <2>2. \A q \in Procs : io'[q].step = "wait" <=> io[q].step = "wait"
    BY ONLY <1>g, io[p] = Run DEF Run, Got
  <2>3. ASSUME NEW q \in Procs, io[q].step = "wait"
        PROVE  io'[q] = io[q] /\ bblock'[io[q].buf] = bblock[io[q].buf]
    <3>1. io[q].buf \in Bufs
      BY ONLY CacheInv, <2>3, IoBuf
    <3> QED
      BY ONLY <1>g, <2>3, <3>1, io[p] = Run DEF Run, Got
  <2> QED
    BY ONLY CacheInv, <2>1, <2>2, <2>3, RequestFrame
<1>6. DescriptorsAccounted'
  BY ONLY <1>0, Gets(p, blk, b), DescriptorFrame DEF Gets
<1> QED
  BY <1>1, <1>2, <1>3, <1>4, <1>5, <1>6 DEF CacheInv

\* It is counted.
LEMMA GetsRefs ==
  ASSUME CacheInv, NEW p \in Procs, io[p] = Run, NEW blk \in Blocks, NEW b \in Bufs, Gets(p, blk, b),
         IsFiniteSet(Procs),
         NEW pinned, RefsAre(refcnt, held, bblock, pinned),
         \A x \in pinned : \E c \in Bufs : bblock[c] = x
  PROVE  /\ RefsAre(refcnt', held', bblock', pinned)
         /\ \A x \in pinned : \E c \in Bufs : bblock'[c] = x
<1> DEFINE R(c) == {q \in Procs : c \in ToSet(held[q])}
           S(c) == {q \in Procs : c \in ToSet(held'[q])}
<1>g. Got(p, blk, b)
  BY ONLY CacheInv, p \in Procs, io[p] = Run, blk \in Blocks, b \in Bufs, Gets(p, blk, b), GetsEffect
<1>1. S(b) = R(b) \union {p} /\ p \notin R(b)
  BY ONLY <1>g, p \in Procs, Gets(p, blk, b) DEF Gets, Got
<1>2. \A c \in Bufs \ {b} : S(c) = R(c)
  BY ONLY <1>g, p \in Procs DEF Got
<1>3. Cardinality(S(b)) = Cardinality(R(b)) + 1 /\ Cardinality(R(b)) \in Nat
  <2>1. R(b) \subseteq Procs
    OBVIOUS
  <2>2. IsFiniteSet(R(b))
    BY ONLY <2>1, FS_Subset, IsFiniteSet(Procs)
  <2> HIDE DEF R, S
  <2> QED
    BY ONLY <1>1, <2>2, FS_AddElement, FS_CardinalityType
<1>4. /\ bblock'[b] = blk /\ refcnt'[b] = refcnt[b] + 1
      /\ \A c \in Bufs \ {b} : bblock'[c] = bblock[c] /\ refcnt'[c] = refcnt[c]
  BY ONLY <1>g DEF Got
<1>5. \A c \in Bufs : refcnt[c] = Cardinality(R(c)) + (IF bblock[c] \in pinned THEN 1 ELSE 0)
  BY DEF RefsAre
<1>6. bblock[b] \in pinned <=> blk \in pinned
  <2>1. CASE bblock[b] = blk
    BY <2>1
  <2>2. CASE refcnt[b] = 0 /\ \A c \in Bufs : bblock[c] # blk
    <3>1. blk \notin pinned
      BY <2>2
    <3>2. bblock[b] \notin pinned
      BY ONLY <1>3, <1>5, <2>2, b \in Bufs
    <3> QED
      BY <3>1, <3>2
  <2> QED
    BY <2>1, <2>2 DEF Gets
<1>7. \A c \in Bufs : refcnt'[c] = Cardinality(S(c)) + (IF bblock'[c] \in pinned THEN 1 ELSE 0)
  <2> TAKE c \in Bufs
  <2>1. CASE c = b
    <3> HIDE DEF R, S
    <3> QED
      BY ONLY <1>3, <1>4, <1>5, <1>6, <2>1, b \in Bufs
  <2>2. CASE c # b
    <3>1. S(c) = R(c)
      BY <1>2, <2>2
    <3> HIDE DEF R, S
    <3> QED
      BY ONLY <1>4, <1>5, <2>2, <3>1, c \in Bufs
  <2> QED
    BY <2>1, <2>2
<1>8. \A x \in pinned : \E c \in Bufs : bblock'[c] = x
  <2> TAKE x \in pinned
  <2>1. PICK c \in Bufs : bblock[c] = x
    OBVIOUS
  <2>2. c # b \/ x = blk
    <3>1. \/ bblock[b] = blk
          \/ bblock[b] \notin pinned
      <4>1. refcnt[b] = 0 => bblock[b] \notin pinned
        <5> HIDE DEF R
        <5> QED
          BY ONLY <1>3, <1>5, b \in Bufs
      <4> QED
        BY ONLY <4>1, Gets(p, blk, b) DEF Gets
    <3> QED
      BY <2>1, <3>1
  <2> QED
    BY ONLY <1>4, <2>1, <2>2, b \in Bufs
<1> QED
  BY <1>7, <1>8 DEF RefsAre


-----------------------------------------------------------------------------
(* Steps that leave most of the cache alone *)

\* Changing the reference counts of buffers leaves the cache in order while
\* those somebody has are referenced.  So does panic().
LEMMA CountStep ==
  ASSUME CacheInv, UNCHANGED <<diskVars, valid, holder, lru, held>>,
         refcnt' \in [Bufs -> Nat], panicked' \in BOOLEAN,
         \A q \in Procs : \A c \in ToSet(held[q]) : refcnt'[c] > 0
  PROVE  CacheInv'
<1>0. CacheTypeOK /\ IoInv /\ HeldInv /\ Unique /\ RequestInv /\ DescriptorsAccounted
  BY DEF CacheInv
<1>u. /\ disk' = disk /\ bblock' = bblock /\ bdata' = bdata /\ io' = io /\ chain' = chain
      /\ free' = free /\ info' = info /\ inflight' = inflight /\ used' = used /\ owned' = owned
      /\ waiting' = waiting /\ valid' = valid /\ holder' = holder /\ lru' = lru /\ held' = held
  BY DEF diskVars
<1>1. CacheTypeOK'
  BY <1>0, <1>u DEF CacheTypeOK, BcacheTypeOK
<1>2. IoInv'
  BY ONLY <1>0, <1>u DEF IoInv, Run
<1>3. HeldInv'
  BY ONLY <1>0, <1>u, \A q \in Procs : \A c \in ToSet(held[q]) : refcnt'[c] > 0 DEF HeldInv
<1>4. Unique'
  BY ONLY <1>0, <1>u DEF Unique
<1>5. RequestInv'
  BY ONLY CacheInv, <1>u, RequestFrame
<1>6. DescriptorsAccounted'
  BY ONLY <1>0, <1>u, DescriptorFrame
<1> QED
  BY <1>1, <1>2, <1>3, <1>4, <1>5, <1>6 DEF CacheInv

\* A process that executes its own code holds the locks of the buffers it has.
LEMMA Locked ==
  ASSUME CacheInv, NEW p \in Procs, io[p] = Run, NEW b \in ToSet(held[p])
  PROVE  /\ b \in Bufs /\ holder[b] = p /\ valid[b] /\ bblock[b] \in Blocks /\ refcnt[b] > 0
         /\ \A q \in Procs \ {p} : b \notin ToSet(held[q]) \/ io[q].step = "lock"
         /\ \A q \in Procs : io[q].step \in {"start", "wait"} => io[q].buf # b
<1>1. b \in Bufs /\ bblock \in [Bufs -> Blocks \union {NoBlock}] /\ NoBuf \notin Bufs
  BY DiskAssumption DEF CacheInv, CacheTypeOK, BcacheTypeOK, ToSet
<1>2. io[p].step = "run" /\ io[p].buf = NoBuf
  BY DEF Run
<1>3. holder[b] = p /\ valid[b] /\ bblock[b] \in Blocks /\ refcnt[b] > 0
  BY <1>1, <1>2 DEF CacheInv, HeldInv
<1>4. \A q \in Procs \ {p} : b \notin ToSet(held[q]) \/ io[q].step = "lock"
  BY <1>3 DEF CacheInv, HeldInv
<1>5. \A q \in Procs : io[q].step \in {"start", "wait"} => io[q].buf # b
  <2> TAKE q \in Procs
  <2>1. io[q].step \in {"start", "wait"} => holder[io[q].buf] = q
    BY DEF CacheInv, IoInv
  <2> QED
    BY <1>2, <1>3, <2>1
<1> QED
  BY <1>1, <1>3, <1>4, <1>5

\* A process that changes the data of a buffer it has, or hands the buffer to
\* bwrite() as well, leaves the cache in order, and bwrite() does not panic.
LEMMA PutStep ==
  ASSUME CacheInv, NEW p \in Procs, io[p] = Run, NEW b \in ToSet(held[p]), NEW v,
         bdata' = [bdata EXCEPT ![b] = v],
         (io' = io /\ panicked' = panicked) \/ Bwrite(p, b),
         UNCHANGED <<disk, bblock, chain, free, info, inflight, used, owned, waiting>>,
         UNCHANGED <<valid, refcnt, holder, lru, held>>
  PROVE  CacheInv' /\ panicked' = panicked
<1>0. CacheTypeOK /\ IoInv /\ HeldInv /\ Unique /\ RequestInv /\ DescriptorsAccounted
  BY DEF CacheInv
<1>b. /\ b \in Bufs /\ holder[b] = p /\ valid[b]
      /\ \A q \in Procs : io[q].step \in {"start", "wait"} => io[q].buf # b
  BY Locked
<1>i. /\ panicked' = panicked
      /\ io' = io \/ io' = [io EXCEPT ![p] = [step |-> "start", buf |-> b, write |-> TRUE]]
  BY <1>b DEF Bwrite
<1>j. /\ \A q \in Procs \ {p} : io'[q] = io[q]
      /\ io'[p] = io[p] \/ io'[p] = [step |-> "start", buf |-> b, write |-> TRUE]
  <2>1. DOMAIN io = Procs
    BY <1>0 DEF CacheTypeOK, BcacheTypeOK
  <2>2. CASE io' = io
    BY ONLY <2>2
  <2>3. CASE io' = [io EXCEPT ![p] = [step |-> "start", buf |-> b, write |-> TRUE]]
    BY ONLY <2>1, <2>3, p \in Procs
  <2> QED
    BY ONLY <1>i, <2>2, <2>3
<1>1. CacheTypeOK'
  <2>1. io' \in [Procs -> [step : Steps, buf : Bufs \union {NoBuf}, write : BOOLEAN]]
    <3>1. /\ io \in [Procs -> [step : Steps, buf : Bufs \union {NoBuf}, write : BOOLEAN]]
          /\ [step |-> "start", buf |-> b, write |-> TRUE]
               \in [step : Steps, buf : Bufs \union {NoBuf}, write : BOOLEAN]
      BY <1>0, <1>b DEF CacheTypeOK, BcacheTypeOK, Steps
    <3> QED
      BY ONLY <1>i, <3>1
  <2>2. DOMAIN bdata' = Bufs
    BY <1>0 DEF CacheTypeOK
  <2> QED
    BY <1>0, <1>i, <2>1, <2>2 DEF CacheTypeOK, BcacheTypeOK
<1>2. IoInv'
  <2>1. /\ held' = held /\ holder' = holder /\ valid' = valid
    OBVIOUS
  <2>2. b \in ToSet(held[p])
    OBVIOUS
  <2> SUFFICES ASSUME NEW q \in Procs
               PROVE  /\ io'[q].step = "run" => io'[q] = Run
                      /\ io'[q].step = "lock" =>
                           held'[q] # <<>> /\ io'[q].buf = Last(held'[q]) /\ ~io'[q].write
                      /\ io'[q].step \in {"start", "wait"} =>
                           /\ io'[q].buf \in ToSet(held'[q]) /\ holder'[io'[q].buf] = q
                           /\ io'[q].write => valid'[io'[q].buf]
                           /\ ~io'[q].write => io'[q].buf = Last(held'[q]) /\ ~valid'[io'[q].buf]
    BY DEF IoInv, Run
  <2>3. CASE io'[q] = io[q]
    BY ONLY <1>0, <2>1, <2>3, q \in Procs DEF IoInv
  <2>4. CASE q = p /\ io'[p] = [step |-> "start", buf |-> b, write |-> TRUE]
    <3>1. io'[p].step = "start" /\ io'[p].buf = b /\ io'[p].write
      BY ONLY <2>4
    <3> QED
      BY ONLY <1>b, <2>1, <2>2, <2>4, <3>1
  <2> QED
    BY ONLY <1>j, <2>3, <2>4, q \in Procs
<1>3. HeldInv'
  <2>1. /\ held' = held /\ holder' = holder /\ valid' = valid /\ bblock' = bblock /\ refcnt' = refcnt
    OBVIOUS
  <2>2. io[p].step = "run" /\ io[p].buf = NoBuf /\ \A c \in ToSet(held[p]) : c # NoBuf
    BY <1>0, DiskAssumption DEF Run, CacheTypeOK, BcacheTypeOK, ToSet
  <2> QED
    BY ONLY <1>0, <1>b, <1>j, <2>1, <2>2, p \in Procs DEF HeldInv
<1>4. Unique'
  BY <1>0 DEF Unique
<1>5. RequestInv'
  <2>1. \A q \in Procs : io'[q].step = "wait" <=> io[q].step = "wait"
    BY ONLY <1>j, io[p] = Run DEF Run
  <2>2. \A q \in Procs : io[q].step = "wait" => io'[q] = io[q] /\ io[q].buf \in Bufs \ {b}
    BY ONLY <1>b, <1>j, io[p] = Run, CacheInv, IoBuf DEF Run
  <2>3. \A c \in Bufs \ {b} : bdata'[c] = bdata[c]
    BY <1>0 DEF CacheTypeOK
  <2> QED
    BY <2>1, <2>2, <2>3, RequestFrame
<1>6. DescriptorsAccounted'
  BY <1>0, DescriptorFrame
<1> QED
  BY <1>i, <1>1, <1>2, <1>3, <1>4, <1>5, <1>6 DEF CacheInv

-----------------------------------------------------------------------------
(* Locks *)

\* A process that waits for the lock of a buffer has its block.
LEMMA AcquireStep ==
  ASSUME CacheInv, NEW p \in Procs, Acquiresleep(p)
  PROVE  CacheInv'
<1>0. CacheTypeOK /\ IoInv /\ HeldInv /\ Unique /\ RequestInv /\ DescriptorsAccounted
  BY DEF CacheInv
<1> DEFINE b == io[p].buf
<1>b. /\ io[p].step = "lock" /\ b \in Bufs /\ b \in ToSet(held[p]) /\ holder[b] = Nobody
      /\ held[p] # <<>> /\ b = Last(held[p]) /\ ~io[p].write
  <2>1. io[p].step = "lock" /\ holder[b] = Nobody
    BY DEF Acquiresleep
  <2>2. b \in Bufs /\ b \in ToSet(held[p])
    BY ONLY CacheInv, p \in Procs, <2>1, IoBuf
  <2> QED
    BY <1>0, <2>1, <2>2 DEF IoInv
<1>t. /\ io \in [Procs -> [step : Steps, buf : Bufs \union {NoBuf}, write : BOOLEAN]]
      /\ holder \in [Bufs -> Procs \union {Nobody}] /\ Nobody \notin Procs /\ NoBuf \notin Bufs
      /\ \A q \in Procs : \A c \in ToSet(held[q]) : c \in Bufs
  BY <1>0, BcacheAssumption, DiskAssumption DEF CacheTypeOK, BcacheTypeOK, ToSet
<1>u. /\ disk' = disk /\ bblock' = bblock /\ bdata' = bdata /\ chain' = chain
      /\ free' = free /\ info' = info /\ inflight' = inflight /\ used' = used /\ owned' = owned
      /\ waiting' = waiting /\ valid' = valid /\ refcnt' = refcnt /\ lru' = lru /\ held' = held
      /\ panicked' = panicked
  BY DEF Acquiresleep
<1>h. holder' = [holder EXCEPT ![b] = p]
  BY DEF Acquiresleep
<1>i. /\ valid[b] => io'[p] = Run
      /\ ~valid[b] => io'[p].step = "start" /\ io'[p].buf = b /\ ~io'[p].write
      /\ \A q \in Procs \ {p} : io'[q] = io[q]
      /\ io' \in [Procs -> [step : Steps, buf : Bufs \union {NoBuf}, write : BOOLEAN]]
  <2>1. io' = [io EXCEPT ![p] = IF valid[b] THEN Run ELSE [io[p] EXCEPT !.step = "start"]]
    BY DEF Acquiresleep
  <2>2. LET s == [io[p] EXCEPT !.step = "start"] IN
          /\ s \in [step : Steps, buf : Bufs \union {NoBuf}, write : BOOLEAN]
          /\ s.step = "start" /\ s.buf = b /\ ~s.write
    <3>1. io[p] \in [step : Steps, buf : Bufs \union {NoBuf}, write : BOOLEAN] /\ ~io[p].write
      BY ONLY <1>b, <1>t, p \in Procs
    <3> QED
      BY ONLY <3>1 DEF Steps
  <2>3. Run \in [step : Steps, buf : Bufs \union {NoBuf}, write : BOOLEAN]
    BY DEF Run, Steps
  <2>4. CASE valid[b]
    <3>1. io' = [io EXCEPT ![p] = Run]
      BY ONLY <2>1, <2>4
    <3> QED
      BY ONLY <1>t, <2>3, <2>4, <3>1, p \in Procs
  <2>5. CASE ~valid[b]
    <3>1. io' = [io EXCEPT ![p] = [io[p] EXCEPT !.step = "start"]]
      BY ONLY <2>1, <2>5
    <3> QED
      BY ONLY <1>t, <2>2, <2>5, <3>1, p \in Procs
  <2> QED
    BY ONLY <2>4, <2>5
<1>j. /\ holder'[b] = p /\ \A c \in Bufs \ {b} : holder'[c] = holder[c]
      /\ holder' \in [Bufs -> Procs \union {Nobody}]
  BY ONLY <1>b, <1>t, <1>h, p \in Procs
<1>k. /\ io'[p].step = "run" => io'[p] = Run /\ valid[b] /\ io'[p].buf = NoBuf
      /\ io'[p].step # "run" =>
           io'[p].step = "start" /\ io'[p].buf = b /\ ~io'[p].write /\ ~valid[b]
  BY ONLY <1>i DEF Run
<1> HIDE DEF b
<1>1. CacheTypeOK'
  BY <1>0, <1>i, <1>j, <1>u DEF CacheTypeOK, BcacheTypeOK
<1>2. IoInv'
  <2> SUFFICES ASSUME NEW q \in Procs
               PROVE  /\ io'[q].step = "run" => io'[q] = Run
                      /\ io'[q].step = "lock" =>
                           held'[q] # <<>> /\ io'[q].buf = Last(held'[q]) /\ ~io'[q].write
                      /\ io'[q].step \in {"start", "wait"} =>
                           /\ io'[q].buf \in ToSet(held'[q]) /\ holder'[io'[q].buf] = q
                           /\ io'[q].write => valid'[io'[q].buf]
                           /\ ~io'[q].write => io'[q].buf = Last(held'[q]) /\ ~valid'[io'[q].buf]
    BY DEF IoInv, Run
  <2>1. CASE q = p
    BY ONLY <1>b, <1>j, <1>k, <1>u, <2>1
  <2>2. CASE q # p
    <3>1. io'[q] = io[q] /\ held' = held /\ valid' = valid
      BY ONLY <1>i, <1>u, <2>2, q \in Procs
    <3>2. io[q].step \in {"start", "wait"} => holder'[io[q].buf] = q
      <4>1. io[q].step \in {"start", "wait"} => holder[io[q].buf] = q /\ io[q].buf \in Bufs
        BY ONLY <1>0, CacheInv, q \in Procs, IoBuf DEF IoInv
      <4> QED
        BY ONLY <1>b, <1>t, <1>j, <4>1, q \in Procs
    <3> QED
      BY ONLY <1>0, <3>1, <3>2, q \in Procs DEF IoInv
  <2> QED
    BY <2>1, <2>2
<1>3. HeldInv'
  <2> SUFFICES ASSUME NEW q \in Procs
               PROVE  /\ IsInjective(held'[q])
                      /\ \A c \in ToSet(held'[q]) :
                           /\ bblock'[c] # NoBlock /\ refcnt'[c] > 0
                           /\ io'[q].step = "lock" /\ c = io'[q].buf <=> holder'[c] # q
                           /\ valid'[c] \/ c = io'[q].buf
                      /\ \A c \in Bufs : holder'[c] = q => c \in ToSet(held'[q])
    BY DEF HeldInv
  <2>h. /\ IsInjective(held[q])
        /\ \A c \in ToSet(held[q]) :
             /\ c \in Bufs
             /\ bblock[c] # NoBlock /\ refcnt[c] > 0
             /\ io[q].step = "lock" /\ c = io[q].buf <=> holder[c] # q
             /\ valid[c] \/ c = io[q].buf
        /\ \A c \in Bufs : holder[c] = q => c \in ToSet(held[q])
    BY ONLY <1>0, <1>t, q \in Procs DEF HeldInv
  <2>1. CASE q = p
    <3>1. b = io[p].buf
      BY DEF b
    <3> QED
      BY ONLY <1>b, <1>j, <1>k, <1>u, <2>h, <2>1, <3>1
  <2>2. CASE q # p
    <3>1. io'[q] = io[q]
      BY ONLY <1>i, <2>2, q \in Procs
    <3>2. \A c \in Bufs : holder'[c] = q <=> holder[c] = q
      BY ONLY <1>b, <1>j, <1>t, <2>2, q \in Procs
    <3> QED
      BY ONLY <1>u, <2>h, <3>1, <3>2
  <2> QED
    BY <2>1, <2>2
<1>4. Unique'
  BY ONLY <1>0, <1>u DEF Unique
<1>5. RequestInv'
  <2>1. \A q \in Procs : io'[q].step = "wait" <=> io[q].step = "wait"
    BY ONLY <1>b, <1>i, <1>k
  <2>2. \A q \in Procs : io[q].step = "wait" => io'[q] = io[q]
    BY ONLY <1>b, <1>i
  <2> QED
    BY ONLY CacheInv, <1>u, <2>1, <2>2, RequestFrame
<1>6. DescriptorsAccounted'
  BY ONLY <1>0, <1>u, DescriptorFrame
<1> QED
  BY <1>1, <1>2, <1>3, <1>4, <1>5, <1>6 DEF CacheInv

\* The elements of a sequence, and of one from which an element is removed.
LEMMA RemoveOnce ==
  ASSUME NEW S, NEW s \in Seq(S), IsInjective(s), NEW e \in ToSet(s)
  PROVE  /\ RemoveFirst(s, e) \in Seq(S) /\ Len(RemoveFirst(s, e)) = Len(s) - 1
         /\ ToSet(RemoveFirst(s, e)) = ToSet(s) \ {e}
         /\ IsInjective(RemoveFirst(s, e))
<1> DEFINE r == RemoveFirst(s, e)
<1>1. /\ r \in Seq(S) /\ Len(r) = Len(s) - 1
      /\ \E i \in 1..Len(s) :
           s[i] = e /\ \A j \in 1..(Len(s) - 1) : r[j] = IF j < i THEN s[j] ELSE s[j + 1]
  BY RemoveFacts
<1>2. PICK i \in 1..Len(s) :
        s[i] = e /\ \A j \in 1..(Len(s) - 1) : r[j] = IF j < i THEN s[j] ELSE s[j + 1]
  BY ONLY <1>1
<1>3. Len(s) \in Nat /\ DOMAIN s = 1..Len(s) /\ DOMAIN r = 1..(Len(s) - 1)
  BY ONLY <1>1, s \in Seq(S)
<1> HIDE DEF r
<1>4. \A j, k \in 1..Len(s) : s[j] = s[k] => j = k
  BY <1>3 DEF IsInjective
<1>5. \A j \in 1..(Len(s) - 1) : \E k \in 1..Len(s) \ {i} : r[j] = s[k]
  BY ONLY <1>2, <1>3
<1>6. \A k \in 1..Len(s) \ {i} : \E j \in 1..(Len(s) - 1) : r[j] = s[k]
  <2> TAKE k \in 1..Len(s) \ {i}
  <2>1. CASE k < i
    BY ONLY <1>2, <1>3, <2>1, k \in 1..Len(s) \ {i}
  <2>2. CASE k > i
    <3>1. k - 1 \in 1..(Len(s) - 1) /\ ~(k - 1 < i) /\ k - 1 + 1 = k
      BY ONLY <1>3, <2>2, i \in 1..Len(s), k \in 1..Len(s) \ {i}
    <3>2. r[k - 1] = s[k - 1 + 1]
      BY ONLY <1>2, <3>1
    <3> QED
      BY ONLY <3>1, <3>2
  <2> QED
    BY ONLY <1>3, <2>1, <2>2, i \in 1..Len(s), k \in 1..Len(s) \ {i}
<1>7. ToSet(r) = ToSet(s) \ {e}
  <2>1. \A j \in 1..(Len(s) - 1) : r[j] \in ToSet(s) \ {e}
    BY ONLY <1>2, <1>3, <1>4, <1>5 DEF ToSet
  <2>2. \A x \in ToSet(s) \ {e} : \E j \in 1..(Len(s) - 1) : r[j] = x
    BY ONLY <1>2, <1>3, <1>6 DEF ToSet
  <2> QED
    BY ONLY <1>3, <2>1, <2>2 DEF ToSet
<1>8. IsInjective(r)
  <2>1. \A j, k \in 1..(Len(s) - 1) : r[j] = r[k] => j = k
    <3> TAKE j, k \in 1..(Len(s) - 1)
    <3>1. \A m \in 1..(Len(s) - 1) : m \in 1..Len(s) /\ m + 1 \in 1..Len(s) /\ m \in Nat
      BY ONLY <1>3
    <3>2. \A m \in 1..(Len(s) - 1) : (m < i /\ r[m] = s[m]) \/ (~(m < i) /\ r[m] = s[m + 1])
      BY ONLY <1>2
    <3> QED
      BY ONLY <1>4, <3>1, <3>2, i \in 1..Len(s), j \in 1..(Len(s) - 1), k \in 1..(Len(s) - 1), <1>3
  <2> QED
    BY ONLY <1>3, <2>1 DEF IsInjective
<1> QED
  BY <1>1, <1>7, <1>8 DEF r

\* brelse() of a buffer that the process has leaves the cache in order, and does
\* not panic, as long as the references are counted.
Releases(p, b) ==
  /\ panicked' = FALSE
  /\ held'[p] \in Seq(Bufs) /\ IsInjective(held'[p]) /\ ToSet(held'[p]) = ToSet(held[p]) \ {b}
  /\ Len(held'[p]) = Len(held[p]) - 1
  /\ \E i \in 1..Len(held[p]) :
       held[p][i] = b /\ \A j \in 1..(Len(held[p]) - 1) :
                           held'[p][j] = IF j < i THEN held[p][j] ELSE held[p][j + 1]
  /\ \A q \in Procs \ {p} : held'[q] = held[q]
  /\ holder'[b] = Nobody /\ refcnt'[b] = refcnt[b] - 1
  /\ \A c \in Bufs \ {b} : holder'[c] = holder[c] /\ refcnt'[c] = refcnt[c]
  /\ UNCHANGED <<diskVars, valid>>

LEMMA BrelseEffect ==
  ASSUME CacheInv, NEW p \in Procs, io[p] = Run, NEW b \in ToSet(held[p]), Brelse(p, b)
  PROVE  Releases(p, b)
<1>1. /\ held[p] \in Seq(Bufs) /\ IsInjective(held[p]) /\ DOMAIN held = Procs
      /\ DOMAIN holder = Bufs /\ DOMAIN refcnt = Bufs
  BY DEF CacheInv, CacheTypeOK, BcacheTypeOK, HeldInv
<1>2. holder[b] = p /\ b \in Bufs
  BY Locked
<1>3. /\ panicked' = (holder[b] # p) /\ holder' = [holder EXCEPT ![b] = Nobody]
      /\ refcnt' = [refcnt EXCEPT ![b] = refcnt[b] - 1]
      /\ held' = [held EXCEPT ![p] = RemoveFirst(held[p], b)]
      /\ UNCHANGED <<diskVars, valid>>
  BY DEF Brelse
<1>4. held'[p] = RemoveFirst(held[p], b) /\ \A q \in Procs \ {p} : held'[q] = held[q]
  BY ONLY <1>1, <1>3, p \in Procs
<1>5. /\ holder'[b] = Nobody /\ refcnt'[b] = refcnt[b] - 1
      /\ \A c \in Bufs \ {b} : holder'[c] = holder[c] /\ refcnt'[c] = refcnt[c]
  BY ONLY <1>1, <1>2, <1>3
<1>6. /\ held'[p] \in Seq(Bufs) /\ IsInjective(held'[p]) /\ ToSet(held'[p]) = ToSet(held[p]) \ {b}
      /\ Len(held'[p]) = Len(held[p]) - 1
  BY ONLY <1>1, <1>4, b \in ToSet(held[p]), RemoveOnce
<1>7. \E i \in 1..Len(held[p]) :
        held[p][i] = b /\ \A j \in 1..(Len(held[p]) - 1) :
                            held'[p][j] = IF j < i THEN held[p][j] ELSE held[p][j + 1]
  BY ONLY <1>1, <1>4, b \in ToSet(held[p]), RemoveFacts
<1> QED
  BY ONLY <1>2, <1>3, <1>4, <1>5, <1>6, <1>7 DEF Releases

\* It is counted.
LEMMA BrelseRefs ==
  ASSUME CacheInv, NEW p \in Procs, io[p] = Run, NEW b \in ToSet(held[p]), Releases(p, b),
         IsFiniteSet(Procs), NEW pinned, RefsAre(refcnt, held, bblock, pinned)
  PROVE  /\ RefsAre(refcnt', held', bblock', pinned)
         /\ \A q \in Procs : \A c \in ToSet(held'[q]) : refcnt'[c] > 0
         /\ \A c \in Bufs : refcnt'[c] \in Nat
<1> DEFINE R(c) == {q \in Procs : c \in ToSet(held[q])}
           S(c) == {q \in Procs : c \in ToSet(held'[q])}
<1>r. Releases(p, b)
  OBVIOUS
<1>b. b \in Bufs /\ refcnt \in [Bufs -> Nat] /\ \A q \in Procs : \A c \in ToSet(held[q]) : c \in Bufs
  BY DEF CacheInv, CacheTypeOK, BcacheTypeOK, ToSet
<1>1. R(b) = S(b) \union {p} /\ p \notin S(b)
  BY ONLY <1>r, p \in Procs, b \in ToSet(held[p]) DEF Releases
<1>2. \A c \in Bufs \ {b} : S(c) = R(c)
  BY ONLY <1>r, p \in Procs DEF Releases
<1>f. \A c \in Bufs : IsFiniteSet(R(c)) /\ IsFiniteSet(S(c))
  <2>1. \A c \in Bufs : R(c) \subseteq Procs /\ S(c) \subseteq Procs
    OBVIOUS
  <2> QED
    BY ONLY <2>1, FS_Subset, IsFiniteSet(Procs)
<1>3. Cardinality(R(b)) = Cardinality(S(b)) + 1 /\ \A c \in Bufs : Cardinality(S(c)) \in Nat
  <2> HIDE DEF R, S
  <2> QED
    BY ONLY <1>1, <1>b, <1>f, FS_AddElement, FS_CardinalityType
<1>4. refcnt'[b] = refcnt[b] - 1 /\ \A c \in Bufs \ {b} : refcnt'[c] = refcnt[c]
  BY ONLY <1>r DEF Releases
<1>5. \A c \in Bufs : refcnt[c] = Cardinality(R(c)) + (IF bblock[c] \in pinned THEN 1 ELSE 0)
  BY DEF RefsAre
<1>6. bblock' = bblock
  BY ONLY <1>r DEF Releases, diskVars
<1>7. \A c \in Bufs : refcnt'[c] = Cardinality(S(c)) + (IF bblock'[c] \in pinned THEN 1 ELSE 0)
  <2> TAKE c \in Bufs
  <2>1. CASE c = b
    <3> HIDE DEF R, S
    <3> QED
      BY ONLY <1>3, <1>4, <1>5, <1>6, <1>b, <2>1
  <2>2. CASE c # b
    <3>1. S(c) = R(c)
      BY <1>2, <2>2
    <3> HIDE DEF R, S
    <3> QED
      BY ONLY <1>4, <1>5, <1>6, <2>2, <3>1, c \in Bufs
  <2> QED
    BY <2>1, <2>2
<1>8. ASSUME NEW q \in Procs, NEW c \in ToSet(held'[q])
      PROVE  refcnt'[c] > 0
  <2>1. c \in Bufs
    BY ONLY <1>r, <1>b, <1>8, p \in Procs DEF Releases
  <2>2. S(c) # {}
    OBVIOUS
  <2>3. Cardinality(S(c)) # 0
    <3> HIDE DEF S
    <3> QED
      BY ONLY <1>f, <2>1, <2>2, FS_EmptySet
  <2> HIDE DEF S
  <2> QED
    BY ONLY <1>3, <1>7, <2>1, <2>3
<1>9. \A c \in Bufs : refcnt'[c] \in Nat
  <2> HIDE DEF S
  <2> QED
    BY ONLY <1>3, <1>7
<1> QED
  BY <1>7, <1>8, <1>9 DEF RefsAre

\* A list with one of its elements moved to the front has the same elements.
LEMMA MoveFacts ==
  ASSUME CacheTypeOK, NEW b \in Bufs
  PROVE  /\ MoveToFront(b) \in Seq(Bufs) /\ Len(MoveToFront(b)) = Len(lru)
         /\ ToSet(MoveToFront(b)) = ToSet(lru)
<1> DEFINE r == RemoveFirst(lru, b)
           m == <<b>> \o r
<1>1. lru \in Seq(Bufs) /\ b \in ToSet(lru)
  BY DEF CacheTypeOK, BcacheTypeOK
<1>2. /\ r \in Seq(Bufs) /\ Len(r) = Len(lru) - 1
      /\ \E i \in 1..Len(lru) :
           lru[i] = b /\ \A j \in 1..(Len(lru) - 1) : r[j] = IF j < i THEN lru[j] ELSE lru[j + 1]
  BY <1>1, RemoveFacts
<1>3. PICK i \in 1..Len(lru) :
        lru[i] = b /\ \A j \in 1..(Len(lru) - 1) : r[j] = IF j < i THEN lru[j] ELSE lru[j + 1]
  BY ONLY <1>2
<1>4. Len(lru) \in Nat /\ DOMAIN lru = 1..Len(lru)
  BY ONLY <1>1
<1> HIDE DEF r
<1>5. /\ m \in Seq(Bufs) /\ Len(m) = Len(lru)
      /\ m[1] = b /\ \A j \in 1..(Len(lru) - 1) : m[j + 1] = r[j]
  <2>1. <<b>> \in Seq(Bufs) /\ Len(<<b>>) = 1 /\ <<b>>[1] = b
    OBVIOUS
  <2> DEFINE s == <<b>>
  <2> HIDE DEF s
  <2>2. /\ s \o r \in Seq(Bufs) /\ Len(s \o r) = 1 + Len(r)
        /\ \A k \in 1..(1 + Len(r)) : (s \o r)[k] = IF k <= 1 THEN s[k] ELSE r[k - 1]
    BY ONLY <1>2, <2>1, ConcatProperties DEF s
  <2>3. (s \o r)[1] = b /\ \A j \in 1..(Len(lru) - 1) : (s \o r)[j + 1] = r[j]
    <3>1. \A j \in 1..(Len(lru) - 1) : j + 1 \in 1..(1 + Len(r)) /\ ~(j + 1 <= 1) /\ j + 1 - 1 = j
      BY ONLY <1>2, <1>4
    <3>2. s[1] = b /\ Len(r) \in Nat
      BY <1>2, <2>1 DEF s
    <3>3. 1 \in 1..(1 + Len(r))
      BY ONLY <3>2
    <3> QED
      BY ONLY <2>2, <3>1, <3>2, <3>3
  <2> QED
    BY ONLY <1>2, <1>4, <2>2, <2>3 DEF s
<1> HIDE DEF m
<1>6. ToSet(m) = ToSet(lru)
  <2>1. \A j \in 1..Len(lru) : \E k \in 1..Len(lru) : m[j] = lru[k]
    <3> TAKE j \in 1..Len(lru)
    <3>1. CASE j = 1
      BY ONLY <1>3, <1>5, <3>1, i \in 1..Len(lru)
    <3>2. CASE j # 1
      <4>1. j - 1 \in 1..(Len(lru) - 1) /\ j - 1 + 1 = j
        BY ONLY <1>4, <3>2, j \in 1..Len(lru)
      <4>2. m[j] = r[j - 1]
        BY ONLY <1>5, <4>1
      <4>3. r[j - 1] = lru[j - 1] \/ r[j - 1] = lru[j]
        BY ONLY <1>3, <4>1
      <4>4. j - 1 \in 1..Len(lru)
        BY ONLY <1>4, <4>1
      <4> QED
        BY ONLY <4>2, <4>3, <4>4, j \in 1..Len(lru)
    <3> QED
      BY ONLY <3>1, <3>2
  <2>2. \A k \in 1..Len(lru) : \E j \in 1..Len(lru) : m[j] = lru[k]
    <3> TAKE k \in 1..Len(lru)
    <3>1. CASE k = i
      <4>1. 1 \in 1..Len(lru)
        BY ONLY <1>4, k \in 1..Len(lru)
      <4> QED
        BY ONLY <1>3, <1>5, <3>1, <4>1
    <3>2. CASE k < i
      <4>1. k \in 1..(Len(lru) - 1) /\ k + 1 \in 1..Len(lru)
        BY ONLY <1>4, <3>2, i \in 1..Len(lru), k \in 1..Len(lru)
      <4>2. m[k + 1] = r[k] /\ r[k] = lru[k]
        BY ONLY <1>3, <1>5, <3>2, <4>1
      <4> QED
        BY ONLY <4>1, <4>2
    <3>3. CASE k > i
      <4>1. k - 1 \in 1..(Len(lru) - 1) /\ k - 1 + 1 = k /\ ~(k - 1 < i)
        BY ONLY <1>4, <3>3, i \in 1..Len(lru), k \in 1..Len(lru)
      <4>2. m[k - 1 + 1] = r[k - 1] /\ r[k - 1] = lru[k - 1 + 1]
        BY ONLY <1>3, <1>5, <4>1
      <4> QED
        BY ONLY <4>1, <4>2, k \in 1..Len(lru)
    <3> QED
      BY ONLY <1>4, <3>1, <3>2, <3>3, i \in 1..Len(lru), k \in 1..Len(lru)
  <2>3. DOMAIN m = 1..Len(lru)
    BY ONLY <1>5
  <2>4. \A x \in ToSet(m) : x \in ToSet(lru)
    BY ONLY <1>4, <2>1, <2>3 DEF ToSet
  <2>5. \A x \in ToSet(lru) : x \in ToSet(m)
    BY ONLY <1>4, <2>2, <2>3 DEF ToSet
  <2> QED
    BY ONLY <2>4, <2>5
<1> QED
  BY <1>5, <1>6 DEF m, r, MoveToFront

LEMMA BrelseStep ==
  ASSUME CacheInv, NEW p \in Procs, io[p] = Run, NEW b \in ToSet(held[p]), Brelse(p, b),
         IsFiniteSet(Procs), NEW pinned, RefsAre(refcnt, held, bblock, pinned)
  PROVE  /\ CacheInv' /\ Releases(p, b) /\ RefsAre(refcnt', held', bblock', pinned)
<1>0. CacheTypeOK /\ IoInv /\ HeldInv /\ Unique /\ RequestInv /\ DescriptorsAccounted
  BY DEF CacheInv
<1>e. Releases(p, b)
  BY BrelseEffect
<1>r. /\ RefsAre(refcnt', held', bblock', pinned)
      /\ \A q \in Procs : \A c \in ToSet(held'[q]) : refcnt'[c] > 0
      /\ \A c \in Bufs : refcnt'[c] \in Nat
  BY <1>e, BrelseRefs
<1>u. /\ disk' = disk /\ bblock' = bblock /\ bdata' = bdata /\ chain' = chain /\ io' = io
      /\ free' = free /\ info' = info /\ inflight' = inflight /\ used' = used /\ owned' = owned
      /\ waiting' = waiting /\ valid' = valid
  BY DEF Brelse, diskVars
<1>b. /\ b \in Bufs /\ holder[b] = p
      /\ \A q \in Procs \ {p} : b \notin ToSet(held[q]) \/ io[q].step = "lock"
      /\ \A q \in Procs : io[q].step \in {"start", "wait"} => io[q].buf # b
  BY Locked
<1>t. /\ \A q \in Procs : held[q] \in Seq(Bufs) /\ \A c \in ToSet(held[q]) : c \in Bufs
      /\ Nobody \notin Procs /\ NoBuf \notin Bufs
  BY <1>0, BcacheAssumption, DiskAssumption DEF CacheTypeOK, BcacheTypeOK, ToSet
<1>1. CacheTypeOK'
  <2>1. /\ holder' \in [Bufs -> Procs \union {Nobody}] /\ DOMAIN held' = Procs /\ DOMAIN refcnt' = Bufs
    BY <1>0 DEF Brelse, CacheTypeOK, BcacheTypeOK
  <2>2. refcnt' \in [Bufs -> Nat]
    <3>1. refcnt' = [refcnt EXCEPT ![b] = refcnt[b] - 1]
      BY DEF Brelse
    <3>2. DOMAIN refcnt = Bufs
      BY <1>0 DEF CacheTypeOK, BcacheTypeOK
    <3> QED
      BY ONLY <1>r, <3>1, <3>2
  <2>3. \A q \in Procs : held'[q] \in Seq(Bufs)
    BY ONLY <1>e, <1>t DEF Releases
  <2>4. lru' \in Seq(Bufs) /\ Len(lru') = Len(lru) /\ ToSet(lru') = ToSet(lru)
    <3>1. lru' = lru \/ lru' = MoveToFront(b)
      BY DEF Brelse
    <3>2. lru \in Seq(Bufs)
      BY <1>0 DEF CacheTypeOK
    <3> QED
      BY ONLY <1>0, <1>b, <3>1, <3>2, MoveFacts
  <2>5. panicked' \in BOOLEAN
    BY <1>e DEF Releases
  <2> QED
    BY ONLY <1>0, <1>u, <2>1, <2>2, <2>3, <2>4, <2>5 DEF CacheTypeOK, BcacheTypeOK
<1>2. IoInv'
  <2> SUFFICES ASSUME NEW q \in Procs
               PROVE  /\ io'[q].step = "run" => io'[q] = Run
                      /\ io'[q].step = "lock" =>
                           held'[q] # <<>> /\ io'[q].buf = Last(held'[q]) /\ ~io'[q].write
                      /\ io'[q].step \in {"start", "wait"} =>
                           /\ io'[q].buf \in ToSet(held'[q]) /\ holder'[io'[q].buf] = q
                           /\ io'[q].write => valid'[io'[q].buf]
                           /\ ~io'[q].write => io'[q].buf = Last(held'[q]) /\ ~valid'[io'[q].buf]
    BY DEF IoInv, Run
  <2>1. CASE q = p
    BY ONLY <1>u, <2>1, io[p] = Run DEF Run
  <2>2. CASE q # p
    <3>1. held'[q] = held[q]
      BY ONLY <1>e, <2>2, q \in Procs DEF Releases
    <3>2. io[q].step \in {"start", "wait"} => holder'[io[q].buf] = q
      <4>1. io[q].step \in {"start", "wait"} => holder[io[q].buf] = q /\ io[q].buf \in Bufs
        BY ONLY <1>0, CacheInv, q \in Procs, IoBuf DEF IoInv
      <4> QED
        BY ONLY <1>b, <1>e, <4>1, q \in Procs DEF Releases
    <3> QED
      BY ONLY <1>0, <1>u, <3>1, <3>2, q \in Procs DEF IoInv
  <2> QED
    BY <2>1, <2>2
<1>3. HeldInv'
  <2> SUFFICES ASSUME NEW q \in Procs
               PROVE  /\ IsInjective(held'[q])
                      /\ \A c \in ToSet(held'[q]) :
                           /\ bblock'[c] # NoBlock /\ refcnt'[c] > 0
                           /\ io'[q].step = "lock" /\ c = io'[q].buf <=> holder'[c] # q
                           /\ valid'[c] \/ c = io'[q].buf
                      /\ \A c \in Bufs : holder'[c] = q => c \in ToSet(held'[q])
    BY DEF HeldInv
  <2>h. /\ IsInjective(held[q])
        /\ \A c \in ToSet(held[q]) :
             /\ c \in Bufs
             /\ bblock[c] # NoBlock
             /\ io[q].step = "lock" /\ c = io[q].buf <=> holder[c] # q
             /\ valid[c] \/ c = io[q].buf
        /\ \A c \in Bufs : holder[c] = q => c \in ToSet(held[q])
    BY ONLY <1>0, <1>t, q \in Procs DEF HeldInv
  <2>k. \A c \in Bufs : holder'[c] = IF c = b THEN Nobody ELSE holder[c]
    BY ONLY <1>e, <1>b DEF Releases
  <2>1. CASE q = p
    <3>1. IsInjective(held'[q]) /\ ToSet(held'[q]) = ToSet(held[q]) \ {b}
      BY ONLY <1>e, <2>1 DEF Releases
    <3> QED
      BY ONLY <1>r, <1>t, <1>u, <2>h, <2>k, <2>1, <3>1, q \in Procs
  <2>2. CASE q # p
    <3>1. held'[q] = held[q]
      BY ONLY <1>e, <2>2, q \in Procs DEF Releases
    <3>2. \A c \in Bufs : holder'[c] = q <=> holder[c] = q
      BY ONLY <1>b, <1>t, <2>k, <2>2, q \in Procs
    <3> QED
      BY ONLY <1>r, <1>u, <2>h, <3>1, <3>2, q \in Procs
  <2> QED
    BY <2>1, <2>2
<1>4. Unique'
  BY ONLY <1>0, <1>u DEF Unique
<1>5. RequestInv'
  BY ONLY CacheInv, <1>u, RequestFrame
<1>6. DescriptorsAccounted'
  BY ONLY <1>0, <1>u, DescriptorFrame
<1> QED
  BY <1>e, <1>r, <1>1, <1>2, <1>3, <1>4, <1>5, <1>6 DEF CacheInv

-----------------------------------------------------------------------------
(* The disk *)

LEMMA FreeCount ==
  ASSUME CacheTypeOK
  PROVE  Cardinality(free) \in Nat
<1>1. free \subseteq 0..(NUM - 1) /\ NUM - 1 \in Int
  BY DiskAssumption DEF CacheTypeOK, BcacheTypeOK, Descs
<1>2. IsFiniteSet(0..(NUM - 1))
  BY ONLY <1>1, FS_Interval, 0 \in Int
<1> QED
  BY ONLY <1>1, <1>2, FS_Subset, FS_CardinalityType

\* Descriptor by descriptor.
LEMMA Descriptors ==
  ASSUME CacheTypeOK
  PROVE  DescriptorsAccounted <=>
           /\ \A d \in Descs : d \in free \/ \E q \in Procs : d \in ChainOf(q)
           /\ \A p, q \in Procs : \A d \in ChainOf(p) : d \notin free /\ (d \in ChainOf(q) => p = q)
           /\ waiting # {} => Cardinality(free) < 3
<1>1. free \subseteq Descs
  BY DEF CacheTypeOK, BcacheTypeOK
<1>2. \A q \in Procs : ChainOf(q) \subseteq Descs
  <2> TAKE q \in Procs
  <2>1. chain[q] \in Seq(Descs)
    BY DEF CacheTypeOK
  <2> QED
    BY ONLY <2>1 DEF ChainOf
<1> QED
  BY ONLY <1>1, <1>2 DEF DescriptorsAccounted

\* Processes that wait for the disk have different buffers, blocks and chains.
LEMMA Waiters ==
  ASSUME CacheInv
  PROVE  /\ \A q \in Procs : io[q].step = "wait" =>
              /\ io[q].buf \in Bufs /\ bblock[io[q].buf] \in Blocks
              /\ chain[q] \in Seq(Descs) /\ Len(chain[q]) = 3 /\ info[chain[q][1]] = io[q].buf
              /\ ChainOf(q) = {chain[q][1], chain[q][2], chain[q][3]}
              /\ chain[q][1] \in Descs /\ chain[q][2] \in Descs /\ chain[q][3] \in Descs
         /\ \A q, s \in Procs : io[q].step = "wait" /\ io[s].step = "wait" =>
              \/ q = s
              \/ /\ io[q].buf # io[s].buf /\ bblock[io[q].buf] # bblock[io[s].buf]
                 /\ chain[q][1] # chain[s][1]
<1>0. CacheTypeOK /\ IoInv /\ Unique /\ RequestInv /\ DescriptorsAccounted
  BY DEF CacheInv
<1>1. ASSUME NEW q \in Procs, io[q].step = "wait"
      PROVE  /\ io[q].buf \in Bufs /\ bblock[io[q].buf] \in Blocks /\ holder[io[q].buf] = q
             /\ chain[q] \in Seq(Descs) /\ Len(chain[q]) = 3 /\ info[chain[q][1]] = io[q].buf
             /\ ChainOf(q) = {chain[q][1], chain[q][2], chain[q][3]}
             /\ chain[q][1] \in Descs /\ chain[q][2] \in Descs /\ chain[q][3] \in Descs
  <2>1. io[q].buf \in Bufs /\ bblock[io[q].buf] \in Blocks
    BY ONLY CacheInv, <1>1, IoBuf
  <2>2. holder[io[q].buf] = q
    BY ONLY <1>0, <1>1 DEF IoInv
  <2>3. chain[q] \in Seq(Descs) /\ Len(chain[q]) = 3 /\ info[chain[q][1]] = io[q].buf
    BY ONLY <1>0, <1>1 DEF CacheTypeOK, RequestInv
  <2>4. DOMAIN chain[q] = 1..3
    BY ONLY <2>3
  <2>5. ChainOf(q) = {chain[q][1], chain[q][2], chain[q][3]}
    BY ONLY <2>4 DEF ChainOf
  <2>6. chain[q][1] \in Descs /\ chain[q][2] \in Descs /\ chain[q][3] \in Descs
    BY ONLY <2>3
  <2> QED
    BY ONLY <2>1, <2>2, <2>3, <2>5, <2>6
<1>2. ASSUME NEW q \in Procs, NEW s \in Procs, io[q].step = "wait", io[s].step = "wait", q # s
      PROVE  /\ io[q].buf # io[s].buf /\ bblock[io[q].buf] # bblock[io[s].buf]
             /\ chain[q][1] # chain[s][1]
  <2>1. io[q].buf # io[s].buf
    BY ONLY <1>1, <1>2
  <2>2. bblock[io[q].buf] # bblock[io[s].buf]
    BY ONLY <1>0, <1>1, <1>2, <2>1, DiskAssumption DEF Unique
  <2>3. chain[q][1] \in ChainOf(q) /\ chain[s][1] \in ChainOf(s)
    BY ONLY <1>1, <1>2
  <2>4. chain[q][1] # chain[s][1]
    BY ONLY <1>0, <1>2, <2>3, Descriptors
  <2> QED
    BY ONLY <2>1, <2>2, <2>4
<1> QED
  BY ONLY <1>1, <1>2

\* Fewer than three descriptors are free: the process sleeps.
LEMMA WaitStep ==
  ASSUME CacheInv, NEW p \in Procs, DiskWait(p), UNCHANGED cacheVars
  PROVE  CacheInv'
<1>0. CacheTypeOK /\ IoInv /\ HeldInv /\ Unique /\ RequestInv /\ DescriptorsAccounted
  BY DEF CacheInv
<1>u. /\ disk' = disk /\ bblock' = bblock /\ bdata' = bdata /\ chain' = chain /\ io' = io
      /\ free' = free /\ info' = info /\ inflight' = inflight /\ used' = used /\ owned' = owned
      /\ valid' = valid /\ refcnt' = refcnt /\ holder' = holder /\ lru' = lru /\ held' = held
      /\ panicked' = panicked
  BY DEF DiskWait, cacheVars
<1>w. waiting' \subseteq Procs /\ Cardinality(free) < 3
  BY <1>0 DEF DiskWait, CacheTypeOK
<1>1. CacheTypeOK'
  BY ONLY <1>0, <1>u, <1>w DEF CacheTypeOK, BcacheTypeOK
<1>2. IoInv' /\ HeldInv' /\ Unique'
  BY ONLY <1>0, <1>u DEF IoInv, HeldInv, Unique, Run
<1>3. RequestInv'
  BY ONLY CacheInv, <1>u, RequestFrame
<1>4. DescriptorsAccounted'
  <2>1. \A q \in Procs : ChainOf(q)' = ChainOf(q)
    BY ONLY <1>u DEF ChainOf
  <2>2. UNION {ChainOf(q)' : q \in Procs} = UNION {ChainOf(q) : q \in Procs}
    BY ONLY <2>1
  <2> QED
    BY ONLY <1>0, <1>u, <1>w, <2>1, <2>2 DEF DescriptorsAccounted
<1> QED
  BY <1>1, <1>2, <1>3, <1>4 DEF CacheInv

\* The driver sees what the device has done.
LEMMA IntrStep ==
  ASSUME CacheInv, DiskIntr, UNCHANGED cacheVars
  PROVE  CacheInv'
<1>0. CacheTypeOK /\ IoInv /\ HeldInv /\ Unique /\ RequestInv /\ DescriptorsAccounted
  BY DEF CacheInv
<1>u. /\ disk' = disk /\ bblock' = bblock /\ bdata' = bdata /\ chain' = chain /\ io' = io
      /\ free' = free /\ info' = info /\ inflight' = inflight /\ waiting' = waiting
      /\ valid' = valid /\ refcnt' = refcnt /\ holder' = holder /\ lru' = lru /\ held' = held
      /\ panicked' = panicked
  BY DEF DiskIntr, cacheVars
<1>w. used' = <<>> /\ owned' = owned \ {info[used[k]] : k \in DOMAIN used}
  BY DEF DiskIntr
<1>1. CacheTypeOK'
  <2>1. used' \in Seq(Descs) /\ owned' \subseteq Bufs
    BY ONLY <1>0, <1>w DEF CacheTypeOK
  <2> QED
    BY ONLY <1>0, <1>u, <2>1 DEF CacheTypeOK, BcacheTypeOK
<1>2. IoInv' /\ HeldInv' /\ Unique'
  BY ONLY <1>0, <1>u DEF IoInv, HeldInv, Unique, Run
<1>3. RequestInv'
  <2>0. ToSet(used') = {}
    BY ONLY <1>w DEF ToSet
  <2>1. ASSUME NEW r \in inflight
        PROVE  \E q \in Procs : io[q].step = "wait" /\ r = Request(q) /\ io[q].buf \in owned'
    <3>1. PICK q \in Procs : io[q].step = "wait" /\ r = Request(q) /\ io[q].buf \in owned
                              /\ r.head \notin ToSet(used)
      BY ONLY <1>0, <2>1 DEF RequestInv
    <3>2. r.head = chain[q][1]
      BY ONLY <3>1 DEF Request
    <3>3. ASSUME NEW k \in DOMAIN used
          PROVE  info[used[k]] # io[q].buf
      <4>1. used[k] \in ToSet(used)
        BY ONLY <3>3 DEF ToSet
      <4>2. PICK s \in Procs : io[s].step = "wait" /\ used[k] = chain[s][1]
        BY ONLY <1>0, <4>1 DEF RequestInv
      <4>3. q # s
        BY ONLY <3>1, <3>2, <4>1, <4>2
      <4> QED
        BY ONLY CacheInv, <3>1, <4>2, <4>3, q \in Procs, s \in Procs, Waiters
    <3> QED
      BY ONLY <1>w, <3>1, <3>3
  <2>2. \A q \in Procs : Request(q)' = Request(q)
    BY ONLY <1>u DEF Request
  <2>3. \A r \in inflight' : \E q \in Procs :
          /\ io'[q].step = "wait" /\ r = Request(q)' /\ io'[q].buf \in owned'
          /\ r.head \notin ToSet(used')
    BY ONLY <1>u, <2>0, <2>1, <2>2
  <2>4. \A q \in Procs :
          /\ io'[q].step # "wait" => chain'[q] = NoChain
          /\ io'[q].step = "wait" =>
               /\ Len(chain'[q]) = 3 /\ info'[chain'[q][1]] = io'[q].buf
               /\ Request(q)' \notin inflight' => bdata'[io'[q].buf] = disk'[bblock'[io'[q].buf]]
    BY ONLY <1>0, <1>u, <2>2 DEF RequestInv
  <2> QED
    BY ONLY <2>0, <2>3, <2>4 DEF RequestInv, Request
<1>4. DescriptorsAccounted'
  BY ONLY <1>0, <1>u, DescriptorFrame
<1> QED
  BY <1>1, <1>2, <1>3, <1>4 DEF CacheInv

\* The device moves a block between the disk and the buffer of a process that
\* waits: to the disk from a buffer that is valid, or to one that is not.
Moves(q) ==
  /\ io[q].step = "wait" /\ io[q].buf \in Bufs /\ bblock[io[q].buf] \in Blocks
  /\ \/ /\ valid[io[q].buf]
        /\ disk' = [disk EXCEPT ![bblock[io[q].buf]] = bdata[io[q].buf]]
        /\ bdata' = bdata
     \/ /\ ~valid[io[q].buf]
        /\ bdata' = [bdata EXCEPT ![io[q].buf] = disk[bblock[io[q].buf]]]
        /\ disk' = disk

LEMMA PerformStep ==
  ASSUME CacheInv, DevicePerform, UNCHANGED cacheVars
  PROVE  CacheInv' /\ \E q \in Procs : Moves(q)
<1>0. CacheTypeOK /\ IoInv /\ HeldInv /\ Unique /\ RequestInv /\ DescriptorsAccounted
  BY DEF CacheInv
<1>r. PICK r \in inflight :
        /\ inflight' = inflight \ {r} /\ used' = Append(used, r.head)
        /\ IF r.write
             THEN disk' = [disk EXCEPT ![r.block] = bdata[info[r.head]]] /\ bdata' = bdata
             ELSE bdata' = [bdata EXCEPT ![info[r.head]] = disk[r.block]] /\ disk' = disk
  BY DEF DevicePerform
<1>u. /\ bblock' = bblock /\ io' = io /\ chain' = chain /\ free' = free /\ info' = info
      /\ owned' = owned /\ waiting' = waiting
      /\ valid' = valid /\ refcnt' = refcnt /\ holder' = holder /\ lru' = lru /\ held' = held
      /\ panicked' = panicked
  BY DEF DevicePerform, cacheVars
<1>q. PICK q \in Procs : /\ io[q].step = "wait" /\ r = Request(q) /\ io[q].buf \in owned
                          /\ r.head \notin ToSet(used)
  BY ONLY <1>0, r \in inflight DEF RequestInv
<1>w. /\ io[q].buf \in Bufs /\ bblock[io[q].buf] \in Blocks
      /\ chain[q][1] \in Descs /\ info[chain[q][1]] = io[q].buf
  BY ONLY CacheInv, <1>q, q \in Procs, Waiters
<1> DEFINE b == io[q].buf
           n == bblock[b]
<1>h. r.head = chain[q][1] /\ r.block = n /\ (r.write <=> io[q].write)
  BY <1>q DEF Request
<1>v. r.write <=> valid[b]
  BY ONLY <1>0, <1>h, <1>q, q \in Procs DEF IoInv
<1>m. \/ r.write /\ disk' = [disk EXCEPT ![n] = bdata[b]] /\ bdata' = bdata
      \/ ~r.write /\ bdata' = [bdata EXCEPT ![b] = disk[n]] /\ disk' = disk
  BY ONLY <1>r, <1>h, <1>w
<1>d. /\ DOMAIN disk = Blocks /\ DOMAIN bdata = Bufs /\ b \in Bufs /\ n \in Blocks
  BY ONLY <1>0, <1>w DEF CacheTypeOK
<1> HIDE DEF b, n
<1>e. /\ disk'[n] = bdata'[b] /\ \A x \in Blocks \ {n} : disk'[x] = disk[x]
      /\ \A c \in Bufs \ {b} : bdata'[c] = bdata[c]
      /\ DOMAIN disk' = Blocks /\ DOMAIN bdata' = Bufs
  <2>1. CASE disk' = [disk EXCEPT ![n] = bdata[b]] /\ bdata' = bdata
    BY ONLY <1>d, <2>1
  <2>2. CASE bdata' = [bdata EXCEPT ![b] = disk[n]] /\ disk' = disk
    BY ONLY <1>d, <2>2
  <2> QED
    BY ONLY <1>m, <2>1, <2>2
<1>1. CacheTypeOK'
  <2>1. used' \in Seq(Descs) /\ inflight' \subseteq inflight
    BY ONLY <1>0, <1>r, <1>h, <1>w DEF CacheTypeOK
  <2> QED
    BY ONLY <1>0, <1>u, <1>e, <2>1 DEF CacheTypeOK, BcacheTypeOK
<1>2. IoInv' /\ HeldInv' /\ Unique'
  BY ONLY <1>0, <1>u DEF IoInv, HeldInv, Unique, Run
<1>3. RequestInv'
  <2>0. ToSet(used') = ToSet(used) \union {r.head}
    BY ONLY <1>0, <1>r, <1>h, <1>w, AppendFacts DEF CacheTypeOK
  <2>1. \A s \in Procs : Request(s)' = Request(s)
    BY ONLY <1>u DEF Request
  <2>2. ASSUME NEW s \in Procs, io[s].step = "wait", s # q
        PROVE  /\ io[s].buf \in Bufs \ {b} /\ bblock[io[s].buf] \in Blocks \ {n}
               /\ chain[s][1] # chain[q][1] /\ Request(s) # r
    <3>1. chain[s][1] # chain[q][1] /\ io[s].buf \in Bufs /\ bblock[io[s].buf] \in Blocks
      BY ONLY CacheInv, <1>q, <2>2, q \in Procs, Waiters
    <3>2. io[s].buf # b /\ bblock[io[s].buf] # n
      BY ONLY CacheInv, <1>q, <2>2, q \in Procs, Waiters DEF b, n
    <3>3. Request(s).head = chain[s][1]
      BY DEF Request
    <3> QED
      BY ONLY <1>h, <3>1, <3>2, <3>3
  <2>3. ASSUME NEW s \in Procs, io[s].step = "wait", Request(s) \notin inflight'
        PROVE  bdata'[io[s].buf] = disk'[bblock[io[s].buf]]
    <3>1. CASE s = q
      BY ONLY <1>e, <3>1 DEF b, n
    <3>2. CASE s # q
      <4>1. bdata[io[s].buf] = disk[bblock[io[s].buf]]
        BY ONLY <1>0, <1>r, <2>2, <2>3, <3>2 DEF RequestInv
      <4> QED
        BY ONLY <1>e, <2>2, <2>3, <3>2, <4>1
    <3> QED
      BY ONLY <3>1, <3>2
  <2>4. \A s \in Procs :
          /\ io'[s].step # "wait" => chain'[s] = NoChain
          /\ io'[s].step = "wait" =>
               /\ Len(chain'[s]) = 3 /\ info'[chain'[s][1]] = io'[s].buf
               /\ Request(s)' \notin inflight' => bdata'[io'[s].buf] = disk'[bblock'[io'[s].buf]]
    BY ONLY <1>0, <1>u, <2>1, <2>3 DEF RequestInv
  <2>5. ASSUME NEW x \in inflight'
        PROVE  \E s \in Procs :
                 /\ io'[s].step = "wait" /\ x = Request(s)' /\ io'[s].buf \in owned'
                 /\ x.head \notin ToSet(used')
    <3>1. x \in inflight /\ x # r
      BY ONLY <1>r, <2>5
    <3>2. PICK s \in Procs : io[s].step = "wait" /\ x = Request(s) /\ io[s].buf \in owned
                              /\ x.head \notin ToSet(used)
      BY ONLY <1>0, <3>1 DEF RequestInv
    <3>3. x.head = chain[s][1] /\ s # q
      BY ONLY <1>q, <3>1, <3>2 DEF Request
    <3>4. x.head \notin ToSet(used')
      BY ONLY <1>h, <2>0, <2>2, <3>2, <3>3
    <3> QED
      BY ONLY <1>u, <2>1, <3>2, <3>4
  <2>6. ASSUME NEW d \in ToSet(used')
        PROVE  \E s \in Procs : io'[s].step = "wait" /\ d = chain'[s][1] /\ io'[s].buf \in owned'
    <3>1. CASE d = r.head
      BY ONLY <1>u, <1>h, <1>q, <3>1
    <3>2. CASE d \in ToSet(used)
      BY ONLY <1>0, <1>u, <3>2 DEF RequestInv
    <3> QED
      BY ONLY <2>0, <2>6, <3>1, <3>2
  <2> QED
    BY ONLY <2>4, <2>5, <2>6 DEF RequestInv, Request
<1>4. DescriptorsAccounted'
  BY ONLY <1>0, <1>u, DescriptorFrame
<1>5. Moves(q)
  BY ONLY <1>d, <1>m, <1>q, <1>v DEF Moves, b, n
<1> QED
  BY <1>1, <1>2, <1>3, <1>4, <1>5 DEF CacheInv

\* A process hands a chain of three free descriptors to the device.
LEMMA SubmitStep ==
  ASSUME CacheInv, NEW p \in Procs, DiskSubmit(p), UNCHANGED cacheVars
  PROVE  CacheInv'
<1>0. CacheTypeOK /\ IoInv /\ HeldInv /\ Unique /\ RequestInv /\ DescriptorsAccounted
  BY DEF CacheInv
<1> DEFINE idx == Alloc3
           b == io[p].buf
           rq == [head |-> idx[1], block |-> bblock[b], write |-> io[p].write]
<1>s. /\ io[p].step = "start" /\ Cardinality(free) >= 3
      /\ free' = free \ {idx[1], idx[2], idx[3]} /\ chain' = [chain EXCEPT ![p] = idx]
      /\ info' = [info EXCEPT ![idx[1]] = b] /\ owned' = owned \union {b}
      /\ inflight' = inflight \union {rq}
      /\ io' = [io EXCEPT ![p].step = "wait"]
  BY DEF DiskSubmit
<1>u. /\ disk' = disk /\ bblock' = bblock /\ bdata' = bdata /\ used' = used /\ waiting' = waiting
      /\ valid' = valid /\ refcnt' = refcnt /\ holder' = holder /\ lru' = lru /\ held' = held
      /\ panicked' = panicked
  BY DEF DiskSubmit, cacheVars
<1>a. /\ idx \in [1..3 -> free] /\ idx[1] # idx[2] /\ idx[1] # idx[3] /\ idx[2] # idx[3]
      /\ idx[1] \in free /\ idx[2] \in free /\ idx[3] \in free
  BY ONLY <1>0, <1>s, AllocFacts
<1>t. /\ free \subseteq Descs /\ chain \in [Procs -> Seq(Descs)]
      /\ info \in [Descs -> Bufs \union {NoBuf}] /\ owned \subseteq Bufs
      /\ io \in [Procs -> [step : Steps, buf : Bufs \union {NoBuf}, write : BOOLEAN]]
      /\ inflight \subseteq [head : Descs, block : Blocks, write : BOOLEAN]
  BY ONLY <1>0 DEF CacheTypeOK, BcacheTypeOK
<1>b. /\ b \in Bufs /\ bblock[b] \in Blocks /\ b \in ToSet(held[p])
  BY ONLY CacheInv, <1>s, p \in Procs, IoBuf
<1>c. idx \in Seq(Descs) /\ Len(idx) = 3
  <2>1. idx \in [1..3 -> Descs]
    BY ONLY <1>a, <1>t
  <2> HIDE DEF idx
  <2>2. idx \in Seq(Descs)
    BY ONLY <2>1, 3 \in Nat, SeqDef
  <2> QED
    BY ONLY <2>1, <2>2
<1> HIDE DEF idx, b
<1>i. /\ io' \in [Procs -> [step : Steps, buf : Bufs \union {NoBuf}, write : BOOLEAN]]
      /\ io'[p].step = "wait" /\ io'[p].buf = b /\ (io'[p].write <=> io[p].write)
      /\ io'[p].write = io[p].write
      /\ \A q \in Procs \ {p} : io'[q] = io[q]
  BY ONLY <1>s, <1>t, p \in Procs DEF Steps, b
<1>j. /\ chain'[p] = idx /\ \A q \in Procs \ {p} : chain'[q] = chain[q]
      /\ chain' \in [Procs -> Seq(Descs)]
  BY ONLY <1>c, <1>s, <1>t, p \in Procs
<1>k. /\ info'[idx[1]] = b /\ \A d \in Descs \ {idx[1]} : info'[d] = info[d]
      /\ info' \in [Descs -> Bufs \union {NoBuf}]
  BY ONLY <1>a, <1>b, <1>s, <1>t
<1>w. \A q \in Procs : io'[q].step = "wait" /\ q # p => io[q].step = "wait"
  BY ONLY <1>i
<1>1. CacheTypeOK'
  <2>1. rq \in [head : Descs, block : Blocks, write : BOOLEAN]
    <3>1. io[p].write \in BOOLEAN /\ idx[1] \in Descs
      BY ONLY <1>a, <1>t, p \in Procs
    <3> QED
      BY ONLY <1>b, <3>1
  <2> HIDE DEF rq
  <2>2. /\ inflight' \subseteq [head : Descs, block : Blocks, write : BOOLEAN]
        /\ free' \subseteq Descs /\ owned' \subseteq Bufs
    BY ONLY <1>b, <1>s, <1>t, <2>1
  <2> QED
    BY ONLY <1>0, <1>u, <1>i, <1>j, <1>k, <2>2 DEF CacheTypeOK, BcacheTypeOK
<1>2. IoInv'
  <2> SUFFICES ASSUME NEW q \in Procs
               PROVE  /\ io'[q].step = "run" => io'[q] = Run
                      /\ io'[q].step = "lock" =>
                           held'[q] # <<>> /\ io'[q].buf = Last(held'[q]) /\ ~io'[q].write
                      /\ io'[q].step \in {"start", "wait"} =>
                           /\ io'[q].buf \in ToSet(held'[q]) /\ holder'[io'[q].buf] = q
                           /\ io'[q].write => valid'[io'[q].buf]
                           /\ ~io'[q].write => io'[q].buf = Last(held'[q]) /\ ~valid'[io'[q].buf]
    BY DEF IoInv, Run
  <2>1. CASE q = p
    <3>1. /\ io[p].buf \in ToSet(held[p]) /\ holder[io[p].buf] = p
          /\ io[p].write => valid[io[p].buf]
          /\ ~io[p].write => io[p].buf = Last(held[p]) /\ ~valid[io[p].buf]
      BY ONLY <1>0, <1>s, p \in Procs DEF IoInv
    <3> QED
      BY ONLY <1>i, <1>u, <2>1, <3>1 DEF b
  <2>2. CASE q # p
    <3>1. io'[q] = io[q]
      BY ONLY <1>i, <2>2, q \in Procs
    <3> QED
      BY ONLY <1>0, <1>u, <3>1, q \in Procs DEF IoInv
  <2> QED
    BY <2>1, <2>2
<1>3. HeldInv'
  <2>1. \A q \in Procs : (io'[q].step = "lock" <=> io[q].step = "lock") /\ io'[q].buf = io[q].buf
    BY ONLY <1>i, <1>s DEF b
  <2> QED
    BY ONLY <1>0, <1>u, <2>1 DEF HeldInv
<1>4. Unique'
  BY ONLY <1>0, <1>u DEF Unique
<1>5. RequestInv'
  <2>1. ASSUME NEW q \in Procs, q # p
        PROVE  Request(q)' = Request(q) /\ chain'[q] = chain[q] /\ io'[q] = io[q]
    BY ONLY <1>i, <1>j, <1>u, <2>1 DEF Request
  <2>2. Request(p)' = rq
    BY ONLY <1>i, <1>j, <1>u DEF Request
  <2>3. ASSUME NEW q \in Procs, io[q].step = "wait"
        PROVE  q # p /\ chain[q][1] \in Descs /\ chain[q][1] # idx[1]
    <3>1. chain[q][1] \in Descs /\ chain[q][1] \in ChainOf(q)
      BY ONLY CacheInv, <2>3, Waiters
    <3>2. chain[q][1] \notin free
      BY ONLY <1>0, <2>3, <3>1, Descriptors
    <3> QED
      BY ONLY <1>a, <1>s, <2>3, <3>1, <3>2
  <2>4. ASSUME NEW q \in Procs
        PROVE  /\ io'[q].step # "wait" => chain'[q] = NoChain
               /\ io'[q].step = "wait" =>
                    /\ Len(chain'[q]) = 3 /\ info'[chain'[q][1]] = io'[q].buf
                    /\ Request(q)' \notin inflight' =>
                         bdata'[io'[q].buf] = disk'[bblock'[io'[q].buf]]
    <3>1. CASE q = p
      <4>1. Request(p)' \in inflight'
        BY ONLY <1>s, <2>2
      <4> QED
        BY ONLY <1>c, <1>i, <1>j, <1>k, <3>1, <4>1
    <3>2. CASE q # p
      <4>1. Request(q)' \notin inflight' => Request(q) \notin inflight
        BY ONLY <1>s, <2>1, <3>2
      <4>2. io[q].step = "wait" => info'[chain[q][1]] = info[chain[q][1]]
        BY ONLY <1>k, <2>3
      <4> QED
        BY ONLY <1>0, <1>u, <2>1, <3>2, <4>1, <4>2 DEF RequestInv
    <3> QED
      BY ONLY <3>1, <3>2
  <2>5. ASSUME NEW r \in inflight'
        PROVE  \E q \in Procs :
                 /\ io'[q].step = "wait" /\ r = Request(q)' /\ io'[q].buf \in owned'
                 /\ r.head \notin ToSet(used')
    <3>1. CASE r = rq
      <4>1. r.head = idx[1]
        BY ONLY <3>1
      <4>2. idx[1] \notin ToSet(used)
        <5>1. \A d \in ToSet(used) : \E q \in Procs : io[q].step = "wait" /\ d = chain[q][1]
          BY ONLY <1>0 DEF RequestInv
        <5> QED
          BY ONLY <2>3, <5>1
      <4> HIDE DEF rq
      <4> QED
        BY ONLY <1>i, <1>s, <1>u, <2>2, <3>1, <4>1, <4>2, p \in Procs
    <3>2. CASE r \in inflight
      <4>1. PICK q \in Procs : io[q].step = "wait" /\ r = Request(q) /\ io[q].buf \in owned
                                /\ r.head \notin ToSet(used)
        BY ONLY <1>0, <3>2 DEF RequestInv
      <4>2. q # p
        BY ONLY <1>s, <4>1
      <4> QED
        BY ONLY <1>s, <1>u, <2>1, <4>1, <4>2
    <3> HIDE DEF rq
    <3> QED
      BY ONLY <1>s, <2>5, <3>1, <3>2
  <2>6. ASSUME NEW d \in ToSet(used')
        PROVE  \E q \in Procs : io'[q].step = "wait" /\ d = chain'[q][1] /\ io'[q].buf \in owned'
    <3>1. PICK q \in Procs : io[q].step = "wait" /\ d = chain[q][1] /\ io[q].buf \in owned
      BY ONLY <1>0, <1>u, <2>6 DEF RequestInv
    <3>2. q # p
      BY ONLY <1>s, <3>1
    <3> QED
      BY ONLY <1>s, <2>1, <3>1, <3>2
  <2> QED
    BY ONLY <2>4, <2>5, <2>6 DEF RequestInv, Request
<1>6. DescriptorsAccounted'
  <2>1. ChainOf(p)' = {idx[1], idx[2], idx[3]}
    <3>1. DOMAIN idx = 1..3
      BY ONLY <1>c
    <3> QED
      BY ONLY <1>j, <3>1 DEF ChainOf
  <2>2. \A q \in Procs \ {p} : ChainOf(q)' = ChainOf(q)
    BY ONLY <1>j DEF ChainOf
  <2>3. ChainOf(p) = {}
    <3>1. chain[p] = NoChain
      BY ONLY <1>0, <1>s, p \in Procs DEF RequestInv
    <3> QED
      BY ONLY <3>1 DEF ChainOf, NoChain
  <2>4. /\ \A d \in Descs : d \in free \/ \E q \in Procs : d \in ChainOf(q)
        /\ \A q, s \in Procs : \A d \in ChainOf(q) : d \notin free /\ (d \in ChainOf(s) => q = s)
        /\ waiting = {}
    BY ONLY <1>0, <1>s, <1>t, Descriptors, FreeCount
  <2>5. \A d \in Descs : d \in free' \/ \E q \in Procs : d \in ChainOf(q)'
    BY ONLY <1>s, <2>1, <2>2, <2>3, <2>4, p \in Procs
  <2>6. \A q, s \in Procs : \A d \in ChainOf(q)' : d \notin free' /\ (d \in ChainOf(s)' => q = s)
    BY ONLY <1>a, <1>s, <2>1, <2>2, <2>4
  <2>7. waiting' = {} /\ free' \subseteq Descs /\ \A q \in Procs : ChainOf(q)' \subseteq Descs
    <3>1. \A q \in Procs : ChainOf(q)' \subseteq Descs
      BY ONLY <1>j DEF ChainOf
    <3> QED
      BY ONLY <1>s, <1>t, <1>u, <2>4, <3>1
  <2> QED
    BY ONLY <2>5, <2>6, <2>7 DEF DescriptorsAccounted
<1> QED
  BY <1>1, <1>2, <1>3, <1>4, <1>5, <1>6 DEF CacheInv

\* The call of virtio_disk_rw() returns, and the chain is free.
LEMMA TransferredStep ==
  ASSUME CacheInv, NEW p \in Procs, Transferred(p)
  PROVE  /\ CacheInv'
         /\ LET b == io[p].buf IN
              /\ b \in Bufs /\ bblock[b] \in Blocks
              /\ bdata[b] = disk[bblock[b]] /\ valid' = [valid EXCEPT ![b] = TRUE]
<1>0. CacheTypeOK /\ IoInv /\ HeldInv /\ Unique /\ RequestInv /\ DescriptorsAccounted
  BY DEF CacheInv
<1> DEFINE b == io[p].buf
           c == chain[p]
<1>s. /\ io[p].step = "wait" /\ b \notin owned
      /\ info' = [info EXCEPT ![c[1]] = NoBuf] /\ free' = free \union {c[k] : k \in 1..3}
      /\ waiting' = {} /\ chain' = [chain EXCEPT ![p] = NoChain] /\ io' = [io EXCEPT ![p] = Run]
      /\ valid' = [valid EXCEPT ![b] = valid[b] \/ ~io[p].write]
  BY DEF Transferred, DiskDone
<1>u. /\ disk' = disk /\ bblock' = bblock /\ bdata' = bdata /\ inflight' = inflight /\ used' = used
      /\ owned' = owned /\ refcnt' = refcnt /\ holder' = holder /\ lru' = lru /\ held' = held
      /\ panicked' = panicked
  BY DEF Transferred, DiskDone
<1>w. /\ b \in Bufs /\ bblock[b] \in Blocks /\ c \in Seq(Descs) /\ Len(c) = 3 /\ info[c[1]] = b
      /\ c[1] \in Descs /\ c[2] \in Descs /\ c[3] \in Descs /\ ChainOf(p) = {c[1], c[2], c[3]}
  BY ONLY CacheInv, <1>s, p \in Procs, Waiters
<1>b. /\ b \in ToSet(held[p]) /\ holder[b] = p /\ (io[p].write => valid[b])
      /\ (~io[p].write => b = Last(held[p]) /\ ~valid[b])
  BY ONLY <1>0, <1>s, p \in Procs DEF IoInv
<1>t. /\ free \subseteq Descs /\ chain \in [Procs -> Seq(Descs)]
      /\ info \in [Descs -> Bufs \union {NoBuf}] /\ valid \in [Bufs -> BOOLEAN]
      /\ io \in [Procs -> [step : Steps, buf : Bufs \union {NoBuf}, write : BOOLEAN]]
      /\ \A q \in Procs : \A x \in ToSet(held[q]) : x \in Bufs
  BY ONLY <1>0 DEF CacheTypeOK, BcacheTypeOK, ToSet
<1>v. valid' = [valid EXCEPT ![b] = TRUE]
  <2>1. valid[b] \/ ~io[p].write
    BY ONLY <1>b
  <2>2. (valid[b] \/ ~io[p].write) = TRUE
    BY ONLY <2>1
  <2> QED
    BY ONLY <1>s, <2>2
<1> HIDE DEF b, c
<1>i. /\ io'[p] = Run /\ io'[p].step = "run" /\ \A q \in Procs \ {p} : io'[q] = io[q]
      /\ io' \in [Procs -> [step : Steps, buf : Bufs \union {NoBuf}, write : BOOLEAN]]
  <2>1. Run \in [step : Steps, buf : Bufs \union {NoBuf}, write : BOOLEAN] /\ Run.step = "run"
    BY DEF Run, Steps
  <2> QED
    BY ONLY <1>s, <1>t, <2>1, p \in Procs
<1>j. /\ chain'[p] = NoChain /\ \A q \in Procs \ {p} : chain'[q] = chain[q]
      /\ chain' \in [Procs -> Seq(Descs)]
  <2>1. NoChain \in Seq(Descs)
    BY DEF NoChain
  <2> QED
    BY ONLY <1>s, <1>t, <2>1, p \in Procs
<1>k. /\ \A d \in Descs \ {c[1]} : info'[d] = info[d]
      /\ info' \in [Descs -> Bufs \union {NoBuf}]
  BY ONLY <1>w, <1>s, <1>t
<1>x. valid'[b] /\ \A x \in Bufs \ {b} : valid'[x] = valid[x]
  BY ONLY <1>t, <1>v, <1>w
<1>f. free' = free \union {c[1], c[2], c[3]}
  BY ONLY <1>s
<1>n. ASSUME NEW q \in Procs, io[q].step = "wait", q # p
      PROVE  /\ io[q].buf \in Bufs \ {b} /\ chain[q][1] \in Descs \ {c[1]}
             /\ Request(q) # Request(p)
  <2>1. io[q].buf \in Bufs /\ io[q].buf # b /\ chain[q][1] \in Descs /\ chain[q][1] # c[1]
    BY ONLY CacheInv, <1>n, <1>s, p \in Procs, Waiters DEF b, c
  <2>2. Request(q).head = chain[q][1] /\ Request(p).head = c[1]
    BY DEF Request, c
  <2> QED
    BY ONLY <2>1, <2>2
<1>m. Request(p) \notin inflight /\ c[1] \notin ToSet(used)
  <2>1. \A r \in inflight : \E q \in Procs :
          io[q].step = "wait" /\ r = Request(q) /\ io[q].buf \in owned
    BY ONLY <1>0 DEF RequestInv
  <2>2. \A d \in ToSet(used) : \E q \in Procs :
          io[q].step = "wait" /\ d = chain[q][1] /\ io[q].buf \in owned
    BY ONLY <1>0 DEF RequestInv
  <2> QED
    BY ONLY <1>n, <1>s, <2>1, <2>2 DEF b
<1>z. bdata[b] = disk[bblock[b]]
  BY ONLY <1>0, <1>m, <1>s, p \in Procs DEF RequestInv, b
<1>1. CacheTypeOK'
  <2>1. free' \subseteq Descs /\ valid' \in [Bufs -> BOOLEAN] /\ waiting' \subseteq Procs
    BY ONLY <1>f, <1>s, <1>t, <1>v, <1>w
  <2> QED
    BY ONLY <1>0, <1>u, <1>i, <1>j, <1>k, <2>1 DEF CacheTypeOK, BcacheTypeOK
<1>2. IoInv'
  <2> SUFFICES ASSUME NEW q \in Procs
               PROVE  /\ io'[q].step = "run" => io'[q] = Run
                      /\ io'[q].step = "lock" =>
                           held'[q] # <<>> /\ io'[q].buf = Last(held'[q]) /\ ~io'[q].write
                      /\ io'[q].step \in {"start", "wait"} =>
                           /\ io'[q].buf \in ToSet(held'[q]) /\ holder'[io'[q].buf] = q
                           /\ io'[q].write => valid'[io'[q].buf]
                           /\ ~io'[q].write => io'[q].buf = Last(held'[q]) /\ ~valid'[io'[q].buf]
    BY DEF IoInv, Run
  <2>1. CASE q = p
    BY ONLY <1>i, <2>1
  <2>2. CASE q # p
    <3>1. io'[q] = io[q]
      BY ONLY <1>i, <2>2, q \in Procs
    <3>2. io[q].step \in {"start", "wait"} => valid'[io[q].buf] = valid[io[q].buf]
      <4>1. io[q].step \in {"start", "wait"} => holder[io[q].buf] = q /\ io[q].buf \in Bufs
        BY ONLY <1>0, CacheInv, q \in Procs, IoBuf DEF IoInv
      <4> QED
        BY ONLY <1>b, <1>x, <2>2, <4>1
    <3> QED
      BY ONLY <1>0, <1>u, <3>1, <3>2, q \in Procs DEF IoInv
  <2> QED
    BY <2>1, <2>2
<1>3. HeldInv'
  <2> SUFFICES ASSUME NEW q \in Procs
               PROVE  /\ IsInjective(held'[q])
                      /\ \A x \in ToSet(held'[q]) :
                           /\ bblock'[x] # NoBlock /\ refcnt'[x] > 0
                           /\ io'[q].step = "lock" /\ x = io'[q].buf <=> holder'[x] # q
                           /\ valid'[x] \/ x = io'[q].buf
                      /\ \A x \in Bufs : holder'[x] = q => x \in ToSet(held'[q])
    BY DEF HeldInv
  <2>h. /\ IsInjective(held[q])
        /\ \A x \in ToSet(held[q]) :
             /\ x \in Bufs
             /\ bblock[x] # NoBlock /\ refcnt[x] > 0
             /\ io[q].step = "lock" /\ x = io[q].buf <=> holder[x] # q
             /\ valid[x] \/ x = io[q].buf
        /\ \A x \in Bufs : holder[x] = q => x \in ToSet(held[q])
    BY ONLY <1>0, <1>t, q \in Procs DEF HeldInv
  <2>1. CASE q = p
    <3>1. io[p].buf = b
      BY DEF b
    <3> QED
      BY ONLY <1>s, <1>i, <1>u, <1>x, <2>h, <2>1, <3>1
  <2>2. CASE q # p
    <3>1. io'[q] = io[q]
      BY ONLY <1>i, <2>2, q \in Procs
    <3>2. \A x \in Bufs : valid[x] => valid'[x]
      BY ONLY <1>x
    <3> QED
      BY ONLY <1>u, <2>h, <3>1, <3>2
  <2> QED
    BY <2>1, <2>2
<1>4. Unique'
  BY ONLY <1>0, <1>u DEF Unique
<1>5. RequestInv'
  <2>1. ASSUME NEW q \in Procs, q # p
        PROVE  Request(q)' = Request(q) /\ chain'[q] = chain[q] /\ io'[q] = io[q]
    BY ONLY <1>i, <1>j, <1>u, <2>1 DEF Request
  <2>2. ASSUME NEW q \in Procs
        PROVE  /\ io'[q].step # "wait" => chain'[q] = NoChain
               /\ io'[q].step = "wait" =>
                    /\ Len(chain'[q]) = 3 /\ info'[chain'[q][1]] = io'[q].buf
                    /\ Request(q)' \notin inflight' =>
                         bdata'[io'[q].buf] = disk'[bblock'[io'[q].buf]]
    <3>1. CASE q = p
      BY ONLY <1>i, <1>j, <3>1
    <3>2. CASE q # p
      <4>1. io[q].step = "wait" => info'[chain[q][1]] = info[chain[q][1]]
        BY ONLY <1>k, <1>n, <3>2
      <4> QED
        BY ONLY <1>0, <1>u, <2>1, <3>2, <4>1 DEF RequestInv
    <3> QED
      BY ONLY <3>1, <3>2
  <2>3. ASSUME NEW r \in inflight'
        PROVE  \E q \in Procs :
                 /\ io'[q].step = "wait" /\ r = Request(q)' /\ io'[q].buf \in owned'
                 /\ r.head \notin ToSet(used')
    <3>1. PICK q \in Procs : io[q].step = "wait" /\ r = Request(q) /\ io[q].buf \in owned
                              /\ r.head \notin ToSet(used)
      BY ONLY <1>0, <1>u, <2>3 DEF RequestInv
    <3>2. q # p
      BY ONLY <1>m, <1>u, <2>3, <3>1
    <3> QED
      BY ONLY <1>u, <2>1, <3>1, <3>2
  <2>4. ASSUME NEW d \in ToSet(used')
        PROVE  \E q \in Procs : io'[q].step = "wait" /\ d = chain'[q][1] /\ io'[q].buf \in owned'
    <3>1. PICK q \in Procs : io[q].step = "wait" /\ d = chain[q][1] /\ io[q].buf \in owned
      BY ONLY <1>0, <1>u, <2>4 DEF RequestInv
    <3>2. q # p
      BY ONLY <1>s, <3>1 DEF b
    <3> QED
      BY ONLY <1>u, <2>1, <3>1, <3>2
  <2> QED
    BY ONLY <2>2, <2>3, <2>4 DEF RequestInv, Request
<1>6. DescriptorsAccounted'
  <2>1. ChainOf(p)' = {}
    BY ONLY <1>j DEF ChainOf, NoChain
  <2>2. \A q \in Procs \ {p} : ChainOf(q)' = ChainOf(q)
    BY ONLY <1>j DEF ChainOf
  <2>4. /\ \A d \in Descs : d \in free \/ \E q \in Procs : d \in ChainOf(q)
        /\ \A q, s \in Procs : \A d \in ChainOf(q) : d \notin free /\ (d \in ChainOf(s) => q = s)
    BY ONLY <1>0, Descriptors
  <2>5. \A d \in Descs : d \in free' \/ \E q \in Procs : d \in ChainOf(q)'
    BY ONLY <1>f, <1>w, <2>2, <2>4, p \in Procs
  <2>6. \A q, s \in Procs : \A d \in ChainOf(q)' : d \notin free' /\ (d \in ChainOf(s)' => q = s)
    BY ONLY <1>f, <1>w, <2>1, <2>2, <2>4, p \in Procs
  <2>7. waiting' = {} /\ free' \subseteq Descs /\ \A q \in Procs : ChainOf(q)' \subseteq Descs
    <3>1. \A q \in Procs : ChainOf(q)' \subseteq Descs
      BY ONLY <1>j DEF ChainOf
    <3> QED
      BY ONLY <1>f, <1>s, <1>t, <1>w, <3>1
  <2> QED
    BY ONLY <2>5, <2>6, <2>7 DEF DescriptorsAccounted
<1> QED
  BY <1>v, <1>w, <1>z, <1>1, <1>2, <1>3, <1>4, <1>5, <1>6 DEF CacheInv, b

\* The list of buffers is one of all of them.
LEMMA ListFacts ==
  SetToSeq(Bufs) \in Seq(Bufs) /\ Len(SetToSeq(Bufs)) = Cardinality(Bufs) /\ ToSet(SetToSeq(Bufs)) = Bufs
<1> DEFINE n == Cardinality(Bufs)
           l == SetToSeq(Bufs)
<1>1. IsFiniteSet(Bufs) /\ n \in Nat /\ ExistsBijection(1..n, Bufs)
  BY BcacheAssumption, FS_CardinalityType
<1>2. PICK g \in [1..n -> Bufs] : IsInjective(g)
  BY ONLY <1>1 DEF ExistsBijection, Bijection, Injection
<1>3. l \in [1..n -> Bufs] /\ IsInjective(l)
  BY ONLY <1>2 DEF SetToSeq
<1> HIDE DEF n, l
<1>4. IsFiniteSet(1..n) /\ Cardinality(1..n) = n
  <2>1. Cardinality(1..n) = IF 1 > n THEN 0 ELSE n - 1 + 1
    BY ONLY <1>1, FS_Interval, 1 \in Int, n \in Int
  <2>2. IsFiniteSet(1..n)
    BY ONLY <1>1, FS_Interval, 1 \in Int, n \in Int
  <2> QED
    BY ONLY <1>1, <2>1, <2>2
<1>5. l \in Surjection(1..n, Bufs)
  <2>1. l \in Injection(1..n, Bufs)
    BY ONLY <1>3 DEF Injection
  <2>2. Cardinality(1..n) = Cardinality(Bufs)
    BY <1>4 DEF n
  <2> QED
    BY ONLY <1>1, <2>1, <2>2, FS_Injection
<1>6. l \in Seq(Bufs) /\ Len(l) = n /\ DOMAIN l = 1..n
  <2>1. l \in Seq(Bufs)
    BY ONLY <1>1, <1>3, SeqDef
  <2> QED
    BY ONLY <1>1, <1>3, <2>1
<1>7. ToSet(l) = Bufs
  BY ONLY <1>3, <1>5, <1>6 DEF ToSet, Surjection
<1> QED
  BY <1>6, <1>7 DEF n, l

\* The memory after the machine has started.
Fresh ==
  /\ bblock = [b \in Bufs |-> NoBlock] /\ io = [p \in Procs |-> Run]
  /\ chain = [p \in Procs |-> NoChain] /\ free = Descs /\ info = [d \in Descs |-> NoBuf]
  /\ inflight = {} /\ used = <<>> /\ owned = {} /\ waiting = {}
  /\ valid = [b \in Bufs |-> FALSE] /\ refcnt = [b \in Bufs |-> 0]
  /\ holder = [b \in Bufs |-> Nobody] /\ lru = SetToSeq(Bufs) /\ held = [p \in Procs |-> <<>>]
  /\ panicked = FALSE /\ DOMAIN disk = Blocks /\ DOMAIN bdata = Bufs

LEMMA FreshCache == Fresh => CacheInv
<1> SUFFICES ASSUME Fresh
             PROVE  CacheInv
  OBVIOUS
<1>1. CacheTypeOK
  <2>1. lru \in Seq(Bufs) /\ Len(lru) = Cardinality(Bufs) /\ ToSet(lru) = Bufs
    BY ListFacts DEF Fresh
  <2>2. /\ bblock \in [Bufs -> Blocks \union {NoBlock}] /\ valid \in [Bufs -> BOOLEAN]
        /\ refcnt \in [Bufs -> Nat] /\ holder \in [Bufs -> Procs \union {Nobody}]
        /\ DOMAIN held = Procs /\ \A p \in Procs : held[p] \in Seq(Bufs)
    BY DEF Fresh
  <2>3. io \in [Procs -> [step : Steps, buf : Bufs \union {NoBuf}, write : BOOLEAN]]
    BY DEF Fresh, Run, Steps
  <2>4. /\ free \subseteq Descs /\ chain \in [Procs -> Seq(Descs)]
        /\ info \in [Descs -> Bufs \union {NoBuf}]
        /\ inflight \subseteq [head : Descs, block : Blocks, write : BOOLEAN]
        /\ used \in Seq(Descs) /\ owned \subseteq Bufs /\ waiting \subseteq Procs
    BY DEF Fresh, NoChain
  <2> QED
    BY <2>1, <2>2, <2>3, <2>4 DEF Fresh, CacheTypeOK, BcacheTypeOK
<1>2. \A p \in Procs : io[p] = Run /\ io[p].step = "run" /\ ToSet(held[p]) = {} /\ IsInjective(held[p])
                       /\ chain[p] = NoChain /\ ChainOf(p) = {}
  BY DEF Fresh, Run, ToSet, IsInjective, ChainOf, NoChain
<1>3. IoInv
  BY ONLY <1>2 DEF IoInv
<1>4. HeldInv
  <2>1. \A p \in Procs : \A b \in Bufs : holder[b] # p
    BY BcacheAssumption DEF Fresh
  <2> QED
    BY ONLY <1>2, <2>1 DEF HeldInv
<1>5. Unique
  BY DEF Fresh, Unique
<1>6. RequestInv
  <2>1. inflight = {} /\ ToSet(used) = {}
    BY DEF Fresh, ToSet
  <2> QED
    BY ONLY <1>2, <2>1 DEF RequestInv
<1>7. DescriptorsAccounted
  <2>1. free = Descs /\ waiting = {}
    BY DEF Fresh
  <2> QED
    BY ONLY <1>2, <2>1 DEF DescriptorsAccounted
<1> QED
  BY <1>1, <1>3, <1>4, <1>5, <1>6, <1>7 DEF CacheInv
=============================================================================
