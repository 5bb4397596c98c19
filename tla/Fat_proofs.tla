---------------------------- MODULE Fat_proofs -----------------------------
(***************************************************************************)
(* Proofs about the FAT driver, for every table of clusters, every set of  *)
(* paths and every well-formed volume: the type invariant, that the chains *)
(* of the files share no cluster, and that the driver implements           *)
(* AbstractFiles: a file has what the driver answered it had written.      *)
(* They hold as long as no directory is on a cluster in which the data of  *)
(* a removed file are read as entries (`clean'), and not after that.       *)
(*                                                                         *)
(* The driver reads directories when they are asked for, so the invariant  *)
(* is about the entries it has not read as much as about the files in its  *)
(* tree: VolInv.  Each function of the driver has a lemma that says that   *)
(* it keeps VolInv, another that says what it does to the data of files,   *)
(* and each operation one that puts those together.                        *)
(***************************************************************************)
EXTENDS Fat, WellFoundedInduction, FiniteSetTheorems, SequenceTheorems, TLAPS

-----------------------------------------------------------------------------
(* Induction *)

\* A set of numbers has a least member.
LEMMA Least ==
  ASSUME NEW T \in SUBSET Nat, T # {}
  PROVE  \E x \in T : \A y \in T : x <= y
<1> DEFINE R == StrictSubsetOrdering(Nat)
           F == FiniteSubsetsOf(Nat)
           S == {1..n : n \in T}
<1>1. IsWellFoundedOn(R, F)
  BY FS_StrictSubsetOrderingWellFounded
<1>2. S \subseteq F /\ S # {}
  <2>1. \A n \in T : IsFiniteSet(1..n) /\ 1..n \subseteq Nat
    BY FS_Interval
  <2> QED BY <2>1 DEF FiniteSubsetsOf
<1>3. \A x, y \in T : x < y => <<1..x, 1..y>> \in R
  <2>1. SUFFICES ASSUME NEW x \in T, NEW y \in T, x < y PROVE <<1..x, 1..y>> \in R
    OBVIOUS
  <2>2. 1..x \subseteq 1..y /\ y \in 1..y /\ y \notin 1..x /\ 1..x \subseteq Nat /\ 1..y \subseteq Nat
    BY <2>1
  <2> QED BY <2>2 DEF StrictSubsetOrdering
<1> HIDE DEF R, F, S
<1>4. \E x \in S : \A y \in S : ~(<<y, x>> \in R)
  BY ONLY <1>1, <1>2, WFMin
<1>5. PICK m \in T : \A n \in T : <<1..n, 1..m>> \notin R
  BY <1>4 DEF S
<1>6. \A n \in T : ~(n < m)
  BY <1>3, <1>5
<1>7. \A n \in T : m <= n
  BY <1>6
<1> QED BY <1>7

\* Induction, on a set of numbers.
LEMMA SetInduction ==
  ASSUME NEW G \in SUBSET Nat, 0 \in G, \A n \in G : n + 1 \in G
  PROVE  G = Nat
<1>1. SUFFICES ASSUME Nat \ G # {} PROVE FALSE
  OBVIOUS
<1>2. PICK x \in Nat \ G : \A y \in Nat \ G : x <= y
  BY <1>1, Least
<1>3. x # 0 /\ x - 1 \in Nat /\ x - 1 + 1 = x /\ ~(x <= x - 1)
  BY <1>2
<1> QED BY <1>2, <1>3

-----------------------------------------------------------------------------
(* Chains *)

\* What the table goes on with after a sequence of clusters.
Continues(fat, s) == fat[Last(s)] \in Clusters /\ Len(s) < LastCluster

\* t follows the table from the end of s on, to an end.
Follows(fat, s, t) ==
  /\ t \in Seq(Clusters) /\ Len(s) <= Len(t)
  /\ \A i \in 1..Len(s) : t[i] = s[i]
  /\ \A i \in Len(s)..(Len(t) - 1) : fat[t[i]] \in Clusters /\ i < LastCluster /\ t[i + 1] = fat[t[i]]
  /\ ~Continues(fat, t)

\* A sequence with nothing after it follows itself.
LEMMA FollowsEnd ==
  ASSUME NEW fat, NEW s \in Seq(Clusters), ~Continues(fat, s)
  PROVE  Follows(fat, s, s)
BY DEF Follows

\* One cluster less to start from, and the same end.
LEMMA FollowsNext ==
  ASSUME NEW fat, NEW s \in Seq(Clusters), s # <<>>, Continues(fat, s), NEW t,
         Follows(fat, Append(s, fat[Last(s)]), t)
  PROVE  Follows(fat, s, t)
<1> DEFINE x == fat[Last(s)]
           u == Append(s, x)
<1>1. x \in Clusters /\ Len(s) < LastCluster
  BY DEF Continues
<1>2. Len(s) \in Nat /\ Len(s) > 0 /\ Last(s) = s[Len(s)]
  BY DEF Last
<1>3. u \in Seq(Clusters) /\ Len(u) = Len(s) + 1 /\ u[Len(s) + 1] = x /\ \A i \in 1..Len(s) : u[i] = s[i]
  BY <1>1
<1> HIDE DEF u
<1>4. /\ t \in Seq(Clusters) /\ Len(s) + 1 <= Len(t) /\ Len(t) \in Nat
      /\ \A i \in 1..(Len(s) + 1) : t[i] = u[i]
      /\ \A i \in (Len(s) + 1)..(Len(t) - 1) : fat[t[i]] \in Clusters /\ i < LastCluster /\ t[i + 1] = fat[t[i]]
      /\ ~Continues(fat, t)
  BY <1>3 DEF Follows, u
<1>5. \A i \in 1..Len(s) : t[i] = s[i]
  BY <1>2, <1>3, <1>4
<1>6. t[Len(s) + 1] = x /\ t[Len(s)] = Last(s)
  BY <1>2, <1>3, <1>4
<1>7. \A i \in Len(s)..(Len(t) - 1) : fat[t[i]] \in Clusters /\ i < LastCluster /\ t[i + 1] = fat[t[i]]
  <2>1. TAKE i \in Len(s)..(Len(t) - 1)
  <2>2. CASE i = Len(s)
    BY <2>2, <1>1, <1>6
  <2>3. CASE i \in (Len(s) + 1)..(Len(t) - 1)
    BY <2>3, <1>4
  <2> QED BY <2>1, <2>2, <2>3, <1>2
<1> QED BY <1>2, <1>4, <1>5, <1>7 DEF Follows

\* The table leads from a sequence to one end only.
LEMMA FollowsUnique ==
  ASSUME NEW fat, NEW s \in Seq(Clusters), s # <<>>, NEW t, NEW u, Follows(fat, s, t), Follows(fat, s, u)
  PROVE  t = u
<1> DEFINE Same(i) == (i <= Len(t) <=> i <= Len(u)) /\ (i <= Len(t) => t[i] = u[i])
           G == {n \in Nat : \A i \in 1..(Len(s) + n) : Same(i)}
<1>1. /\ Len(s) \in Nat /\ Len(s) > 0 /\ Len(s) <= Len(t) /\ Len(s) <= Len(u)
      /\ t \in Seq(Clusters) /\ u \in Seq(Clusters) /\ Len(t) \in Nat /\ Len(u) \in Nat
  BY DEF Follows
<1>2. 0 \in G
  BY <1>1 DEF Follows
<1>3. ASSUME NEW n \in G PROVE n + 1 \in G
  <2> DEFINE i == Len(s) + n
  <2>1. i \in Nat /\ i >= Len(s) /\ i > 0 /\ Same(i)
    BY <1>1
  <2>2. (i + 1 <= Len(t)) => (i + 1 <= Len(u) /\ t[i + 1] = u[i + 1])
    <3>1. SUFFICES ASSUME i + 1 <= Len(t) PROVE i + 1 <= Len(u) /\ t[i + 1] = u[i + 1]
      OBVIOUS
    <3>2. i \in Len(s)..(Len(t) - 1) /\ i <= Len(u) /\ t[i] = u[i]
      BY <3>1, <2>1, <1>1
    <3>3. fat[t[i]] \in Clusters /\ i < LastCluster /\ t[i + 1] = fat[t[i]]
      BY <3>2 DEF Follows
    <3>4. Len(u) # i
      BY <3>2, <3>3 DEF Follows, Continues, Last
    <3>5. i \in Len(s)..(Len(u) - 1)
      BY <3>2, <3>4, <2>1, <1>1
    <3> QED BY <3>2, <3>3, <3>5, <1>1 DEF Follows
  <2>3. (i + 1 <= Len(u)) => (i + 1 <= Len(t))
    <3>1. SUFFICES ASSUME i + 1 <= Len(u) PROVE i + 1 <= Len(t)
      OBVIOUS
    <3>2. i \in Len(s)..(Len(u) - 1) /\ i <= Len(t) /\ t[i] = u[i]
      BY <3>1, <2>1, <1>1
    <3>3. fat[u[i]] \in Clusters /\ i < LastCluster
      BY <3>2 DEF Follows
    <3>4. Len(t) # i
      BY <3>2, <3>3 DEF Follows, Continues, Last
    <3> QED BY <3>2, <3>4, <2>1, <1>1
  <2>4. Same(i + 1)
    BY <2>2, <2>3
  <2>5. \A j \in 1..(Len(s) + (n + 1)) : j \in 1..(Len(s) + n) \/ j = i + 1
    <3>1. n \in Nat
      OBVIOUS
    <3>2. Len(s) + (n + 1) = i + 1
      BY <3>1, <1>1
    <3> HIDE DEF i
    <3> QED BY <3>2, <2>1
  <2> QED BY <2>4, <2>5
<1>4. G = Nat
  <2> HIDE DEF G
  <2>1. G \in SUBSET Nat
    BY DEF G
  <2> QED BY ONLY <2>1, <1>2, <1>3, SetInduction
<1>5. \A i \in Nat : i > 0 => Same(i)
  <2>1. TAKE i \in Nat
  <2>2. i \in G
    BY <1>4
  <2> QED BY <2>2, <1>1
<1>6. Len(t) = Len(u)
  <2>1. Len(t) > 0 /\ Len(u) > 0
    BY <1>1
  <2>2. Same(Len(t)) /\ Same(Len(u))
    BY <1>1, <1>5, <2>1
  <2> QED BY <2>2, <1>1
<1>7. \A i \in 1..Len(t) : t[i] = u[i]
  BY <1>5, <1>1
<1> QED BY <1>1, <1>6, <1>7

\* Every sequence is followed to an end by one sequence, and by what the
\* recursion of Chain computes.
LEMMA FollowsExists ==
  ASSUME NEW fat, NEW s \in Seq(Clusters), s # <<>>
  PROVE  \E t : Follows(fat, s, t)
<1> DEFINE Near(n) == {r \in Seq(Clusters) : r # <<>> /\ Len(r) + n >= LastCluster}
           G == {n \in Nat : \A r \in Near(n) : \E t : Follows(fat, r, t)}
<1>1. 0 \in G
  <2>1. \A r \in Near(0) : r \in Seq(Clusters) /\ ~Continues(fat, r)
    BY FatAssumption DEF Continues
  <2> QED BY <2>1, FollowsEnd
<1>2. ASSUME NEW n \in G PROVE n + 1 \in G
  <2>1. SUFFICES ASSUME NEW r \in Near(n + 1) PROVE \E t : Follows(fat, r, t)
    OBVIOUS
  <2>2. CASE ~Continues(fat, r)
    BY <2>2, FollowsEnd
  <2>3. CASE Continues(fat, r)
    <3> DEFINE u == Append(r, fat[Last(r)])
    <3>1. u \in Seq(Clusters) /\ u # <<>> /\ Len(u) = Len(r) + 1
      BY <2>3 DEF Continues
    <3>2. u \in Near(n)
      BY <3>1, FatAssumption
    <3>3. PICK t : Follows(fat, u, t)
      BY <3>2
    <3> QED BY <2>3, <3>3, FollowsNext
  <2> QED BY <2>2, <2>3
<1>3. G = Nat
  <2> HIDE DEF G
  <2>1. G \in SUBSET Nat
    BY DEF G
  <2> QED BY ONLY <2>1, <1>1, <1>2, SetInduction
<1>4. LastCluster \in Nat
  BY FatAssumption
<1>5. s \in Near(LastCluster)
  BY <1>4
<1> QED BY <1>3, <1>4, <1>5

\* walk is the function that the recursion of Chain defines.
Walked(fat, walk) ==
  walk = [s \in Seq(Clusters) |-> IF Continues(fat, s) THEN walk[Append(s, fat[Last(s)])] ELSE s]

\* There is a function that the recursion of Chain defines.
LEMMA WalkExists ==
  ASSUME NEW fat
  PROVE  \E walk : Walked(fat, walk)
<1> DEFINE end(s) == CHOOSE t : Follows(fat, s, t)
           next(s) == Append(s, fat[Last(s)])
           walk == [s \in Seq(Clusters) |->
                      IF s # <<>> THEN end(s) ELSE IF Continues(fat, s) THEN end(next(s)) ELSE s]
<1>1. ASSUME NEW s \in Seq(Clusters), Continues(fat, s) PROVE next(s) \in Seq(Clusters) /\ next(s) # <<>>
  BY <1>1 DEF Continues
<1>2. ASSUME NEW s \in Seq(Clusters), s # <<>> PROVE Follows(fat, s, end(s))
  BY <1>2, FollowsExists
<1>3. ASSUME NEW s \in Seq(Clusters), s # <<>>, Continues(fat, s) PROVE end(s) = end(next(s))
  <2>1. Follows(fat, next(s), end(next(s)))
    BY <1>1, <1>2, <1>3
  <2>2. Follows(fat, s, end(next(s)))
    BY <1>3, <2>1, FollowsNext
  <2> QED BY <1>2, <1>3, <2>2, FollowsUnique
<1>4. ASSUME NEW s \in Seq(Clusters), s # <<>>, ~Continues(fat, s) PROVE end(s) = s
  BY <1>2, <1>4, FollowsEnd, FollowsUnique
<1> HIDE DEF end, next
<1>5. \A s \in Seq(Clusters) : walk[s] = IF Continues(fat, s) THEN walk[next(s)] ELSE s
  BY <1>1, <1>3, <1>4
<1>6. walk = [s \in Seq(Clusters) |-> IF Continues(fat, s) THEN walk[next(s)] ELSE s]
  BY <1>5
<1>7. Walked(fat, walk)
  BY <1>6 DEF Walked, next
<1> QED BY <1>7

\* The recursion of Chain follows the table to an end.
LEMMA WalkFollows ==
  ASSUME NEW fat, NEW walk, Walked(fat, walk), NEW s \in Seq(Clusters), s # <<>>
  PROVE  Follows(fat, s, walk[s])
<1> DEFINE Near(n) == {r \in Seq(Clusters) : r # <<>> /\ Len(r) + n >= LastCluster}
           G == {n \in Nat : \A r \in Near(n) : Follows(fat, r, walk[r])}
<1>1. \A r \in Seq(Clusters) : walk[r] = IF Continues(fat, r) THEN walk[Append(r, fat[Last(r)])] ELSE r
  BY DEF Walked
<1>2. 0 \in G
  <2>1. \A r \in Near(0) : r \in Seq(Clusters) /\ ~Continues(fat, r)
    BY FatAssumption DEF Continues
  <2> QED BY <1>1, <2>1, FollowsEnd
<1>3. ASSUME NEW n \in G PROVE n + 1 \in G
  <2>1. SUFFICES ASSUME NEW r \in Near(n + 1) PROVE Follows(fat, r, walk[r])
    OBVIOUS
  <2>2. CASE ~Continues(fat, r)
    BY <1>1, <2>2, FollowsEnd
  <2>3. CASE Continues(fat, r)
    <3> DEFINE u == Append(r, fat[Last(r)])
    <3>1. u \in Seq(Clusters) /\ u # <<>> /\ Len(u) = Len(r) + 1
      BY <2>3 DEF Continues
    <3>2. u \in Near(n)
      BY <3>1, FatAssumption
    <3>3. Follows(fat, u, walk[u]) /\ walk[r] = walk[u]
      BY <1>1, <2>3, <3>2
    <3> QED BY <2>3, <3>3, FollowsNext
  <2> QED BY <2>2, <2>3
<1>4. G = Nat
  <2> HIDE DEF G
  <2>1. G \in SUBSET Nat
    BY DEF G
  <2> QED BY ONLY <2>1, <1>2, <1>3, SetInduction
<1>5. LastCluster \in Nat
  BY FatAssumption
<1>6. s \in Near(LastCluster)
  BY <1>5
<1> QED BY <1>4, <1>5, <1>6

\* s is the chain from c: it starts with c, goes on as the table says, and stops
\* where that is not a cluster or at the length of the table.
IsChain(fat, c, s) ==
  /\ s \in Seq(Clusters) /\ Len(s) > 0 /\ s[1] = c
  /\ \A i \in 1..(Len(s) - 1) : s[i + 1] = fat[s[i]] /\ i < LastCluster
  /\ ~Continues(fat, s)

\* A chain from c is what follows from c alone.
LEMMA IsChainFollows ==
  ASSUME NEW fat, NEW c \in Clusters, NEW s
  PROVE  IsChain(fat, c, s) <=> Follows(fat, <<c>>, s)
<1>1. ASSUME IsChain(fat, c, s) PROVE Follows(fat, <<c>>, s)
  <2>1. \A i \in 1..(Len(s) - 1) : s[i + 1] \in Clusters
    BY <1>1 DEF IsChain
  <2> QED BY <1>1, <2>1 DEF IsChain, Follows
<1>2. ASSUME Follows(fat, <<c>>, s) PROVE IsChain(fat, c, s)
  BY <1>2 DEF IsChain, Follows
<1> QED BY <1>1, <1>2

\* Chain computes the chain from a cluster, and there is one.
LEMMA ChainIs ==
  ASSUME NEW fat, NEW c \in Clusters
  PROVE  IsChain(fat, c, Chain(fat, c))
<1> DEFINE walk == CHOOSE w : Walked(fat, w)
<1>1. Walked(fat, walk)
  BY WalkExists
<1>2. Chain(fat, c) = walk[<<c>>]
  BY DEF Chain, Walked, Continues
<1> HIDE DEF walk
<1>3. <<c>> \in Seq(Clusters) /\ <<c>> # <<>>
  OBVIOUS
<1>4. Follows(fat, <<c>>, walk[<<c>>])
  BY <1>1, <1>3, WalkFollows
<1> QED BY <1>2, <1>4, IsChainFollows

\* There is one chain from a cluster.
LEMMA ChainUnique ==
  ASSUME NEW fat, NEW c \in Clusters, NEW s, IsChain(fat, c, s)
  PROVE  s = Chain(fat, c)
<1>1. <<c>> \in Seq(Clusters) /\ <<c>> # <<>>
  OBVIOUS
<1>2. Follows(fat, <<c>>, s) /\ Follows(fat, <<c>>, Chain(fat, c))
  BY ChainIs, IsChainFollows
<1> QED BY <1>1, <1>2, FollowsUnique

\* The clusters of a chain.
ChainSet(fat, c) == Range(Chain(fat, c))

\* The chain ends and does not meet itself.
Sound(fat, c) ==
  /\ IsInjective(Chain(fat, c))
  /\ fat[Last(Chain(fat, c))] = EOC

\* What a chain is made of.
LEMMA ChainFacts ==
  ASSUME NEW fat, NEW c \in Clusters
  PROVE  /\ Chain(fat, c) \in Seq(Clusters) /\ Len(Chain(fat, c)) \in Nat /\ Len(Chain(fat, c)) > 0
         /\ DOMAIN Chain(fat, c) = 1..Len(Chain(fat, c))
         /\ Chain(fat, c)[1] = c
         /\ \A i \in 1..(Len(Chain(fat, c)) - 1) : Chain(fat, c)[i + 1] = fat[Chain(fat, c)[i]]
         /\ \A i \in 1..Len(Chain(fat, c)) : Chain(fat, c)[i] \in ChainSet(fat, c)
         /\ \A x \in ChainSet(fat, c) : x \in Clusters /\ \E i \in 1..Len(Chain(fat, c)) : x = Chain(fat, c)[i]
         /\ c \in ChainSet(fat, c) /\ ChainSet(fat, c) \subseteq Clusters
<1> DEFINE s == Chain(fat, c)
<1>1. IsChain(fat, c, s)
  BY ChainIs
<1> HIDE DEF s
<1>2. /\ s \in Seq(Clusters) /\ Len(s) \in Nat /\ Len(s) > 0 /\ s[1] = c /\ DOMAIN s = 1..Len(s)
      /\ \A i \in 1..(Len(s) - 1) : s[i + 1] = fat[s[i]]
      /\ \A i \in 1..Len(s) : s[i] \in Clusters
  BY <1>1 DEF IsChain
<1>3. 1 \in DOMAIN s
  BY <1>2
<1> QED BY <1>2, <1>3 DEF s, ChainSet, Range

\* A chain does not change while the table does not change on it.
LEMMA ChainSame ==
  ASSUME NEW fat, NEW fat2, NEW c \in Clusters, \A x \in ChainSet(fat, c) : fat2[x] = fat[x]
  PROVE  Chain(fat2, c) = Chain(fat, c)
<1> DEFINE s == Chain(fat, c)
<1>1. IsChain(fat, c, s)
  BY ChainIs
<1>2. Len(s) \in Nat /\ \A i \in 1..Len(s) : fat2[s[i]] = fat[s[i]]
  BY ChainFacts
<1> HIDE DEF s
<1>3. Last(s) = s[Len(s)] /\ Len(s) \in 1..Len(s)
  BY <1>1, <1>2 DEF IsChain, Last
<1>4. IsChain(fat2, c, s)
  BY <1>1, <1>2, <1>3 DEF IsChain, Continues
<1> QED BY <1>4, ChainUnique DEF s

\* A cluster with no next one is a chain by itself.
LEMMA ChainOne ==
  ASSUME NEW fat, NEW c \in Clusters, fat[c] \notin Clusters
  PROVE  Chain(fat, c) = <<c>>
<1>1. IsChain(fat, c, <<c>>)
  BY DEF IsChain, Continues, Last
<1> QED BY <1>1, ChainUnique

\* A chain that is cut after its i-th cluster.
LEMMA ChainCut ==
  ASSUME NEW fat, NEW fat2, NEW c \in Clusters, NEW i \in 1..Len(Chain(fat, c)),
         fat2[Chain(fat, c)[i]] \notin Clusters,
         \A j \in 1..(i - 1) : fat2[Chain(fat, c)[j]] = fat[Chain(fat, c)[j]]
  PROVE  Chain(fat2, c) = SubSeq(Chain(fat, c), 1, i)
<1> DEFINE s == Chain(fat, c)
           t == SubSeq(s, 1, i)
<1>1. IsChain(fat, c, s) /\ Len(s) \in Nat
  BY ChainIs, ChainFacts
<1>2. /\ i \in 1..Len(s) /\ fat2[s[i]] \notin Clusters
      /\ \A j \in 1..(i - 1) : fat2[s[j]] = fat[s[j]]
  OBVIOUS
<1> HIDE DEF s
<1>3. t \in Seq(Clusters) /\ Len(t) = i /\ \A j \in 1..i : t[j] = s[j]
  BY <1>1, <1>2 DEF IsChain
<1> HIDE DEF t
<1>4. Last(t) = s[i]
  BY <1>2, <1>3 DEF Last
<1>5. \A j \in 1..(i - 1) : t[j + 1] = fat2[t[j]] /\ j < LastCluster
  <2>1. TAKE j \in 1..(i - 1)
  <2>2. j \in 1..(Len(s) - 1) /\ j \in 1..i /\ j + 1 \in 1..i
    BY <1>1, <1>2
  <2>3. s[j + 1] = fat[s[j]] /\ j < LastCluster
    BY <1>1, <2>2 DEF IsChain
  <2> QED BY <1>2, <1>3, <2>1, <2>2, <2>3
<1>6. t[1] = c /\ i > 0 /\ ~Continues(fat2, t)
  BY <1>1, <1>2, <1>3, <1>4 DEF IsChain, Continues
<1>7. IsChain(fat2, c, t)
  BY <1>3, <1>5, <1>6 DEF IsChain
<1> QED BY <1>7, ChainUnique DEF s, t

\* The clusters of a chain that ends are in use.
LEMMA SoundUsed ==
  ASSUME NEW fat, NEW c \in Clusters, Sound(fat, c), NEW x \in ChainSet(fat, c)
  PROVE  fat[x] # FREE
<1> DEFINE s == Chain(fat, c)
<1>1. PICK i \in 1..Len(s) : x = s[i]
  BY ChainFacts
<1>2. /\ Len(s) \in Nat /\ s \in Seq(Clusters)
      /\ \A j \in 1..(Len(s) - 1) : s[j + 1] = fat[s[j]]
  BY ChainFacts
<1>3. fat[s[Len(s)]] = EOC
  BY DEF Sound, Last
<1> HIDE DEF s
<1>4. CASE i = Len(s)
  BY <1>1, <1>3, <1>4 DEF EOC, FREE
<1>5. CASE i < Len(s)
  <2>1. i \in 1..(Len(s) - 1) /\ i + 1 \in 1..Len(s)
    BY <1>2, <1>5
  <2>2. fat[x] = s[i + 1] /\ s[i + 1] \in Clusters
    BY <1>1, <1>2, <2>1
  <2> QED BY <2>2, FatAssumption DEF Clusters, FREE
<1> QED BY <1>1, <1>2, <1>4, <1>5

\* A chain that ends still does while the table does not change on it.
LEMMA SoundSame ==
  ASSUME NEW fat, NEW fat2, NEW c \in Clusters, Sound(fat, c),
         \A x \in ChainSet(fat, c) : fat2[x] = fat[x]
  PROVE  Sound(fat2, c) /\ Chain(fat2, c) = Chain(fat, c) /\ ChainSet(fat2, c) = ChainSet(fat, c)
<1>1. Chain(fat2, c) = Chain(fat, c)
  BY ChainSame
<1>2. Last(Chain(fat, c)) \in ChainSet(fat, c)
  BY ChainFacts DEF Last
<1> QED BY <1>1, <1>2 DEF Sound, ChainSet

-----------------------------------------------------------------------------
(* The invariant *)

\* The slots that the driver may still read entries of: all but those of the
\* directories it has read.  (That no other cluster has entries is to be shown.)
At(v, l) == v.slots[l[1]][l[2]]
ReadStarts(v) == {v.tree[p].start : p \in {q \in DOMAIN v.tree : v.tree[q].read}}
Places(v) ==
  {l \in Clusters \X (1..E) : l[1] \notin ReadStarts(v) /\ IsEntry(At(v, l))}

\* Those of them that hold the entry of a file that is not in the tree, or is in
\* the tree with other clusters.
Starts(v) == {v.tree[p].start : p \in DOMAIN v.tree}
Pending(v) == {l \in Places(v) : At(v, l).start \notin Starts(v)}
Owned(v) == Starts(v) \union {At(v, l).start : l \in Pending(v)}

\* The types of a file and of a slot.
FileType == [dentry : Entries, start : Clusters, pos : 0..(E - 1), nentries : 0..E, read : BOOLEAN]
Slot == Entries \union {End, Junk}

\* The types of the fields of a volume.
VolType(v) ==
  /\ v \in [fat : [Clusters -> Clusters \union {FREE, EOC}],
            slots : [Clusters -> [1..E -> Slot]],
            data : [Clusters -> [1..U -> Units]],
            tree : UNION {[S -> FileType] : S \in SUBSET Paths},
            failed : BOOLEAN]
  /\ Root \in DOMAIN v.tree

\* What the tree says of a file is right, and its directory is in the tree.
TreeOK(v) == \A p \in DOMAIN v.tree :
  /\ v.tree[p].dentry.start = v.tree[p].start
  /\ IsEntry(v.tree[p].dentry) => PathIn(v.tree[p].dentry) = p
  /\ v.tree[p].dentry.dir => p \in Dirs
  /\ v.tree[p].read => v.tree[p].dentry.dir
  /\ v.tree[p].dentry.size <= U * Len(Chain(v.fat, v.tree[p].start))
  /\ p # Root => ParentOf[p] \in DOMAIN v.tree /\ v.tree[ParentOf[p]].dentry.dir
  /\ \A q \in DOMAIN v.tree : v.tree[p].start = v.tree[q].start => p = q

\* The chains of the files in the tree and of those that may enter it.
ChainsOK(v) ==
  /\ \A a \in Owned(v) : Sound(v.fat, a)
  /\ \A a, b \in Owned(v) : a # b => ChainSet(v.fat, a) \intersect ChainSet(v.fat, b) = {}
  /\ \A l \in Pending(v) :
       /\ At(v, l).size <= U * Len(Chain(v.fat, At(v, l).start))
       /\ \A m \in Pending(v) : At(v, l).start = At(v, m).start => l = m

\* Entries are in clusters that are in use, of no file but the directory they are in.
PlaceOK(v, l) ==
  /\ v.fat[l[1]] # FREE
  /\ PathIn(At(v, l)) \in Paths \ {Root}
  /\ At(v, l).dir => PathIn(At(v, l)) \in Dirs
  /\ \A p \in DOMAIN v.tree : l[1] \in ChainSet(v.fat, v.tree[p].start) =>
       /\ l[1] = v.tree[p].start /\ v.tree[p].dentry.dir
       /\ ParentOf[PathIn(At(v, l))] = p
  /\ \A m \in Pending(v) : l[1] \in ChainSet(v.fat, At(v, m).start) =>
       /\ l[1] = At(v, m).start /\ At(v, m).dir
       /\ ParentOf[PathIn(At(v, l))] = PathIn(At(v, m))
PlacesOK(v) == \A l \in Places(v) : PlaceOK(v, l)

\* A file in the tree has no entry but the one at its position, and the slots
\* that a directory is taken to have filled hold no other file's but old ones of
\* the log.
OwnPlace(v, l, p) ==
  /\ At(v, l).start = v.tree[p].start =>
       /\ p # Root /\ PathIn(At(v, l)) = p
       /\ l[1] = v.tree[ParentOf[p]].start /\ l[2] = v.tree[p].pos + 1
  /\ l \in Pending(v) /\ l[1] = v.tree[p].start /\ l[2] <= v.tree[p].nentries =>
       PathIn(At(v, l)) = Log /\ Log \in DOMAIN v.tree
OwnPlaces(v) == \A l \in Places(v), p \in DOMAIN v.tree : OwnPlace(v, l, p)

\* No entry follows the end mark, and none will be written after it.
NoEnd(v, c, n) == \A j \in 1..n : v.slots[c][j] # End
EndsOK(v) ==
  /\ \A c \in Clusters, k \in 1..E : IsEntry(v.slots[c][k]) => NoEnd(v, c, k - 1)
  /\ \A p \in DOMAIN v.tree :
       /\ (v.tree[p].dentry.dir => NoEnd(v, v.tree[p].start, v.tree[p].nentries))
       /\ p # Root => NoEnd(v, v.tree[ParentOf[p]].start, v.tree[p].pos)

\* The invariant of a volume, while the driver runs.
VolInv(v) ==
  VolType(v) /\ TreeOK(v) /\ ChainsOK(v) /\ PlacesOK(v) /\ OwnPlaces(v) /\ EndsOK(v)

-----------------------------------------------------------------------------

\* The fields of a volume, and the files of its tree.
LEMMA VolFacts ==
  ASSUME NEW v, VolType(v)
  PROVE  /\ v.fat \in [Clusters -> Clusters \union {FREE, EOC}]
         /\ v.slots \in [Clusters -> [1..E -> Slot]]
         /\ v.data \in [Clusters -> [1..U -> Units]]
         /\ v.failed \in BOOLEAN
         /\ DOMAIN v.tree \subseteq Paths /\ Root \in DOMAIN v.tree
         /\ v.tree \in [DOMAIN v.tree -> FileType]
         /\ \A p \in DOMAIN v.tree :
              /\ v.tree[p] \in FileType /\ v.tree[p].dentry \in Entries /\ v.tree[p].start \in Clusters
              /\ v.tree[p].pos \in 0..(E - 1) /\ v.tree[p].nentries \in 0..E /\ v.tree[p].read \in BOOLEAN
<1>1. \A p \in DOMAIN v.tree : v.tree[p] \in FileType
  BY DEF VolType
<1>2. DOMAIN v.tree \subseteq Paths /\ v.tree \in [DOMAIN v.tree -> FileType]
  BY DEF VolType
<1> QED BY <1>1, <1>2 DEF VolType, FileType

\* What makes a record a volume.
LEMMA VolMake ==
  ASSUME NEW w,
         w = [fat |-> w.fat, slots |-> w.slots, data |-> w.data, tree |-> w.tree, failed |-> w.failed],
         w.fat \in [Clusters -> Clusters \union {FREE, EOC}],
         w.slots \in [Clusters -> [1..E -> Slot]], w.data \in [Clusters -> [1..U -> Units]],
         DOMAIN w.tree \subseteq Paths, w.tree \in [DOMAIN w.tree -> FileType], Root \in DOMAIN w.tree,
         w.failed \in BOOLEAN
  PROVE  VolType(w)
<1>1. w.tree \in UNION {[S -> FileType] : S \in SUBSET Paths}
  OBVIOUS
<1> QED BY <1>1 DEF VolType

\* What places, pending ones and owned clusters are.
LEMMA PlaceFacts ==
  ASSUME NEW v, VolType(v)
  PROVE  /\ \A l \in Places(v) : /\ l[1] \in Clusters /\ l[2] \in 1..E /\ l = <<l[1], l[2]>>
                                 /\ At(v, l) \in Entries /\ IsEntry(At(v, l)) /\ l[1] \notin ReadStarts(v)
         /\ \A c \in Clusters, k \in 1..E :
              IsEntry(v.slots[c][k]) /\ c \notin ReadStarts(v) => <<c, k>> \in Places(v)
         /\ Starts(v) \subseteq Clusters /\ ReadStarts(v) \subseteq Starts(v)
         /\ Owned(v) \subseteq Clusters /\ Pending(v) \subseteq Places(v)
         /\ \A l \in Pending(v) : At(v, l).start \in Owned(v) /\ At(v, l).start \in Clusters
<1>1. \A l \in Places(v) : /\ l[1] \in Clusters /\ l[2] \in 1..E /\ l = <<l[1], l[2]>>
                           /\ IsEntry(At(v, l)) /\ l[1] \notin ReadStarts(v)
  BY DEF Places
<1>2. \A l \in Places(v) : At(v, l) \in Entries
  <2>1. \A c \in Clusters, k \in 1..E : v.slots[c][k] \in Slot
    <3>1. v.slots \in [Clusters -> [1..E -> Slot]]
      BY VolFacts
    <3> QED BY <3>1
  <2>2. TAKE l \in Places(v)
  <2>3. At(v, l) \in Slot /\ IsEntry(At(v, l))
    BY <1>1, <2>1 DEF At
  <2> QED BY <2>3 DEF Slot, IsEntry
<1>3. \A c \in Clusters, k \in 1..E :
        IsEntry(v.slots[c][k]) /\ c \notin ReadStarts(v) => <<c, k>> \in Places(v)
  BY DEF Places, At
<1>4. Starts(v) \subseteq Clusters /\ ReadStarts(v) \subseteq Starts(v) /\ Pending(v) \subseteq Places(v)
  BY VolFacts DEF Starts, ReadStarts, Pending
<1>5. \A l \in Pending(v) : At(v, l).start \in Owned(v) /\ At(v, l).start \in Clusters
  BY <1>2, <1>4 DEF Owned, Entries
<1>6. Owned(v) \subseteq Clusters
  BY <1>4, <1>5 DEF Owned
<1> QED BY <1>1, <1>2, <1>3, <1>4, <1>5, <1>6

\* The clusters of the files in the tree, and of those that are not, are in use.
LEMMA ChainSets ==
  ASSUME NEW v, VolInv(v)
  PROVE  /\ \A a \in Owned(v) : a \in Clusters /\ Sound(v.fat, a) /\ a \in ChainSet(v.fat, a)
                                /\ \A x \in ChainSet(v.fat, a) : x \in Clusters /\ v.fat[x] # FREE
         /\ \A p \in DOMAIN v.tree : v.tree[p].start \in Owned(v)
<1>1. Owned(v) \subseteq Clusters
  BY PlaceFacts DEF VolInv
<1>2. \A a \in Owned(v) : Sound(v.fat, a)
  BY DEF VolInv, ChainsOK
<1>3. \A p \in DOMAIN v.tree : v.tree[p].start \in Owned(v)
  BY DEF Owned, Starts
<1> QED BY <1>1, <1>2, <1>3, ChainFacts, SoundUsed

\* What is left of ChainsOK when files leave, or entries are no longer read.
LEMMA ChainsLeft ==
  ASSUME NEW v, NEW w, VolInv(v), Owned(w) \subseteq Owned(v), Pending(w) \subseteq Pending(v),
         \A l \in Pending(w) : At(w, l) = At(v, l),
         \A a \in Owned(w) : \A x \in ChainSet(v.fat, a) : w.fat[x] = v.fat[x]
  PROVE  ChainsOK(w) /\ \A a \in Owned(w) : Chain(w.fat, a) = Chain(v.fat, a) /\ ChainSet(w.fat, a) = ChainSet(v.fat, a)
<1>1. \A a \in Owned(w) : a \in Clusters /\ Sound(v.fat, a)
  BY ChainSets
<1>2. \A a \in Owned(w) :
        /\ Sound(w.fat, a) /\ Chain(w.fat, a) = Chain(v.fat, a)
        /\ ChainSet(w.fat, a) = ChainSet(v.fat, a)
  BY <1>1, SoundSame
<1>3. ChainsOK(v)
  BY DEF VolInv
<1>4. \A l \in Pending(w) : At(w, l).start \in Owned(w)
  BY DEF Owned
<1>5. \A a, b \in Owned(w) : a # b => ChainSet(w.fat, a) \intersect ChainSet(w.fat, b) = {}
  BY <1>2, <1>3 DEF ChainsOK
<1>6. ASSUME NEW l \in Pending(w)
      PROVE  /\ At(w, l).size <= U * Len(Chain(w.fat, At(w, l).start))
             /\ \A m \in Pending(w) : At(w, l).start = At(w, m).start => l = m
  <2>1. At(w, l) = At(v, l) /\ l \in Pending(v) /\ \A m \in Pending(w) : At(w, m) = At(v, m) /\ m \in Pending(v)
    OBVIOUS
  <2>2. Chain(w.fat, At(w, l).start) = Chain(v.fat, At(v, l).start)
    BY <2>1, <1>2, <1>4
  <2> QED BY <2>1, <2>2, <1>3 DEF ChainsOK
<1> QED BY <1>2, <1>5, <1>6 DEF ChainsOK

-----------------------------------------------------------------------------
(* Entries are written and lost *)

\* The end mark and data are no entries.
LEMMA SlotFacts ==
  /\ ~IsEntry(End) /\ ~IsEntry(Junk) /\ Junk # End
  /\ \A e \in Entries : e # End /\ e # Junk
  /\ \A e \in Entries : IsEntry(e) <=> e.path \notin {Erased, Ruined, Leftover}
  /\ Leftovers \subseteq Entries /\ \A e \in Leftovers : ~IsEntry(e)
<1>1. \A e \in Entries : DOMAIN e = {"path", "dir", "start", "size"}
  BY DEF Entries
<1>2. DOMAIN End = {"path"} /\ DOMAIN Junk = {"path"}
  BY DEF End, Junk
<1>3. \A e \in Entries : e # End /\ e # Junk
  <2>1. TAKE e \in Entries
  <2>2. "dir" \in DOMAIN e /\ "dir" \notin DOMAIN End /\ "dir" \notin DOMAIN Junk
    BY <1>1, <1>2
  <2> QED BY <2>2
<1>4. Junk # End
  <2>1. End.path # Junk.path
    BY DEF End, Junk
  <2> QED BY <2>1
<1>5. \A e \in Leftovers : e \in Entries /\ e.path = Leftover
  BY DEF Leftovers, Entries
<1> QED BY <1>3, <1>4, <1>5 DEF IsEntry

\* A cluster with the data of a file.
FileCluster(v, c) ==
  \E p \in DOMAIN v.tree : ~v.tree[p].dentry.dir /\ c \in ChainSet(v.fat, v.tree[p].start)

\* It is of no directory, and has no entries.
LEMMA FileClusters ==
  ASSUME NEW v, VolInv(v), NEW c \in Clusters, FileCluster(v, c)
  PROVE  /\ \A d \in DOMAIN v.tree : v.tree[d].dentry.dir => v.tree[d].start # c
         /\ \A k \in 1..E : ~IsEntry(v.slots[c][k])
<1>1. PICK p \in DOMAIN v.tree : ~v.tree[p].dentry.dir /\ c \in ChainSet(v.fat, v.tree[p].start)
  BY DEF FileCluster
<1>2. \A d \in DOMAIN v.tree : v.tree[d].dentry.dir => v.tree[d].start # c
  <2>1. SUFFICES ASSUME NEW d \in DOMAIN v.tree, v.tree[d].dentry.dir, v.tree[d].start = c PROVE FALSE
    OBVIOUS
  <2>2. c \in ChainSet(v.fat, c) /\ c \in Owned(v) /\ v.tree[p].start \in Owned(v)
    BY <2>1, ChainSets
  <2>3. v.tree[p].start # c
    BY <1>1, <2>1 DEF VolInv, TreeOK
  <2> QED BY <1>1, <2>2, <2>3 DEF VolInv, ChainsOK
<1>3. c \notin ReadStarts(v)
  BY <1>2 DEF ReadStarts, VolInv, TreeOK
<1>4. ASSUME NEW k \in 1..E, IsEntry(v.slots[c][k]) PROVE FALSE
  <2> DEFINE l == <<c, k>>
  <2>1. l \in Places(v) /\ l[1] = c
    BY <1>3, <1>4, PlaceFacts DEF VolInv
  <2> HIDE DEF l
  <2>2. PlaceOK(v, l)
    BY <2>1 DEF VolInv, PlacesOK
  <2> QED BY <1>1, <2>1, <2>2 DEF PlaceOK
<1> QED BY <1>2, <1>4

\* Slots that lose their entries; an end mark comes only where a file's data are.
Loses(v, w) ==
  \A c \in Clusters, k \in 1..E :
    \/ w.slots[c][k] = v.slots[c][k]
    \/ ~IsEntry(w.slots[c][k]) /\ (w.slots[c][k] # End \/ FileCluster(v, c))

LEMMA SlotsLose ==
  ASSUME NEW v, NEW w, VolInv(v), VolType(w), w.fat = v.fat, w.tree = v.tree, Loses(v, w)
  PROVE  VolInv(w)
<1>1. ReadStarts(w) = ReadStarts(v) /\ Starts(w) = Starts(v)
  BY DEF ReadStarts, Starts
<1>2. \A l \in Places(w) : l \in Places(v) /\ At(w, l) = At(v, l)
  <2>1. TAKE l \in Places(w)
  <2>2. l[1] \in Clusters /\ l[2] \in 1..E /\ l = <<l[1], l[2]>> /\ IsEntry(At(w, l)) /\ l[1] \notin ReadStarts(v)
    BY <1>1, PlaceFacts
  <2>3. At(w, l) = At(v, l)
    BY <2>2 DEF At, Loses
  <2> QED BY <2>2, <2>3 DEF Places
<1>3. \A l \in Pending(w) : l \in Pending(v) /\ At(w, l) = At(v, l)
  BY <1>1, <1>2 DEF Pending
<1>4. Owned(w) \subseteq Owned(v)
  BY <1>1, <1>3 DEF Owned
<1>5. ChainsOK(w)
  BY <1>3, <1>4, ChainsLeft
<1>6. TreeOK(w)
  BY DEF VolInv, TreeOK
<1>7. PlacesOK(w)
  <2>1. SUFFICES ASSUME NEW l \in Places(w) PROVE PlaceOK(w, l)
    BY DEF PlacesOK
  <2>2. PlaceOK(v, l) /\ At(w, l) = At(v, l)
    BY <1>2 DEF VolInv, PlacesOK
  <2> QED BY <1>3, <2>2 DEF PlaceOK
<1>8. OwnPlaces(w)
  <2>1. SUFFICES ASSUME NEW l \in Places(w), NEW p \in DOMAIN w.tree PROVE OwnPlace(w, l, p)
    BY DEF OwnPlaces
  <2>2. OwnPlace(v, l, p) /\ At(w, l) = At(v, l)
    BY <1>2 DEF VolInv, OwnPlaces
  <2> QED BY <1>3, <2>2 DEF OwnPlace
<1>9. EndsOK(w)
  <2>1. \A c \in Clusters, k \in 1..E :
          /\ w.slots[c][k] = End => v.slots[c][k] = End \/ FileCluster(v, c)
          /\ IsEntry(w.slots[c][k]) => IsEntry(v.slots[c][k]) /\ ~FileCluster(v, c)
    BY SlotFacts, FileClusters DEF Loses
  <2>2. \A c \in Clusters, n \in Nat : n <= E /\ ~FileCluster(v, c) /\ NoEnd(v, c, n) => NoEnd(w, c, n)
    BY <2>1, FatAssumption DEF NoEnd
  <2>3. \A c \in Clusters, k \in 1..E : IsEntry(w.slots[c][k]) => NoEnd(w, c, k - 1)
    <3>1. TAKE c \in Clusters, k \in 1..E
    <3>2. k - 1 \in Nat /\ k - 1 <= E
      BY FatAssumption
    <3>3. IsEntry(v.slots[c][k]) => NoEnd(v, c, k - 1)
      BY DEF VolInv, EndsOK
    <3> QED BY <2>1, <2>2, <3>2, <3>3
  <2>4. ASSUME NEW p \in DOMAIN w.tree
        PROVE  /\ w.tree[p].dentry.dir => NoEnd(w, w.tree[p].start, w.tree[p].nentries)
               /\ p # Root => NoEnd(w, w.tree[ParentOf[p]].start, w.tree[p].pos)
    <3>1. /\ v.tree[p].dentry.dir => NoEnd(v, v.tree[p].start, v.tree[p].nentries)
          /\ p # Root => NoEnd(v, v.tree[ParentOf[p]].start, v.tree[p].pos)
      BY DEF VolInv, EndsOK
    <3>2. v.tree[p].start \in Clusters /\ v.tree[p].nentries \in 0..E /\ v.tree[p].pos \in 0..(E - 1)
      BY VolFacts DEF VolInv
    <3>3. p # Root => v.tree[ParentOf[p]].start \in Clusters
      BY VolFacts DEF VolInv, TreeOK
    <3>4. v.tree[p].dentry.dir => ~FileCluster(v, v.tree[p].start)
      BY <3>2, FileClusters
    <3>5. p # Root => ~FileCluster(v, v.tree[ParentOf[p]].start)
      BY <3>3, FileClusters DEF VolInv, TreeOK
    <3>6. v.tree[p].nentries \in Nat /\ v.tree[p].nentries <= E /\ v.tree[p].pos \in Nat /\ v.tree[p].pos <= E
      BY <3>2, FatAssumption
    <3> QED BY <2>2, <3>1, <3>2, <3>3, <3>4, <3>5, <3>6
  <2> QED BY <2>3, <2>4 DEF EndsOK
<1> QED BY <1>5, <1>6, <1>7, <1>8, <1>9 DEF VolInv

\* What the tree says of a file changes, but for its place and its clusters.
LEMMA TreeChanges ==
  ASSUME NEW v, NEW w, VolInv(v), VolType(w), w.fat = v.fat, w.slots = v.slots,
         DOMAIN w.tree = DOMAIN v.tree, TreeOK(w),
         \A q \in DOMAIN v.tree :
           /\ w.tree[q].start = v.tree[q].start /\ w.tree[q].pos = v.tree[q].pos
           /\ w.tree[q].nentries = v.tree[q].nentries /\ w.tree[q].read = v.tree[q].read
           /\ w.tree[q].dentry.dir = v.tree[q].dentry.dir
  PROVE  VolInv(w)
<1>1. ReadStarts(w) = ReadStarts(v) /\ Starts(w) = Starts(v)
  BY DEF ReadStarts, Starts
<1>2. \A l : At(w, l) = At(v, l)
  BY DEF At
<1>3. Places(w) = Places(v)
  BY <1>1, <1>2 DEF Places
<1>4. Pending(w) = Pending(v)
  BY <1>1, <1>2, <1>3 DEF Pending
<1>5. Owned(w) = Owned(v)
  BY <1>1, <1>2, <1>4 DEF Owned
<1>6. ChainsOK(w)
  BY <1>2, <1>4, <1>5, ChainsLeft
<1>7. PlacesOK(w)
  <2>1. SUFFICES ASSUME NEW l \in Places(w) PROVE PlaceOK(w, l)
    BY DEF PlacesOK
  <2>2. PlaceOK(v, l)
    BY <1>3 DEF VolInv, PlacesOK
  <2> QED BY <1>2, <1>4, <2>2 DEF PlaceOK
<1>8. \A p \in DOMAIN v.tree : p # Root => ParentOf[p] \in DOMAIN v.tree
  BY DEF VolInv, TreeOK
<1>9. OwnPlaces(w)
  <2>1. SUFFICES ASSUME NEW l \in Places(w), NEW p \in DOMAIN w.tree PROVE OwnPlace(w, l, p)
    BY DEF OwnPlaces
  <2>2. OwnPlace(v, l, p)
    BY <1>3 DEF VolInv, OwnPlaces
  <2> QED BY <1>2, <1>4, <1>8, <2>2 DEF OwnPlace
<1>10. EndsOK(w)
  <2>1. EndsOK(v)
    BY DEF VolInv
  <2> QED BY <1>8, <2>1 DEF EndsOK, NoEnd
<1> QED BY <1>6, <1>7, <1>9, <1>10 DEF VolInv

\* A directory with no end mark gets none.
LEMMA NoEndKept ==
  ASSUME NEW v, NEW w, \A c \in Clusters, k \in 1..E : w.slots[c][k] = End => v.slots[c][k] = End,
         NEW c \in Clusters, NEW n \in Nat, n <= E, NoEnd(v, c, n)
  PROVE  NoEnd(w, c, n)
<1>1. \A j \in 1..n : j \in 1..E
  BY FatAssumption
<1> QED BY <1>1 DEF NoEnd

\* An entry is put in a slot, and a unit of a cluster is no longer a file's data.
EntryPut(v, w, b, k, e) ==
  \A c \in Clusters, j \in 1..E : w.slots[c][j] = IF c = b /\ j = k THEN e ELSE v.slots[c][j]
UnitLost(v, w, b, k) ==
  \A c \in Clusters, j \in 1..U : w.data[c][j] = IF c = b /\ j = k THEN Stale ELSE v.data[c][j]

\* A file's own entry is written.
LEMMA OwnEntryWritten ==
  ASSUME NEW v, NEW w, VolInv(v), VolType(w), w.fat = v.fat, w.tree = v.tree,
         NEW p \in DOMAIN v.tree \ {Root},
         EntryPut(v, w, v.tree[ParentOf[p]].start, v.tree[p].pos + 1, v.tree[p].dentry)
  PROVE  VolInv(w)
<1> DEFINE b == v.tree[ParentOf[p]].start
           k == v.tree[p].pos + 1
           e == v.tree[p].dentry
<1>1. /\ p \in Paths /\ e \in Entries /\ e.start = v.tree[p].start
      /\ ParentOf[p] \in DOMAIN v.tree /\ v.tree[ParentOf[p]].dentry.dir
      /\ IsEntry(e) => PathIn(e) = p
      /\ e.dir => p \in Dirs
  BY VolFacts DEF VolInv, TreeOK
<1>2. b \in Clusters /\ k \in 1..E /\ k - 1 = v.tree[p].pos /\ k \in Nat
  <2>1. b \in Clusters /\ v.tree[p].pos \in 0..(E - 1)
    BY <1>1, VolFacts DEF VolInv
  <2> QED BY <2>1, FatAssumption
<1>3. v.slots \in [Clusters -> [1..E -> Slot]]
  BY VolFacts DEF VolInv
<1>4. \A c \in Clusters, j \in 1..E : w.slots[c][j] = IF c = b /\ j = k THEN e ELSE v.slots[c][j]
  BY DEF EntryPut
<1> HIDE DEF k, e
<1>5. CASE ~IsEntry(e)
  <2>1. e # End
    BY <1>1, SlotFacts
  <2>2. Loses(v, w)
    BY <1>4, <1>5, <2>1 DEF Loses
  <2> QED BY <2>2, SlotsLose
<1>6. CASE IsEntry(e)
  <2> DEFINE here == <<b, k>>
  <2>1. ReadStarts(w) = ReadStarts(v) /\ Starts(w) = Starts(v)
    BY DEF ReadStarts, Starts
  <2>2. \A l \in Places(w) : \/ l = here /\ At(w, l) = e
                             \/ l # here /\ l \in Places(v) /\ At(w, l) = At(v, l)
    <3>1. TAKE l \in Places(w)
    <3>2. l[1] \in Clusters /\ l[2] \in 1..E /\ l = <<l[1], l[2]>> /\ IsEntry(At(w, l)) /\ l[1] \notin ReadStarts(v)
      BY <2>1, PlaceFacts
    <3>3. CASE l[1] = b /\ l[2] = k
      <4>1. At(w, l) = e
        BY <1>4, <3>2, <3>3 DEF At
      <4>2. l = here
        BY <3>2, <3>3
      <4> QED BY <4>1, <4>2
    <3>4. CASE ~(l[1] = b /\ l[2] = k)
      <4>1. At(w, l) = At(v, l)
        BY <1>4, <3>2, <3>4 DEF At
      <4>2. l # here
        BY <3>4
      <4> QED BY <3>2, <4>1, <4>2 DEF Places
    <3> QED BY <3>3, <3>4
  <2>3. e.start \in Starts(v) /\ e.start \in Owned(v)
    BY <1>1 DEF Starts, Owned
  <2>4. \A l \in Pending(w) : l # here /\ l \in Pending(v) /\ At(w, l) = At(v, l)
    BY <2>1, <2>2, <2>3 DEF Pending
  <2>5. Owned(w) \subseteq Owned(v)
    BY <2>1, <2>4 DEF Owned
  <2>6. ChainsOK(w)
    BY <2>4, <2>5, ChainsLeft
  <2>7. TreeOK(w)
    BY DEF VolInv, TreeOK
  <2>8. PathIn(e) = p /\ p # Root /\ b \in Owned(v) /\ b \in Starts(v)
    BY <1>1, <1>6 DEF Owned, Starts
  <2>9. \A q \in DOMAIN v.tree : b \in ChainSet(v.fat, v.tree[q].start) => q = ParentOf[p]
    <3>1. TAKE q \in DOMAIN v.tree
    <3>2. v.tree[q].start \in Owned(v) /\ b \in ChainSet(v.fat, b)
      BY <2>8, ChainSets
    <3>3. b \in ChainSet(v.fat, v.tree[q].start) => v.tree[q].start = b
      BY <2>8, <3>2 DEF VolInv, ChainsOK
    <3> QED BY <1>1, <3>3 DEF VolInv, TreeOK
  <2>10. \A m \in Pending(v) : b \notin ChainSet(v.fat, At(v, m).start)
    <3>1. TAKE m \in Pending(v)
    <3>2. At(v, m).start \in Owned(v) /\ At(v, m).start # b /\ b \in ChainSet(v.fat, b)
      BY <2>8, ChainSets DEF Owned, Pending
    <3> QED BY <2>8, <3>2 DEF VolInv, ChainsOK
  <2>11. PlacesOK(w)
    <3>1. SUFFICES ASSUME NEW l \in Places(w) PROVE PlaceOK(w, l)
      BY DEF PlacesOK
    <3>2. CASE l = here
      <4>1. l[1] = b /\ At(w, l) = e
        BY <2>2, <3>2
      <4>2. w.fat[b] # FREE
        BY <2>8, ChainSets
      <4> QED BY <1>1, <2>4, <2>8, <2>9, <2>10, <4>1, <4>2 DEF PlaceOK
    <3>3. CASE l # here
      <4>1. PlaceOK(v, l) /\ At(w, l) = At(v, l)
        BY <2>2, <3>3 DEF VolInv, PlacesOK
      <4> QED BY <2>4, <4>1 DEF PlaceOK
    <3> QED BY <3>2, <3>3
  <2>12. OwnPlaces(w)
    <3>1. SUFFICES ASSUME NEW l \in Places(w), NEW q \in DOMAIN w.tree PROVE OwnPlace(w, l, q)
      BY DEF OwnPlaces
    <3>2. CASE l = here
      <4>1. l[1] = b /\ l[2] = k /\ At(w, l) = e
        BY <2>2, <3>2
      <4>2. e.start = v.tree[q].start => q = p
        BY <1>1 DEF VolInv, TreeOK
      <4> QED BY <2>4, <2>8, <3>2, <4>1, <4>2 DEF OwnPlace, k
    <3>3. CASE l # here
      <4>1. OwnPlace(v, l, q) /\ At(w, l) = At(v, l)
        BY <2>2, <3>3 DEF VolInv, OwnPlaces
      <4> QED BY <2>4, <4>1 DEF OwnPlace
    <3> QED BY <3>2, <3>3
  <2>13. EndsOK(w)
    <3>1. \A c \in Clusters, n \in Nat : n <= E /\ NoEnd(v, c, n) => NoEnd(w, c, n)
      <4>1. e # End
        BY <1>1, SlotFacts
      <4> QED BY <1>4, <4>1, NoEndKept
    <3>2. \A c \in Clusters, j \in 1..E : IsEntry(w.slots[c][j]) => NoEnd(w, c, j - 1)
      <4>1. TAKE c \in Clusters, j \in 1..E
      <4>2. j - 1 \in Nat /\ j - 1 <= E
        BY FatAssumption
      <4>3. CASE c = b /\ j = k
        <5>1. NoEnd(v, b, k - 1)
          BY <1>2 DEF VolInv, EndsOK
        <5> QED BY <3>1, <4>2, <4>3, <5>1
      <4>4. CASE ~(c = b /\ j = k)
        <5>1. IsEntry(v.slots[c][j]) => NoEnd(v, c, j - 1)
          BY DEF VolInv, EndsOK
        <5> QED BY <1>4, <3>1, <4>2, <4>4, <5>1
      <4> QED BY <4>3, <4>4
    <3>3. ASSUME NEW q \in DOMAIN w.tree
          PROVE  /\ (w.tree[q].dentry.dir => NoEnd(w, w.tree[q].start, w.tree[q].nentries))
                 /\ q # Root => NoEnd(w, w.tree[ParentOf[q]].start, w.tree[q].pos)
      <4>1. /\ (v.tree[q].dentry.dir => NoEnd(v, v.tree[q].start, v.tree[q].nentries))
            /\ q # Root => NoEnd(v, v.tree[ParentOf[q]].start, v.tree[q].pos)
        BY DEF VolInv, EndsOK
      <4>2. v.tree[q].start \in Clusters /\ v.tree[q].nentries \in 0..E /\ v.tree[q].pos \in 0..(E - 1)
        BY VolFacts DEF VolInv
      <4>3. q # Root => v.tree[ParentOf[q]].start \in Clusters
        BY VolFacts DEF VolInv, TreeOK
      <4> QED BY <3>1, <4>1, <4>2, <4>3, FatAssumption
    <3> QED BY <3>2, <3>3 DEF EndsOK
  <2> QED BY <2>6, <2>7, <2>11, <2>12, <2>13 DEF VolInv
<1> QED BY <1>5, <1>6

\* write_dir_entry() puts the entry in its slot, if the cluster has the slot.
NotWritten(v, w) ==
  VolType(w) /\ w.fat = v.fat /\ w.tree = v.tree /\ w.slots = v.slots /\ w.data = v.data /\ w.failed = TRUE

\* A slot past the cluster is not written: errno is set.
LEMMA EntryNotWritten ==
  ASSUME NEW v, VolType(v), NEW dir, NEW entry, NEW slot, slot >= E, NEW w, w = WriteEntry(v, dir, entry, slot)
  PROVE  NotWritten(v, w)
<1>1. v = [fat |-> v.fat, slots |-> v.slots, data |-> v.data, tree |-> v.tree, failed |-> v.failed]
  BY DEF VolType
<1>2. w = [v EXCEPT !.failed = TRUE]
  BY DEF WriteEntry
<1>3. w = [fat |-> v.fat, slots |-> v.slots, data |-> v.data, tree |-> v.tree, failed |-> TRUE]
  BY <1>1, <1>2
<1>4. w.fat = v.fat /\ w.slots = v.slots /\ w.data = v.data /\ w.tree = v.tree /\ w.failed = TRUE
  BY <1>3
<1>5. VolType(w)
  BY <1>3, <1>4, VolFacts, VolMake
<1> QED BY <1>4, <1>5 DEF NotWritten

\* A slot of the cluster is written, and one unit of its data is lost.
LEMMA EntryWritten ==
  ASSUME NEW v, VolType(v), NEW dir \in DOMAIN v.tree, NEW entry \in Entries, NEW slot \in 0..E, slot < E, NEW w,
         w = WriteEntry(v, dir, entry, slot)
  PROVE  /\ VolType(w) /\ w.fat = v.fat /\ w.tree = v.tree /\ w.failed = v.failed
         /\ EntryPut(v, w, v.tree[dir].start, slot + 1, entry)
         /\ UnitLost(v, w, v.tree[dir].start, UnitOf(slot + 1))
<1> DEFINE c == v.tree[dir].start
           j == UnitOf(slot + 1)
           s == [v.slots EXCEPT ![c][slot + 1] = entry]
           d == [v.data EXCEPT ![c][j] = Stale]
<1>1. /\ v.slots \in [Clusters -> [1..E -> Slot]] /\ v.data \in [Clusters -> [1..U -> Units]]
      /\ c \in Clusters
  BY VolFacts
<1>2. v = [fat |-> v.fat, slots |-> v.slots, data |-> v.data, tree |-> v.tree, failed |-> v.failed]
  BY DEF VolType
<1>3. w = [v EXCEPT !.slots = s, !.data = d]
  BY FatAssumption DEF WriteEntry
<1> HIDE DEF s, d, j
<1>4. w = [fat |-> v.fat, slots |-> s, data |-> d, tree |-> v.tree, failed |-> v.failed]
  BY <1>2, <1>3
<1> HIDE DEF c
<1>5. w.fat = v.fat /\ w.tree = v.tree /\ w.failed = v.failed /\ w.slots = s /\ w.data = d
  BY <1>4
<1>6. v.slots[c] \in [1..E -> Slot] /\ entry \in Slot /\ v.data[c] \in [1..U -> Units] /\ Stale \in Units
  BY <1>1 DEF Slot, Units
<1>7. [v.slots[c] EXCEPT ![slot + 1] = entry] \in [1..E -> Slot]
  BY <1>6
<1>8. s = [v.slots EXCEPT ![c] = [v.slots[c] EXCEPT ![slot + 1] = entry]]
  BY DEF s
<1>9. s \in [Clusters -> [1..E -> Slot]] /\ s[c] = [v.slots[c] EXCEPT ![slot + 1] = entry]
      /\ \A x \in Clusters : x # c => s[x] = v.slots[x]
  BY <1>1, <1>7, <1>8
<1>10. [v.data[c] EXCEPT ![j] = Stale] \in [1..U -> Units]
  BY <1>6
<1>11. d = [v.data EXCEPT ![c] = [v.data[c] EXCEPT ![j] = Stale]]
  BY DEF d
<1>12. d \in [Clusters -> [1..U -> Units]] /\ d[c] = [v.data[c] EXCEPT ![j] = Stale]
       /\ \A x \in Clusters : x # c => d[x] = v.data[x]
  BY <1>1, <1>10, <1>11
<1>13. VolType(w)
  BY <1>4, <1>5, <1>9, <1>12, VolFacts, VolMake
<1>14. \A x \in Clusters, k \in 1..E : s[x][k] = IF x = c /\ k = slot + 1 THEN entry ELSE v.slots[x][k]
  BY <1>6, <1>9
<1>15. \A x \in Clusters, k \in 1..U : d[x][k] = IF x = c /\ k = j THEN Stale ELSE v.data[x][k]
  BY <1>6, <1>12
<1>16. EntryPut(v, w, c, slot + 1, entry) /\ UnitLost(v, w, c, j)
  BY <1>5, <1>14, <1>15 DEF EntryPut, UnitLost
<1> QED BY <1>5, <1>13, <1>16 DEF c, j

\* errno is set or cleared.
Errno(v, b) == [v EXCEPT !.failed = b]

\* Only errno changes.
LEMMA ErrnoInv ==
  ASSUME NEW v, NEW b \in BOOLEAN, NEW w, w = Errno(v, b), VolType(v)
  PROVE  /\ VolType(w) /\ w.fat = v.fat /\ w.tree = v.tree /\ w.slots = v.slots /\ w.data = v.data /\ w.failed = b
         /\ VolInv(v) => VolInv(w)
<1>1. v = [fat |-> v.fat, slots |-> v.slots, data |-> v.data, tree |-> v.tree, failed |-> v.failed]
  BY DEF VolType
<1>2. w = [fat |-> v.fat, slots |-> v.slots, data |-> v.data, tree |-> v.tree, failed |-> b]
  BY <1>1 DEF Errno
<1>4. /\ w.fat = v.fat /\ w.tree = v.tree /\ w.slots = v.slots /\ w.data = v.data /\ w.failed = b
  BY <1>2
<1>3. VolType(w)
  <2>1. w = [fat |-> w.fat, slots |-> w.slots, data |-> w.data, tree |-> w.tree, failed |-> w.failed]
    BY <1>2, <1>4
  <2> QED BY <1>4, <2>1, VolFacts, VolMake
<1>5. TreeOK(v) => TreeOK(w)
  BY <1>4 DEF TreeOK
<1>6. VolInv(v) => VolInv(w)
  BY <1>3, <1>4, <1>5, TreeChanges DEF VolInv
<1> QED BY <1>3, <1>4, <1>6

\* write_dir_entry() of a file's own entry.
LEMMA WriteOwnInv ==
  ASSUME NEW v, VolInv(v), NEW p \in DOMAIN v.tree \ {Root}, NEW w, w = WriteOwnEntry(v, p)
  PROVE  /\ VolInv(w) /\ w.fat = v.fat /\ w.tree = v.tree /\ w.failed = v.failed
         /\ \A c \in Clusters, j \in 1..U :
              w.data[c][j] = v.data[c][j] \/ c = v.tree[ParentOf[p]].start
<1>1. /\ ParentOf[p] \in DOMAIN v.tree /\ v.tree[p].dentry \in Entries
      /\ v.tree[p].pos \in 0..(E - 1) /\ VolType(v)
  BY VolFacts DEF VolInv, TreeOK
<1>2. v.tree[p].pos \in 0..E /\ v.tree[p].pos < E
  BY <1>1, FatAssumption
<1>3. /\ VolType(w) /\ w.fat = v.fat /\ w.tree = v.tree /\ w.failed = v.failed
      /\ EntryPut(v, w, v.tree[ParentOf[p]].start, v.tree[p].pos + 1, v.tree[p].dentry)
      /\ UnitLost(v, w, v.tree[ParentOf[p]].start, UnitOf(v.tree[p].pos + 1))
  <2> DEFINE d == ParentOf[p]
             e == v.tree[p].dentry
             k == v.tree[p].pos
  <2>1. w = WriteEntry(v, d, e, k)
    BY DEF WriteOwnEntry
  <2>2. d \in DOMAIN v.tree /\ e \in Entries /\ k \in 0..E /\ k < E /\ VolType(v)
    BY <1>1, <1>2
  <2> HIDE DEF d, e, k
  <2>3. /\ VolType(w) /\ w.fat = v.fat /\ w.tree = v.tree /\ w.failed = v.failed
        /\ EntryPut(v, w, v.tree[d].start, k + 1, e)
        /\ UnitLost(v, w, v.tree[d].start, UnitOf(k + 1))
    BY <2>1, <2>2, EntryWritten
  <2> QED BY <2>3 DEF d, e, k
<1>4. VolInv(w)
  BY <1>3, OwnEntryWritten
<1> QED BY <1>3, <1>4 DEF UnitLost

-----------------------------------------------------------------------------
(* Data are written *)

\* The same files at the same places, with the same clusters.
SameFiles(v, w) ==
  /\ DOMAIN w.tree = DOMAIN v.tree
  /\ \A q \in DOMAIN v.tree :
       /\ w.tree[q].start = v.tree[q].start /\ w.tree[q].pos = v.tree[q].pos
       /\ w.tree[q].nentries = v.tree[q].nentries /\ w.tree[q].read = v.tree[q].read
       /\ w.tree[q].dentry.dir = v.tree[q].dentry.dir

\* The data and the size of a file change.
Resize(v, p, m, s, d) == [v EXCEPT !.data = d, !.slots = s, !.tree[p].dentry.size = m]

\* A file's size changes, within its clusters, and entries are lost to data.
LEMMA Resized ==
  ASSUME NEW v, VolInv(v), NEW p \in DOMAIN v.tree, NEW m \in Nat,
         m <= U * Len(Chain(v.fat, v.tree[p].start)),
         NEW s \in [Clusters -> [1..E -> Slot]], NEW d \in [Clusters -> [1..U -> Units]],
         \A c \in Clusters, k \in 1..E :
           s[c][k] = v.slots[c][k] \/ (~IsEntry(s[c][k]) /\ FileCluster(v, c)),
         NEW w, w = Resize(v, p, m, s, d)
  PROVE  /\ VolInv(w) /\ w.fat = v.fat /\ w.slots = s /\ w.data = d /\ w.failed = v.failed
         /\ SameFiles(v, w) /\ w.tree[p].dentry.size = m /\ w.tree[p].dentry.path = v.tree[p].dentry.path
         /\ \A q \in DOMAIN v.tree : q # p => w.tree[q] = v.tree[q]
<1> DEFINE e == [v.tree[p].dentry EXCEPT !.size = m]
           t == [v.tree EXCEPT ![p].dentry.size = m]
           x == [fat |-> v.fat, slots |-> s, data |-> d, tree |-> v.tree, failed |-> v.failed]
<1>1. /\ v.fat \in [Clusters -> Clusters \union {FREE, EOC}]
      /\ v.tree \in [DOMAIN v.tree -> FileType] /\ DOMAIN v.tree \subseteq Paths /\ Root \in DOMAIN v.tree
      /\ v.failed \in BOOLEAN /\ v.tree[p] \in FileType /\ v.tree[p].dentry \in Entries
  BY VolFacts DEF VolInv
<1>2. v = [fat |-> v.fat, slots |-> v.slots, data |-> v.data, tree |-> v.tree, failed |-> v.failed]
  BY DEF VolInv, VolType
<1>4. x.fat = v.fat /\ x.slots = s /\ x.data = d /\ x.tree = v.tree /\ x.failed = v.failed
  OBVIOUS
<1>3. x = [fat |-> x.fat, slots |-> x.slots, data |-> x.data, tree |-> x.tree, failed |-> x.failed]
  OBVIOUS
<1> HIDE DEF x
<1>5. VolType(x)
  BY <1>1, <1>3, <1>4, VolMake
<1>6. VolInv(x)
  <2>1. Loses(v, x)
    BY <1>4 DEF Loses
  <2> QED BY <1>4, <1>5, <2>1, SlotsLose
<1>7. w = [fat |-> v.fat, slots |-> s, data |-> d, tree |-> t, failed |-> v.failed]
  BY <1>2 DEF Resize
<1> HIDE DEF t
<1> HIDE DEF e
<1>8. w.fat = v.fat /\ w.slots = s /\ w.data = d /\ w.tree = t /\ w.failed = v.failed
  BY ONLY <1>7
<1> USE DEF e
<1>9. e \in Entries /\ e.start = v.tree[p].dentry.start /\ e.dir = v.tree[p].dentry.dir
      /\ e.path = v.tree[p].dentry.path /\ e.size = m
  BY <1>1 DEF Entries
<1> HIDE DEF e
<1>10. t = [v.tree EXCEPT ![p] = [v.tree[p] EXCEPT !.dentry = e]]
  BY DEF t, e
<1>11. [v.tree[p] EXCEPT !.dentry = e] \in FileType
  BY <1>1, <1>9 DEF FileType
<1>12. /\ DOMAIN t = DOMAIN v.tree /\ t \in [DOMAIN t -> FileType]
       /\ \A q \in DOMAIN v.tree : q # p => t[q] = v.tree[q]
       /\ t[p] = [v.tree[p] EXCEPT !.dentry = e]
  BY <1>1, <1>10, <1>11
<1>13. /\ t[p].dentry = e /\ t[p].start = v.tree[p].start /\ t[p].pos = v.tree[p].pos
       /\ t[p].nentries = v.tree[p].nentries /\ t[p].read = v.tree[p].read
  BY <1>1, <1>12 DEF FileType
<1>14. VolType(w)
  BY <1>1, <1>7, <1>8, <1>12, VolMake
<1>15. SameFiles(v, w)
  BY <1>8, <1>9, <1>12, <1>13 DEF SameFiles
<1>16. IsEntry(e) => IsEntry(v.tree[p].dentry)
  BY <1>1, <1>9, SlotFacts
<1>17. PathIn(e) = PathIn(v.tree[p].dentry)
  BY <1>9 DEF PathIn
<1>18. TreeOK(w)
  <2>1. ASSUME NEW q \in DOMAIN v.tree
        PROVE  /\ t[q].dentry.start = t[q].start
               /\ IsEntry(t[q].dentry) => PathIn(t[q].dentry) = q
               /\ t[q].dentry.dir => q \in Dirs
               /\ t[q].read => t[q].dentry.dir
               /\ t[q].dentry.size <= U * Len(Chain(v.fat, t[q].start))
               /\ q # Root => ParentOf[q] \in DOMAIN t /\ t[ParentOf[q]].dentry.dir
               /\ \A r \in DOMAIN t : t[q].start = t[r].start => q = r
    <3>2. TreeOK(v)
      BY DEF VolInv
    <3>3. \A r \in DOMAIN v.tree : t[r].start = v.tree[r].start /\ t[r].dentry.dir = v.tree[r].dentry.dir
      BY <1>9, <1>12, <1>13
    <3>4. q # Root => ParentOf[q] \in DOMAIN t /\ t[ParentOf[q]].dentry.dir
      BY <1>12, <3>2, <3>3 DEF TreeOK
    <3>5. \A r \in DOMAIN t : t[q].start = t[r].start => q = r
      BY <1>12, <3>2, <3>3 DEF TreeOK
    <3>6. CASE q = p
      BY <1>9, <1>13, <1>16, <1>17, <3>2, <3>4, <3>5, <3>6 DEF TreeOK
    <3>7. CASE q # p
      BY <1>12, <3>2, <3>4, <3>5, <3>7 DEF TreeOK
    <3> QED BY <3>6, <3>7
  <2>2. DOMAIN w.tree = DOMAIN t /\ \A q \in DOMAIN t : w.tree[q] = t[q]
    BY <1>8
  <2>3. DOMAIN t = DOMAIN v.tree /\ w.fat = v.fat
    BY <1>8, <1>12
  <2> QED BY ONLY <2>1, <2>2, <2>3 DEF TreeOK
<1>19. VolInv(w)
  <2>1. /\ w.fat = x.fat /\ w.slots = x.slots /\ DOMAIN w.tree = DOMAIN x.tree
        /\ \A q \in DOMAIN x.tree :
             /\ w.tree[q].start = x.tree[q].start /\ w.tree[q].pos = x.tree[q].pos
             /\ w.tree[q].nentries = x.tree[q].nentries /\ w.tree[q].read = x.tree[q].read
             /\ w.tree[q].dentry.dir = x.tree[q].dentry.dir
    BY <1>4, <1>8, <1>15 DEF SameFiles
  <2> QED BY ONLY <1>6, <1>14, <1>18, <2>1, TreeChanges
<1> QED BY <1>8, <1>9, <1>12, <1>13, <1>15, <1>19

\* Which of n units from off on are put in unit j of cluster c.
Lands(s, off, n, c, j) ==
  {i \in 1..n : s[((off + i - 1) \div U) + 1] = c /\ (off + i - 1) % U = j - 1}

\* The data of a file, and what they overwrite, before its entry is written.
Wrote(v, x, p, off, vals, n) ==
  /\ VolInv(x) /\ x.fat = v.fat /\ SameFiles(v, x)
  /\ x.tree[p].dentry.path = v.tree[p].dentry.path
  /\ \A q \in DOMAIN v.tree : q # p => x.tree[q] = v.tree[q]
  /\ n \in 0..Len(vals) /\ off <= v.tree[p].dentry.size
  /\ n = Len(vals) \/ off + n >= U * Len(Chain(v.fat, v.tree[p].start))
  /\ off + n <= U * Len(Chain(v.fat, v.tree[p].start))
  /\ x.tree[p].dentry.size = IF off + n > v.tree[p].dentry.size THEN off + n ELSE v.tree[p].dentry.size
  /\ \A c \in Clusters, j \in 1..U :
       LET landed == Lands(Chain(v.fat, v.tree[p].start), off, n, c, j) IN
         x.data[c][j] = IF landed = {} THEN v.data[c][j] ELSE vals[CHOOSE i \in landed : TRUE]

\* Nothing but errno changes.
SameVolume(v, w) ==
  VolInv(w) /\ w.fat = v.fat /\ w.tree = v.tree /\ w.data = v.data

\* What is written to files.
Writable == Values \union {LogRecord}

\* The slots of a unit that was written.
LEMMA ReadAsFacts ==
  ASSUME NEW k \in 1..E, NEW x \in Writable
  PROVE  ReadAs[x][PlaceIn(k)] \in Slot /\ ~IsEntry(ReadAs[x][PlaceIn(k)])
<1> DEFINE q == E \div U
<1>1. q \in Nat \ {0}
  <2>1. E = U * q + (E % U) /\ E % U = 0 /\ q \in Int /\ U \in Nat \ {0} /\ E \in Nat \ {0}
    BY FatAssumption
  <2>2. q \in Nat
    BY FatAssumption
  <2>3. q # 0
    BY <2>1
  <2> QED BY <2>2, <2>3
<1>2. ReadAs[x] \in [1..q -> Leftovers \union {End, Junk}]
  BY FatAssumption DEF Writable
<1> HIDE DEF q
<1>3. (k - 1) % q \in 0..(q - 1)
  BY <1>1, FatAssumption
<1>4. PlaceIn(k) \in 1..q
  BY <1>1, <1>3 DEF PlaceIn, q
<1> QED BY <1>2, <1>4, SlotFacts DEF Slot

\* fat_file_pwrite() writes as much as fits, then the file's entry, or fails.
LEMMA PwriteSteps ==
  ASSUME NEW v, VolInv(v), NEW p \in DOMAIN v.tree \ {Root}, ~v.tree[p].dentry.dir,
         NEW off \in Nat, NEW vals \in Seq(Writable), NEW w, w = Pwrite(v, p, off, vals)
  PROVE  LET n == PwriteAnswer(v, p, off, vals) IN
           \/ SameVolume(v, w) /\ n = 0
           \/ \E x : Wrote(v, x, p, off, vals, n) /\ w = WriteOwnEntry(x, p)
<1> DEFINE clusters == Chain(v.fat, v.tree[p].start)
           room == Room(v, p, off)
           n == Fits(v, p, off, vals)
           written(c, j) == {i \in 1..n : clusters[((off + i - 1) \div U) + 1] = c /\ (off + i - 1) % U = j - 1}
           put(c, j) == IF written(c, j) = {} THEN v.data[c][j] ELSE vals[CHOOSE i \in written(c, j) : TRUE]
           keep(c, k) == IF written(c, UnitOf(k)) = {} THEN v.slots[c][k]
                         ELSE ReadAs[put(c, UnitOf(k))][PlaceIn(k)]
           d == [c \in Clusters |-> [j \in 1..U |-> put(c, j)]]
           s == [c \in Clusters |-> [k \in 1..E |-> keep(c, k)]]
           size == v.tree[p].dentry.size
           m == IF off + n > size THEN off + n ELSE size
           x == [v EXCEPT !.data = d, !.slots = s, !.tree[p].dentry.size = m]
<1>1. /\ v.slots \in [Clusters -> [1..E -> Slot]] /\ v.data \in [Clusters -> [1..U -> Units]]
      /\ v.tree[p].start \in Clusters /\ v.tree[p].dentry \in Entries /\ VolType(v)
  BY VolFacts DEF VolInv
<1>2. size \in Nat /\ size <= U * Len(clusters) /\ Len(clusters) \in Nat
  BY <1>1, ChainFacts DEF VolInv, TreeOK, Entries
<1>3. vals \in Seq(Units)
  BY DEF Writable, Units
<1>7. PastEnd(v, p, off) <=> off > size \/ off \div U > Len(clusters)
  BY DEF PastEnd
<1>4. CASE PastEnd(v, p, off)
  <2> DEFINE b == TRUE
  <2>1. b \in BOOLEAN /\ w = Errno(v, b) /\ PwriteAnswer(v, p, off, vals) = 0
    BY <1>4 DEF Pwrite, PwriteAnswer, Errno
  <2> HIDE DEF b
  <2>2. /\ VolType(w) /\ w.fat = v.fat /\ w.tree = v.tree /\ w.data = v.data /\ VolInv(w)
    BY <1>1, <2>1, ErrnoInv
  <2> QED BY <2>1, <2>2 DEF SameVolume
<1>5. CASE ~PastEnd(v, p, off) /\ v.failed
  <2>1. w = v /\ PwriteAnswer(v, p, off, vals) = 0
    BY <1>5 DEF Pwrite, PwriteAnswer
  <2> QED BY <2>1 DEF SameVolume
<1>6. CASE ~PastEnd(v, p, off) /\ ~v.failed
  <2>1. w = WriteOwnEntry(x, p)
    BY <1>6, Zenon DEF Pwrite
  <2>17. PwriteAnswer(v, p, off, vals) = n
    BY <1>6 DEF PwriteAnswer
  <2>2. room \in Nat /\ room = U * Len(clusters) - off
    <3> DEFINE len == U * Len(clusters)
    <3>1. len \in Nat
      BY <1>2, FatAssumption
    <3>3. room = AtLeast(0, len - off)
      BY DEF Room
    <3> HIDE DEF len
    <3>2. off <= len
      BY <1>2, <1>6, <1>7, <3>1 DEF len
    <3> HIDE DEF room
    <3>4. room \in Nat /\ room = len - off
      BY <3>1, <3>2, <3>3 DEF AtLeast
    <3> QED BY <3>4 DEF len
  <2>18. n = IF Len(vals) < room THEN Len(vals) ELSE room
    BY DEF Fits
  <2> HIDE DEF n, room
  <2>3. n \in Nat /\ n <= room /\ n <= Len(vals) /\ (n = Len(vals) \/ n = room)
    BY <2>2, <2>18
  <2>4. /\ m \in Nat /\ m <= U * Len(clusters) /\ off + n <= U * Len(clusters)
        /\ n = Len(vals) \/ off + n >= U * Len(clusters)
    <3> DEFINE len == U * Len(clusters)
    <3>1. len \in Nat /\ room = len - off
      BY <1>2, <2>2, FatAssumption
    <3> HIDE DEF len
    <3> QED BY <1>2, <2>2, <2>3, <3>1 DEF len
  <2>5. \A c \in Clusters, j \in 1..U : put(c, j) \in Units
    <3>1. TAKE c \in Clusters, j \in 1..U
    <3>2. v.data[c][j] \in Units
      BY <1>1
    <3>3. CASE written(c, j) # {}
      <4>1. (CHOOSE i \in written(c, j) : TRUE) \in written(c, j)
        BY <3>3
      <4>2. \A i \in written(c, j) : i \in 1..Len(vals)
        BY <2>3
      <4> HIDE DEF written
      <4> QED BY <1>3, <3>3, <4>1, <4>2
    <3> QED BY <3>2, <3>3
  <2>6. \A c \in Clusters, k \in 1..E :
          keep(c, k) = v.slots[c][k] \/ (keep(c, k) \in Slot /\ ~IsEntry(keep(c, k)) /\ FileCluster(v, c))
    <3>1. SUFFICES ASSUME NEW c \in Clusters, NEW k \in 1..E, written(c, UnitOf(k)) # {}
                   PROVE  keep(c, k) \in Slot /\ ~IsEntry(keep(c, k)) /\ FileCluster(v, c)
      <4> HIDE DEF written, put
      <4> QED OBVIOUS
    <3> DEFINE j == UnitOf(k)
               here == written(c, j)
               i == CHOOSE z \in here : TRUE
    <3>2. i \in here
      <4> HIDE DEF written
      <4> QED BY <3>1
    <3>3. put(c, j) = vals[i] /\ keep(c, k) = ReadAs[put(c, j)][PlaceIn(k)]
      <4> HIDE DEF written
      <4> QED BY <3>1
    <3>4. \A z \in here : /\ z \in 1..Len(vals) /\ off + z - 1 \in Nat /\ off + z - 1 < U * Len(clusters)
                          /\ clusters[((off + z - 1) \div U) + 1] = c
      <4>1. TAKE z \in here
      <4>2. z \in 1..n /\ clusters[((off + z - 1) \div U) + 1] = c
        OBVIOUS
      <4> DEFINE len == U * Len(clusters)
      <4>3. len \in Nat
        BY <1>2, FatAssumption
      <4> HIDE DEF len, here
      <4>4. z \in 1..Len(vals) /\ off + z - 1 \in Nat /\ off + z - 1 < len
        BY <2>3, <2>4, <4>2, <4>3 DEF len
      <4> QED BY <4>2, <4>4 DEF len
    <3> HIDE DEF i, here, put, keep, written
    <3> DEFINE o == off + i - 1
               q == o \div U
    <3>5. o \in Nat /\ o < U * Len(clusters) /\ clusters[q + 1] = c /\ i \in 1..Len(vals)
      BY <3>2, <3>4
    <3> HIDE DEF o
    <3>6. q + 1 \in 1..Len(clusters)
      <4>1. U \in Nat \ {0} /\ q \in Nat
        <5>1. U \in Nat \ {0}
          BY FatAssumption
        <5> QED BY <3>5, <5>1
      <4>2. o = U * q + (o % U) /\ o % U \in Nat
        BY <3>5, <4>1
      <4> HIDE DEF q
      <4> DEFINE len == Len(clusters)
                 a == U * q
                 b == U * len
      <4>5. len \in Nat
        BY <1>2
      <4>6. o < b
        BY <3>5
      <4> HIDE DEF clusters, len
      <4>7. a \in Nat /\ b \in Nat
        BY <4>1, <4>5
      <4>3. a < b
        <5> HIDE DEF a, b
        <5>1. o = a + (o % U)
          BY <4>2 DEF a
        <5> QED BY <4>2, <4>6, <4>7, <5>1
      <4>4. q < len
        BY <4>1, <4>3, <4>5
      <4> QED BY <4>1, <4>4, <4>5 DEF len
    <3>7. c \in ChainSet(v.fat, v.tree[p].start)
      <4>1. clusters \in Seq(Clusters)
        BY <1>1, ChainFacts
      <4>2. DOMAIN clusters = 1..Len(clusters)
        BY <4>1
      <4> HIDE DEF q
      <4> QED BY <3>5, <3>6, <4>2 DEF ChainSet, Range
    <3>8. FileCluster(v, c)
      BY <3>7 DEF FileCluster
    <3>9. vals[i] \in Writable
      BY <3>5
    <3>10. keep(c, k) \in Slot /\ ~IsEntry(keep(c, k))
      BY <3>3, <3>9, ReadAsFacts
    <3> QED BY <3>8, <3>10
  <2>14. \A c \in Clusters, j \in 1..U :
           put(c, j) = IF Lands(clusters, off, n, c, j) = {} THEN v.data[c][j]
                       ELSE vals[CHOOSE i \in Lands(clusters, off, n, c, j) : TRUE]
    BY DEF Lands
  <2> HIDE DEF put, keep
  <2>15. n \in 0..Len(vals) /\ off <= size /\ m = IF off + n > size THEN off + n ELSE size
    BY <1>2, <1>6, <1>7, <2>3
  <2> HIDE DEF m
  <2>7. d \in [Clusters -> [1..U -> Units]]
    BY <2>5
  <2>16. \A c \in Clusters, j \in 1..U : d[c][j] = put(c, j)
    OBVIOUS
  <2>8. \A c \in Clusters, k \in 1..E :
          s[c][k] = v.slots[c][k] \/ (~IsEntry(s[c][k]) /\ FileCluster(v, c))
    BY <2>6
  <2>9. s \in [Clusters -> [1..E -> Slot]]
    <3>1. \A c \in Clusters, k \in 1..E : keep(c, k) \in Slot
      <4>1. TAKE c \in Clusters, k \in 1..E
      <4>2. v.slots[c][k] \in Slot
        BY <1>1
      <4> QED BY <2>6, <4>2
    <3> QED BY <3>1
  <2> HIDE DEF d, s
  <2>10. p \in DOMAIN v.tree /\ x = Resize(v, p, m, s, d)
    BY DEF Resize
  <2> HIDE DEF x
  <2>11. /\ VolInv(x) /\ x.fat = v.fat /\ x.data = d /\ SameFiles(v, x)
         /\ x.tree[p].dentry.path = v.tree[p].dentry.path /\ x.tree[p].dentry.size = m
         /\ \A q \in DOMAIN v.tree : q # p => x.tree[q] = v.tree[q]
    BY <2>4, <2>7, <2>8, <2>9, <2>10, Resized
  <2>12. \A c \in Clusters, j \in 1..U :
           x.data[c][j] = IF Lands(clusters, off, n, c, j) = {} THEN v.data[c][j]
                          ELSE vals[CHOOSE i \in Lands(clusters, off, n, c, j) : TRUE]
    BY <2>11, <2>14, <2>16
  <2>13. Wrote(v, x, p, off, vals, n)
    BY <2>4, <2>11, <2>12, <2>15 DEF Wrote
  <2> QED BY <2>1, <2>13, <2>17
<1> QED BY <1>4, <1>5, <1>6

\* fat_file_pwrite() writes within the chain of the file.
LEMMA PwriteInv ==
  ASSUME NEW v, VolInv(v), NEW p \in DOMAIN v.tree \ {Root}, ~v.tree[p].dentry.dir,
         NEW off \in Nat, NEW vals \in Seq(Writable), NEW w, w = Pwrite(v, p, off, vals)
  PROVE  /\ VolInv(w) /\ w.fat = v.fat /\ SameFiles(v, w)
         /\ \A q \in DOMAIN v.tree : q # p => w.tree[q] = v.tree[q]
         /\ w.tree[p].dentry.path = v.tree[p].dentry.path
<1>1. CASE SameVolume(v, w)
  BY <1>1 DEF SameVolume, SameFiles
<1>2. CASE \E n, x : Wrote(v, x, p, off, vals, n) /\ w = WriteOwnEntry(x, p)
  <2>1. PICK n, x : Wrote(v, x, p, off, vals, n) /\ w = WriteOwnEntry(x, p)
    BY <1>2
  <2>2. /\ VolInv(x) /\ x.fat = v.fat /\ SameFiles(v, x)
        /\ x.tree[p].dentry.path = v.tree[p].dentry.path
        /\ \A q \in DOMAIN v.tree : q # p => x.tree[q] = v.tree[q]
    BY <2>1 DEF Wrote
  <2>3. p \in DOMAIN x.tree \ {Root}
    BY <2>2 DEF SameFiles
  <2>4. VolInv(w) /\ w.fat = x.fat /\ w.tree = x.tree
    BY <2>1, <2>2, <2>3, WriteOwnInv
  <2> QED BY <2>2, <2>4 DEF SameFiles
<1> QED BY <1>1, <1>2, PwriteSteps

\* What the paths say of the log.
LogIsFile == Log \in Paths \ Dirs /\ Log # Root /\ Root \in Dirs

\* The log is a path that is no directory, in the root.
LEMMA LogFacts == LogIsFile /\ LogRecord \in Units /\ <<LogRecord>> \in Seq(Writable)
                  /\ Log \notin {Erased, Hidden, Ruined} /\ Hidden \in {Erased, Hidden, Ruined}
<1>1. LogIsFile
  BY FatAssumption DEF LogIsFile
<1>2. LogRecord \in Units
  BY DEF Units
<1>3. <<LogRecord>> \in Seq(Writable)
  BY DEF Writable
<1> QED BY <1>1, <1>2, <1>3, FatAssumption DEF LogIsFile

\* The name of an entry changes.
Rename(v, p, x) == [v EXCEPT !.tree[p].dentry.path = x]

\* The name in a file's entry changes, to one that is the file's or nobody's.
LEMMA Renamed ==
  ASSUME NEW v, VolInv(v), NEW p \in DOMAIN v.tree, NEW y \in Paths \union {Erased, Hidden, Ruined},
         y = Erased \/ y = Ruined \/ (IF y = Hidden THEN Log ELSE y) = p,
         NEW w, w = Rename(v, p, y)
  PROVE  /\ VolInv(w) /\ w.fat = v.fat /\ w.slots = v.slots /\ w.data = v.data /\ w.failed = v.failed
         /\ SameFiles(v, w) /\ w.tree[p].dentry.path = y /\ w.tree[p].dentry.size = v.tree[p].dentry.size
         /\ \A q \in DOMAIN v.tree : q # p => w.tree[q] = v.tree[q]
<1> DEFINE e == [v.tree[p].dentry EXCEPT !.path = y]
           t == [v.tree EXCEPT ![p].dentry.path = y]
<1>1. /\ v.fat \in [Clusters -> Clusters \union {FREE, EOC}]
      /\ v.slots \in [Clusters -> [1..E -> Slot]] /\ v.data \in [Clusters -> [1..U -> Units]]
      /\ v.tree \in [DOMAIN v.tree -> FileType] /\ DOMAIN v.tree \subseteq Paths /\ Root \in DOMAIN v.tree
      /\ v.failed \in BOOLEAN /\ v.tree[p] \in FileType /\ v.tree[p].dentry \in Entries
  BY VolFacts DEF VolInv
<1>2. v = [fat |-> v.fat, slots |-> v.slots, data |-> v.data, tree |-> v.tree, failed |-> v.failed]
  BY DEF VolInv, VolType
<1>7. w = [fat |-> v.fat, slots |-> v.slots, data |-> v.data, tree |-> t, failed |-> v.failed]
  BY <1>2 DEF Rename
<1> HIDE DEF t
<1> HIDE DEF e
<1>8. w.fat = v.fat /\ w.slots = v.slots /\ w.data = v.data /\ w.tree = t /\ w.failed = v.failed
  BY ONLY <1>7
<1> USE DEF e
<1>9. e \in Entries /\ e.start = v.tree[p].dentry.start /\ e.dir = v.tree[p].dentry.dir
      /\ e.path = y /\ e.size = v.tree[p].dentry.size
  BY <1>1 DEF Entries
<1> HIDE DEF e
<1>10. t = [v.tree EXCEPT ![p] = [v.tree[p] EXCEPT !.dentry = e]]
  BY DEF t, e
<1>11. [v.tree[p] EXCEPT !.dentry = e] \in FileType
  BY <1>1, <1>9 DEF FileType
<1>12. /\ DOMAIN t = DOMAIN v.tree /\ t \in [DOMAIN t -> FileType]
       /\ \A q \in DOMAIN v.tree : q # p => t[q] = v.tree[q]
       /\ t[p] = [v.tree[p] EXCEPT !.dentry = e]
  BY <1>1, <1>10, <1>11
<1>13. /\ t[p].dentry = e /\ t[p].start = v.tree[p].start /\ t[p].pos = v.tree[p].pos
       /\ t[p].nentries = v.tree[p].nentries /\ t[p].read = v.tree[p].read
  BY <1>1, <1>12 DEF FileType
<1>14. VolType(w)
  BY <1>1, <1>7, <1>8, <1>12, VolMake
<1>15. SameFiles(v, w)
  BY <1>8, <1>9, <1>12, <1>13 DEF SameFiles
<1>16. IsEntry(e) => PathIn(e) = p
  BY <1>9, SlotFacts DEF PathIn
<1>18. TreeOK(w)
  <2>1. ASSUME NEW q \in DOMAIN v.tree
        PROVE  /\ t[q].dentry.start = t[q].start
               /\ IsEntry(t[q].dentry) => PathIn(t[q].dentry) = q
               /\ t[q].dentry.dir => q \in Dirs
               /\ t[q].read => t[q].dentry.dir
               /\ t[q].dentry.size <= U * Len(Chain(v.fat, t[q].start))
               /\ q # Root => ParentOf[q] \in DOMAIN t /\ t[ParentOf[q]].dentry.dir
               /\ \A r \in DOMAIN t : t[q].start = t[r].start => q = r
    <3>2. TreeOK(v)
      BY DEF VolInv
    <3>3. \A r \in DOMAIN v.tree : t[r].start = v.tree[r].start /\ t[r].dentry.dir = v.tree[r].dentry.dir
      BY <1>9, <1>12, <1>13
    <3>4. q # Root => ParentOf[q] \in DOMAIN t /\ t[ParentOf[q]].dentry.dir
      BY <1>12, <3>2, <3>3 DEF TreeOK
    <3>5. \A r \in DOMAIN t : t[q].start = t[r].start => q = r
      BY <1>12, <3>2, <3>3 DEF TreeOK
    <3>6. CASE q = p
      BY <1>9, <1>13, <1>16, <3>2, <3>4, <3>5, <3>6 DEF TreeOK
    <3>7. CASE q # p
      BY <1>12, <3>2, <3>4, <3>5, <3>7 DEF TreeOK
    <3> QED BY <3>6, <3>7
  <2>2. DOMAIN w.tree = DOMAIN t /\ \A q \in DOMAIN t : w.tree[q] = t[q]
    BY <1>8
  <2>3. DOMAIN t = DOMAIN v.tree /\ w.fat = v.fat
    BY <1>8, <1>12
  <2> QED BY ONLY <2>1, <2>2, <2>3 DEF TreeOK
<1>19. VolInv(w)
  BY <1>8, <1>14, <1>15, <1>18, TreeChanges DEF SameFiles
<1> QED BY <1>8, <1>9, <1>12, <1>13, <1>15, <1>19

\* fat_fuse_log_activity() writes within the log.
LEMMA LogActivityInv ==
  ASSUME NEW v, VolInv(v), Log \in DOMAIN v.tree, NEW w, w = LogActivity(v)
  PROVE  /\ VolInv(w) /\ w.fat = v.fat /\ SameFiles(v, w)
         /\ \A q \in DOMAIN v.tree : q # Log => w.tree[q] = v.tree[q]
         /\ w.tree[Log].dentry.path = v.tree[Log].dentry.path
<1> DEFINE off == v.tree[Log].dentry.size
           vals == <<LogRecord>>
           p == Log
<1>1. w = Pwrite(v, p, off, vals)
  BY DEF LogActivity
<1>2. off \in Nat /\ vals \in Seq(Writable) /\ p \in DOMAIN v.tree \ {Root} /\ ~v.tree[p].dentry.dir
  BY LogFacts, VolFacts DEF VolInv, TreeOK, Entries, LogIsFile
<1> HIDE DEF off, vals, p
<1>3. /\ VolInv(w) /\ w.fat = v.fat /\ SameFiles(v, w)
      /\ \A q \in DOMAIN v.tree : q # p => w.tree[q] = v.tree[q]
      /\ w.tree[p].dentry.path = v.tree[p].dentry.path
  BY <1>1, <1>2, PwriteInv
<1> QED BY <1>3 DEF p

\* The log's first record, and the name that hides it.
LEMMA HideLogInv ==
  ASSUME NEW v, VolInv(v), Log \in DOMAIN v.tree, NEW w, w = HideLog(v)
  PROVE  VolInv(w) /\ w.fat = v.fat /\ SameFiles(v, w)
<1> DEFINE logged == LogActivity(v)
           y == IF logged.tree[Log].dentry.path = Log THEN Hidden ELSE Ruined
           x == [logged EXCEPT !.tree[Log].dentry.path = IF @ = Log THEN Hidden ELSE Ruined]
           p == Log
<1>1. w = WriteOwnEntry(x, p)
  BY DEF HideLog
<1>2. VolInv(logged) /\ logged.fat = v.fat /\ SameFiles(v, logged)
  BY LogActivityInv
<1>3. x = Rename(logged, p, y)
  BY DEF Rename
<1>4. p \in DOMAIN logged.tree \ {Root} /\ y \in Paths \union {Erased, Hidden, Ruined}
      /\ (y = Erased \/ y = Ruined \/ (IF y = Hidden THEN Log ELSE y) = p)
  BY <1>2, LogFacts DEF SameFiles, LogIsFile
<1> HIDE DEF logged, y, x, p
<1>5. VolInv(x) /\ x.fat = logged.fat /\ SameFiles(logged, x)
  BY <1>2, <1>3, <1>4, Renamed
<1>6. p \in DOMAIN x.tree \ {Root}
  BY <1>4, <1>5 DEF SameFiles
<1>7. VolInv(w) /\ w.fat = x.fat /\ w.tree = x.tree
  BY <1>1, <1>5, <1>6, WriteOwnInv
<1> QED BY <1>2, <1>5, <1>7 DEF SameFiles

-----------------------------------------------------------------------------
(* A directory is read *)

\* The slots up to the end mark have no end mark, and an entry is before it.
LEMMA ProcessedFacts ==
  ASSUME NEW slots \in [1..E -> Slot]
  PROVE  /\ Processed(slots) \in 0..E
         /\ \A j \in 1..Processed(slots) : slots[j] # End
         /\ \A k \in 1..E : IsEntry(slots[k]) /\ (\A j \in 1..(k - 1) : slots[j] # End) => k \in Live(slots)
         /\ \A k \in Live(slots) : k \in 1..E /\ (slots[k] \notin Leftovers => IsEntry(slots[k]))
<1> DEFINE ends == {k \in 1..E : slots[k] = End}
           first == CHOOSE k \in ends : \A j \in ends : k <= j
<1>1. E \in Nat
  BY FatAssumption
<1>2. ends # {} => first \in ends /\ \A j \in ends : first <= j
  <2>1. SUFFICES ASSUME ends # {} PROVE \E k \in ends : \A j \in ends : k <= j
    OBVIOUS
  <2>2. ends \in SUBSET Nat
    BY <1>1
  <2> HIDE DEF ends
  <2> QED BY <2>1, <2>2, Least
<1>3. Processed(slots) = IF ends = {} THEN E ELSE first - 1
  BY DEF Processed
<1>4. \A k \in ends : k \in 1..E /\ slots[k] = End
  OBVIOUS
<1>5. \A k \in 1..E : slots[k] = End => k \in ends
  OBVIOUS
<1> HIDE DEF first, ends
<1>6. Processed(slots) \in 0..E
  BY <1>1, <1>2, <1>3, <1>4
<1>7. \A j \in 1..Processed(slots) : slots[j] # End
  <2>1. TAKE j \in 1..Processed(slots)
  <2>2. j \in 1..E
    BY <1>1, <1>6
  <2>3. CASE ends = {}
    BY <1>5, <2>2, <2>3
  <2>4. CASE ends # {}
    <3>1. first \in 1..E /\ j <= first - 1
      BY <1>2, <1>3, <1>4, <2>4
    <3>2. ~(first <= j)
      BY <1>1, <2>2, <3>1
    <3> QED BY <1>2, <1>5, <2>2, <2>4, <3>2
  <2> QED BY <2>3, <2>4
<1>8. \A k \in 1..E : IsEntry(slots[k]) /\ (\A j \in 1..(k - 1) : slots[j] # End) => k \in Live(slots)
  <2>1. TAKE k \in 1..E
  <2>2. SUFFICES ASSUME IsEntry(slots[k]), \A j \in 1..(k - 1) : slots[j] # End
                 PROVE  k \in Live(slots)
    OBVIOUS
  <2>3. slots[k] # End /\ slots[k] # Junk /\ slots[k].path \notin {Erased, Ruined}
    BY <2>2 DEF IsEntry
  <2>4. k <= Processed(slots)
    <3>1. CASE ends = {}
      BY <1>1, <1>3, <3>1
    <3>2. CASE ends # {}
      <4>1. first \in 1..E /\ slots[first] = End
        BY <1>2, <1>4, <3>2
      <4>2. ~(first \in 1..(k - 1)) /\ first # k
        BY <2>2, <2>3, <4>1
      <4>3. k <= first - 1
        BY <1>1, <4>1, <4>2
      <4> QED BY <1>3, <3>2, <4>3
    <3> QED BY <3>1, <3>2
  <2>5. k \in 1..Processed(slots)
    BY <1>1, <1>6, <2>4
  <2> QED BY <2>3, <2>5 DEF Live
<1>9. \A k \in Live(slots) : k \in 1..E /\ (slots[k] \notin Leftovers => IsEntry(slots[k]))
  <2>1. TAKE k \in Live(slots)
  <2>2. k \in 1..Processed(slots) /\ slots[k] # Junk /\ slots[k].path \notin {Erased, Ruined}
    BY DEF Live
  <2>3. k \in 1..E /\ slots[k] # End /\ slots[k] \in Slot
    BY <1>1, <1>6, <1>7, <2>2
  <2>4. slots[k] \in Entries
    BY <2>2, <2>3 DEF Slot
  <2>5. slots[k].path = Leftover => slots[k] \in Leftovers
    BY <2>4 DEF Entries, Leftovers
  <2> QED BY <2>2, <2>3, <2>5 DEF IsEntry
<1> QED BY <1>6, <1>7, <1>8, <1>9

\* A place of an entry: a cluster and a slot of it.
Place(c, k) == <<c, k>>

\* e is an entry, at the place l of a directory that was not read, of a file that
\* is not in the tree.
Unread(v, d, c, k, e, l) ==
  /\ VolInv(v) /\ d \in DOMAIN v.tree /\ v.tree[d].dentry.dir /\ ~v.tree[d].read
  /\ c = v.tree[d].start /\ k \in 1..E /\ e = v.slots[c][k] /\ l = Place(c, k)
  /\ IsEntry(e) /\ PathIn(e) \notin DOMAIN v.tree

\* The file of such an entry was pending, so its chain is of no other file.
LEMMA ChildFacts ==
  ASSUME NEW v, NEW d, NEW c, NEW k, NEW e, NEW l, Unread(v, d, c, k, e, l)
  PROVE  /\ l \in Pending(v) /\ At(v, l) = e
         /\ e \in Entries /\ e.start \in Clusters /\ e.start \in Owned(v) /\ e.start \notin Starts(v)
         /\ ParentOf[PathIn(e)] = d /\ PathIn(e) \in Paths \ {Root}
         /\ e.dir => PathIn(e) \in Dirs
         /\ e.size <= U * Len(Chain(v.fat, e.start))
         /\ v.tree[d].nentries \in 0..(E - 1)
<1> USE DEF Unread
<1>1. c \in Clusters /\ c \in ChainSet(v.fat, c)
  BY ChainSets
<1>2. c \notin ReadStarts(v)
  BY DEF ReadStarts, VolInv, TreeOK
<1>3. l \in Places(v) /\ At(v, l) = e /\ l[1] = c /\ l[2] = k
  <2>1. l \in Places(v)
    BY <1>1, <1>2, PlaceFacts DEF VolInv, Place
  <2>2. l[1] = c /\ l[2] = k
    BY DEF Place
  <2> QED BY <2>1, <2>2 DEF At
<1>4. PlaceOK(v, l) /\ \A q \in DOMAIN v.tree : OwnPlace(v, l, q)
  BY <1>3 DEF VolInv, PlacesOK, OwnPlaces
<1>5. ParentOf[PathIn(e)] = d /\ PathIn(e) \in Paths \ {Root} /\ (e.dir => PathIn(e) \in Dirs)
  BY <1>1, <1>3, <1>4 DEF PlaceOK
<1>6. e.start \notin Starts(v)
  <2>1. \A q \in DOMAIN v.tree : e.start # v.tree[q].start
    BY <1>3, <1>4 DEF OwnPlace
  <2> QED BY <2>1 DEF Starts
<1>7. l \in Pending(v)
  BY <1>3, <1>6 DEF Pending
<1>8. e \in Entries /\ e.start \in Clusters /\ e.start \in Owned(v)
  BY <1>3, <1>7, PlaceFacts DEF VolInv
<1>9. e.size <= U * Len(Chain(v.fat, e.start))
  BY <1>3, <1>7 DEF VolInv, ChainsOK
<1>10. ~(k <= v.tree[d].nentries)
  <2>1. OwnPlace(v, l, d) /\ l[1] = v.tree[d].start /\ l[2] = k /\ At(v, l) = e
    BY <1>3, <1>4
  <2>2. k <= v.tree[d].nentries => PathIn(e) = Log /\ Log \in DOMAIN v.tree
    BY ONLY <1>7, <2>1 DEF OwnPlace
  <2> QED BY <2>2
<1>11. v.tree[d].nentries \in 0..E
  BY VolFacts DEF VolInv
<1>12. v.tree[d].nentries \in 0..(E - 1)
  BY <1>10, <1>11, FatAssumption
<1> QED BY <1>3, <1>5, <1>6, <1>7, <1>8, <1>9, <1>12

\* The file at p in w is made of the entry in the k-th slot of a directory of v.
ChildOf(v, w, d, k, p) ==
  LET e == v.slots[v.tree[d].start][k] IN
    /\ k \in 1..E /\ IsEntry(e) /\ PathIn(e) = p
    /\ w.tree[p].start = e.start /\ w.tree[p].dentry.start = e.start
    /\ w.tree[p].dentry.dir = e.dir /\ w.tree[p].dentry.size = e.size /\ w.tree[p].dentry.path = p
    /\ w.tree[p].pos = v.tree[d].nentries /\ w.tree[p].nentries = 0 /\ w.tree[p].read = FALSE

\* The directory is read: it has n entries, and its files are in the tree.
DirRead(v, w, d, n) ==
  /\ DOMAIN v.tree \subseteq DOMAIN w.tree
  /\ w.tree[d].start = v.tree[d].start /\ w.tree[d].dentry = v.tree[d].dentry
  /\ w.tree[d].pos = v.tree[d].pos /\ w.tree[d].nentries = n /\ w.tree[d].read = TRUE
  /\ \A q \in DOMAIN v.tree : q # d => w.tree[q] = v.tree[q]
  /\ \A p \in DOMAIN w.tree \ DOMAIN v.tree : \E k \in 1..E : ChildOf(v, w, d, k, p)

\* What is known of such a file: its entry is at the place l, and was pending.
ChildAt(v, w, d, p, l) ==
  /\ l \in Pending(v) /\ l[1] = v.tree[d].start /\ PathIn(At(v, l)) = p
  /\ At(v, l).start \in Owned(v) /\ At(v, l).start \notin Starts(v)
  /\ ParentOf[p] = d /\ p \in Paths \ {Root} /\ (At(v, l).dir => p \in Dirs)
  /\ At(v, l).size <= U * Len(Chain(v.fat, At(v, l).start))
  /\ w.tree[p].start = At(v, l).start /\ w.tree[p].dentry.start = At(v, l).start
  /\ w.tree[p].dentry.dir = At(v, l).dir /\ w.tree[p].dentry.size = At(v, l).size
  /\ PathIn(w.tree[p].dentry) = p
  /\ w.tree[p].pos = v.tree[d].nentries /\ w.tree[p].nentries = 0 /\ w.tree[p].read = FALSE

\* That, of a file made of the entry.
LEMMA ChildIs ==
  ASSUME NEW v, VolInv(v), NEW d \in DOMAIN v.tree, v.tree[d].dentry.dir, ~v.tree[d].read,
         NEW w, NEW k, NEW p, p \notin DOMAIN v.tree, ChildOf(v, w, d, k, p)
  PROVE  ChildAt(v, w, d, p, Place(v.tree[d].start, k))
<1> DEFINE c == v.tree[d].start
           l == Place(c, k)
           x == v.slots[c][k]
<1>1. /\ k \in 1..E /\ IsEntry(x) /\ PathIn(x) = p
      /\ w.tree[p].start = x.start /\ w.tree[p].dentry.start = x.start
      /\ w.tree[p].dentry.dir = x.dir /\ w.tree[p].dentry.size = x.size /\ w.tree[p].dentry.path = p
      /\ w.tree[p].pos = v.tree[d].nentries /\ w.tree[p].nentries = 0 /\ w.tree[p].read = FALSE
  BY DEF ChildOf
<1>2. PathIn(x) \notin DOMAIN v.tree /\ c = v.tree[d].start /\ x = v.slots[c][k] /\ l = Place(c, k)
  BY <1>1
<1>4. l[1] = c
  BY DEF Place
<1> HIDE DEF x, c, l
<1>3. /\ l \in Pending(v) /\ At(v, l) = x
      /\ x.start \in Owned(v) /\ x.start \notin Starts(v)
      /\ ParentOf[PathIn(x)] = d /\ PathIn(x) \in Paths \ {Root}
      /\ x.dir => PathIn(x) \in Dirs
      /\ x.size <= U * Len(Chain(v.fat, x.start))
  <2>1. Unread(v, d, c, k, x, l)
    BY <1>1, <1>2 DEF Unread
  <2> QED BY <2>1, ChildFacts
<1>5. PathIn(w.tree[p].dentry) = p
  <2>1. p \in Paths /\ w.tree[p].dentry.path = p
    BY <1>1, <1>3
  <2>2. p # Hidden
    BY <2>1, FatAssumption
  <2> QED BY ONLY <2>1, <2>2 DEF PathIn
<1>6. ChildAt(v, w, d, p, l)
  BY <1>1, <1>2, <1>3, <1>4, <1>5 DEF ChildAt
<1> QED BY <1>6 DEF l, c

\* The files of a directory enter the tree: their entries were pending.
LEMMA ChildrenAdded ==
  ASSUME NEW v, VolInv(v), NEW d \in DOMAIN v.tree, v.tree[d].dentry.dir, ~v.tree[d].read,
         NEW w, VolType(w), w.fat = v.fat, w.slots = v.slots, NEW n, DirRead(v, w, d, n),
         NoEnd(v, v.tree[d].start, n)
  PROVE  VolInv(w)
<1> DEFINE c == v.tree[d].start
           D == DOMAIN v.tree
           new == DOMAIN w.tree \ D
           at(p) == CHOOSE l : ChildAt(v, w, d, p, l)
<1>1. \A p \in new : ChildAt(v, w, d, p, at(p))
  <2>1. TAKE p \in new
  <2>2. PICK k \in 1..E : ChildOf(v, w, d, k, p)
    BY DEF DirRead
  <2>3. ChildAt(v, w, d, p, Place(c, k))
    BY <2>2, ChildIs
  <2> QED BY <2>3
<1>2. D \subseteq DOMAIN w.tree /\ DOMAIN w.tree = D \union new /\ D \subseteq Paths /\ DOMAIN w.tree \subseteq Paths
  BY VolFacts DEF DirRead, VolInv
<1>3. /\ \A q \in D : /\ w.tree[q].start = v.tree[q].start /\ w.tree[q].dentry = v.tree[q].dentry
                      /\ w.tree[q].pos = v.tree[q].pos
                      /\ q # d => w.tree[q].nentries = v.tree[q].nentries /\ w.tree[q].read = v.tree[q].read
      /\ w.tree[d].nentries = n /\ w.tree[d].read = TRUE
  BY DEF DirRead
<1> HIDE DEF at
<1> DEFINE e(p) == At(v, at(p))
<1>4. \A p \in new :
        /\ at(p) \in Pending(v) /\ at(p)[1] = c /\ PathIn(e(p)) = p /\ p \notin D
        /\ e(p).start \in Owned(v) /\ e(p).start \notin Starts(v)
        /\ ParentOf[p] = d /\ p \in Paths \ {Root} /\ (e(p).dir => p \in Dirs)
        /\ e(p).size <= U * Len(Chain(v.fat, e(p).start))
        /\ w.tree[p].start = e(p).start /\ w.tree[p].dentry.start = e(p).start
        /\ w.tree[p].dentry.dir = e(p).dir /\ w.tree[p].dentry.size = e(p).size
        /\ PathIn(w.tree[p].dentry) = p
        /\ w.tree[p].pos = v.tree[d].nentries /\ w.tree[p].nentries = 0 /\ w.tree[p].read = FALSE
  BY <1>1 DEF ChildAt
<1> HIDE DEF e
<1> DEFINE f(p) == e(p).start
<1>6. \A p, q \in new : f(p) = f(q) => p = q
  <2>1. SUFFICES ASSUME NEW p \in new, NEW q \in new, f(p) = f(q) PROVE p = q
    OBVIOUS
  <2>2. at(p) \in Pending(v) /\ at(q) \in Pending(v) /\ At(v, at(p)) = e(p) /\ At(v, at(q)) = e(q)
        /\ PathIn(e(p)) = p /\ PathIn(e(q)) = q
    BY <1>4 DEF e
  <2>3. at(p) = at(q)
    BY <2>1, <2>2 DEF VolInv, ChainsOK
  <2> QED BY <2>2, <2>3
<1>7. \A p \in new, q \in D : f(p) # v.tree[q].start
  <2>1. TAKE p \in new, q \in D
  <2>2. v.tree[q].start \in Starts(v)
    BY DEF Starts
  <2>3. f(p) \notin Starts(v)
    BY <1>4
  <2> QED BY <2>2, <2>3
<1> HIDE DEF new, D
<1>8. TreeOK(w)
  <2>1. ASSUME NEW p \in D
        PROVE  /\ w.tree[p].dentry.start = w.tree[p].start
               /\ IsEntry(w.tree[p].dentry) => PathIn(w.tree[p].dentry) = p
               /\ w.tree[p].dentry.dir => p \in Dirs
               /\ w.tree[p].read => w.tree[p].dentry.dir
               /\ w.tree[p].dentry.size <= U * Len(Chain(w.fat, w.tree[p].start))
               /\ p # Root => ParentOf[p] \in D /\ w.tree[ParentOf[p]].dentry.dir
               /\ \A q \in D : w.tree[p].start = w.tree[q].start => p = q
    <3>1. w.tree[p].read => w.tree[p].dentry.dir
      BY <1>3 DEF VolInv, TreeOK, D
    <3>2. p # Root => ParentOf[p] \in D /\ w.tree[ParentOf[p]].dentry.dir
      BY <1>3 DEF VolInv, TreeOK, D
    <3>3. \A q \in D : w.tree[p].start = w.tree[q].start => p = q
      BY <1>3 DEF VolInv, TreeOK, D
    <3> QED BY <1>3, <3>1, <3>2, <3>3 DEF VolInv, TreeOK, D
  <2>2. \A p \in new : w.tree[p].start = f(p) /\ w.tree[p].dentry.size = e(p).size
    BY <1>4
  <2>3. \A p \in DOMAIN w.tree, q \in DOMAIN w.tree : w.tree[p].start = w.tree[q].start => p = q
    BY <1>2, <1>3, <1>6, <1>7, <2>1, <2>2
  <2>4. ASSUME NEW p \in DOMAIN w.tree
        PROVE  /\ w.tree[p].dentry.start = w.tree[p].start
               /\ IsEntry(w.tree[p].dentry) => PathIn(w.tree[p].dentry) = p
               /\ w.tree[p].dentry.dir => p \in Dirs
               /\ w.tree[p].read => w.tree[p].dentry.dir
               /\ w.tree[p].dentry.size <= U * Len(Chain(w.fat, w.tree[p].start))
               /\ p # Root => ParentOf[p] \in DOMAIN w.tree /\ w.tree[ParentOf[p]].dentry.dir
    <3>1. CASE p \in D
      BY <1>2, <2>1, <3>1
    <3>2. CASE p \in new
      <4>1. d \in DOMAIN w.tree /\ w.tree[d].dentry.dir
        BY <1>2, <1>3 DEF D
      <4> QED BY <1>4, <3>2, <4>1
    <3> QED BY <1>2, <3>1, <3>2
  <2> QED BY <2>3, <2>4 DEF TreeOK
<1>9. c \in ReadStarts(w) /\ ReadStarts(v) \subseteq ReadStarts(w) /\ Starts(v) \subseteq Starts(w)
      /\ \A p \in new : f(p) \in Starts(w)
  <2>1. c \in ReadStarts(w) /\ ReadStarts(v) \subseteq ReadStarts(w)
    <3>1. \A q \in D : v.tree[q].read => w.tree[q].read
      BY <1>3
    <3> QED BY <1>2, <1>3, <3>1 DEF ReadStarts, D
  <2>2. Starts(v) \subseteq Starts(w)
    BY <1>2, <1>3 DEF Starts, D
  <2>3. \A p \in new : f(p) \in Starts(w)
    BY <1>2, <1>4 DEF Starts
  <2> QED BY <2>1, <2>2, <2>3
<1>10. \A l : At(w, l) = At(v, l)
  BY DEF At
<1>11. \A l \in Places(w) : l \in Places(v) /\ l[1] # c
  BY <1>9, <1>10 DEF Places
<1>12. \A l \in Pending(w) : l \in Pending(v)
  BY <1>9, <1>10, <1>11 DEF Pending
<1>13. Owned(w) \subseteq Owned(v)
  <2>1. ASSUME NEW a \in Starts(w) PROVE a \in Starts(v) \/ \E p \in new : a = f(p)
    <3>2. PICK p \in DOMAIN w.tree : a = w.tree[p].start
      BY DEF Starts
    <3>3. CASE p \in D
      BY <1>3, <3>2, <3>3 DEF Starts, D
    <3>4. CASE p \in new
      BY <1>4, <3>2, <3>4
    <3> QED BY <1>2, <3>3, <3>4
  <2>2. \A p \in new : f(p) \in Owned(v)
    BY <1>4
  <2> QED BY <1>10, <1>12, <2>1, <2>2 DEF Owned
<1>14. ChainsOK(w)
  BY <1>10, <1>12, <1>13, ChainsLeft
<1>15. PlacesOK(w)
  <2>1. SUFFICES ASSUME NEW l \in Places(w) PROVE PlaceOK(w, l)
    BY DEF PlacesOK
  <2>2. l \in Places(v) /\ PlaceOK(v, l) /\ At(w, l) = At(v, l)
    BY <1>10, <1>11 DEF VolInv, PlacesOK
  <2>3. ASSUME NEW p \in DOMAIN w.tree, l[1] \in ChainSet(w.fat, w.tree[p].start)
        PROVE  l[1] = w.tree[p].start /\ w.tree[p].dentry.dir /\ ParentOf[PathIn(At(w, l))] = p
    <3>1. CASE p \in D
      BY <1>3, <2>2, <2>3, <3>1 DEF PlaceOK, D
    <3>2. CASE p \in new
      <4>1. at(p) \in Pending(v) /\ At(v, at(p)) = e(p) /\ w.tree[p].start = e(p).start
            /\ w.tree[p].dentry.dir = e(p).dir /\ PathIn(e(p)) = p
        BY <1>4, <3>2 DEF e
      <4>2. l[1] \in ChainSet(v.fat, At(v, at(p)).start)
        BY <2>3, <4>1
      <4> QED BY <2>2, <4>1, <4>2 DEF PlaceOK
    <3> QED BY <1>2, <3>1, <3>2
  <2> QED BY <1>10, <1>12, <2>2, <2>3 DEF PlaceOK
<1>16. OwnPlaces(w)
  <2>1. SUFFICES ASSUME NEW l \in Places(w), NEW p \in DOMAIN w.tree PROVE OwnPlace(w, l, p)
    BY DEF OwnPlaces
  <2>2. l \in Places(v) /\ l[1] # c /\ At(w, l) = At(v, l) /\ (l \in Pending(w) => l \in Pending(v))
        /\ l[2] \in 1..E
    BY <1>10, <1>11, <1>12, PlaceFacts DEF VolInv
  <2>3. CASE p \in D
    <3>1. OwnPlace(v, l, p)
      BY <2>2, <2>3 DEF VolInv, OwnPlaces, D
    <3>2. w.tree[p].start = v.tree[p].start /\ w.tree[p].pos = v.tree[p].pos
          /\ (p # d => w.tree[p].nentries = v.tree[p].nentries)
          /\ (p = d => w.tree[p].start = c)
      BY <1>3, <2>3
    <3>3. p # Root => w.tree[ParentOf[p]].start = v.tree[ParentOf[p]].start
      BY <1>3, <2>3 DEF VolInv, TreeOK, D
    <3>4. D \subseteq DOMAIN w.tree
      BY <1>2
    <3> QED BY <2>2, <3>1, <3>2, <3>3, <3>4 DEF OwnPlace, D
  <2>4. CASE p \in new
    <3>1. at(p) \in Pending(v) /\ At(v, at(p)) = e(p) /\ w.tree[p].start = e(p).start /\ w.tree[p].nentries = 0
          /\ e(p).start \notin Starts(v) /\ at(p)[1] = c
      BY <1>4, <2>4 DEF e
    <3>2. At(v, l).start # e(p).start
      <4>1. SUFFICES ASSUME At(v, l).start = e(p).start PROVE FALSE
        OBVIOUS
      <4>2. l \in Pending(v)
        BY <2>2, <3>1, <4>1 DEF Pending
      <4>3. l = at(p)
        BY <3>1, <4>1, <4>2 DEF VolInv, ChainsOK
      <4> QED BY <2>2, <3>1, <4>3
    <3>3. ~(l[2] <= 0)
      BY <2>2, FatAssumption
    <3> QED BY <2>2, <3>1, <3>2, <3>3 DEF OwnPlace
  <2> QED BY <1>2, <2>3, <2>4
<1>17. EndsOK(w)
  <2>1. \A a, m : NoEnd(w, a, m) = NoEnd(v, a, m)
    BY DEF NoEnd
  <2>2. \A a \in Clusters, k \in 1..E : IsEntry(w.slots[a][k]) => NoEnd(w, a, k - 1)
    BY <2>1 DEF VolInv, EndsOK
  <2>3. ASSUME NEW p \in DOMAIN w.tree
        PROVE  /\ (w.tree[p].dentry.dir => NoEnd(w, w.tree[p].start, w.tree[p].nentries))
               /\ p # Root => NoEnd(w, w.tree[ParentOf[p]].start, w.tree[p].pos)
    <3>1. CASE p \in D
      <4>1. p # Root => ParentOf[p] \in D
        BY <3>1 DEF VolInv, TreeOK, D
      <4>2. (v.tree[p].dentry.dir => NoEnd(v, v.tree[p].start, v.tree[p].nentries))
            /\ (p # Root => NoEnd(v, v.tree[ParentOf[p]].start, v.tree[p].pos))
        BY <3>1 DEF VolInv, EndsOK, D
      <4>3. NoEnd(v, c, n)
        OBVIOUS
      <4> QED BY <1>3, <2>1, <3>1, <4>1, <4>2, <4>3
    <3>2. CASE p \in new
      <4>1. w.tree[p].nentries = 0 /\ w.tree[p].pos = v.tree[d].nentries /\ ParentOf[p] = d
        BY <1>4, <3>2
      <4>2. NoEnd(v, c, v.tree[d].nentries)
        BY DEF VolInv, EndsOK
      <4>3. w.tree[d].start = c
        BY <1>3 DEF D
      <4>4. NoEnd(w, w.tree[p].start, 0)
        BY DEF NoEnd
      <4> QED BY <2>1, <4>1, <4>2, <4>3, <4>4
    <3> QED BY <1>2, <3>1, <3>2
  <2> QED BY <2>2, <2>3 DEF EndsOK
<1> QED BY <1>8, <1>14, <1>15, <1>16, <1>17 DEF VolInv

\* The directory is counted and marked read.
LEMMA CountedFacts ==
  ASSUME NEW v, VolInv(v), NEW d \in DOMAIN v.tree, NEW w, w = Counted(v, d)
  PROVE  /\ VolType(w) /\ w.fat = v.fat /\ w.slots = v.slots /\ w.data = v.data /\ w.failed = v.failed
         /\ DOMAIN w.tree = DOMAIN v.tree
         /\ DirRead(v, w, d, Processed(v.slots[v.tree[d].start]))
         /\ NoEnd(v, v.tree[d].start, Processed(v.slots[v.tree[d].start]))
<1> DEFINE n == Processed(v.slots[v.tree[d].start])
           g == [v.tree[d] EXCEPT !.nentries = n, !.read = TRUE]
           t == [v.tree EXCEPT ![d] = g]
<1>1. /\ v.tree \in [DOMAIN v.tree -> FileType] /\ DOMAIN v.tree \subseteq Paths
      /\ v.tree[d] \in FileType /\ v.tree[d].start \in Clusters /\ v.slots[v.tree[d].start] \in [1..E -> Slot]
      /\ VolType(v)
  BY VolFacts DEF VolInv
<1>2. v = [fat |-> v.fat, slots |-> v.slots, data |-> v.data, tree |-> v.tree, failed |-> v.failed]
  BY DEF VolInv, VolType
<1>3. n \in 0..E /\ NoEnd(v, v.tree[d].start, n)
  BY <1>1, ProcessedFacts DEF NoEnd
<1>4. t = [v.tree EXCEPT ![d].nentries = n, ![d].read = TRUE]
  BY <1>1
<1> HIDE DEF n
<1>5. w = [v EXCEPT !.tree = t]
  BY <1>2, <1>4 DEF Counted, n
<1> HIDE DEF t
<1>6. w = [fat |-> v.fat, slots |-> v.slots, data |-> v.data, tree |-> t, failed |-> v.failed]
  BY <1>2, <1>5
<1>7. w.fat = v.fat /\ w.slots = v.slots /\ w.data = v.data /\ w.tree = t /\ w.failed = v.failed
  BY ONLY <1>6
<1>8. /\ g \in FileType /\ g.start = v.tree[d].start /\ g.dentry = v.tree[d].dentry /\ g.pos = v.tree[d].pos
      /\ g.nentries = n /\ g.read = TRUE
  BY <1>1, <1>3 DEF FileType
<1> HIDE DEF g
<1>9. /\ DOMAIN t = DOMAIN v.tree /\ t \in [DOMAIN t -> FileType] /\ t[d] = g
      /\ \A q \in DOMAIN v.tree : q # d => t[q] = v.tree[q]
  BY <1>1, <1>8 DEF t
<1>10. VolType(w)
  BY <1>1, <1>6, <1>7, <1>9, VolFacts, VolMake
<1>11. DirRead(v, w, d, n)
  BY <1>7, <1>8, <1>9 DEF DirRead
<1> QED BY <1>3, <1>7, <1>9, <1>10, <1>11 DEF n

\* Files are added to the tree.
AddFiles(v, files) == [v EXCEPT !.tree = Insert(@, files)]

\* What fat_tree_insert() leaves alone, and what it adds.
LEMMA FilesAdded ==
  ASSUME NEW v, VolType(v), NEW files, DOMAIN files \subseteq Paths, files \in [DOMAIN files -> FileType],
         NEW w, w = AddFiles(v, files)
  PROVE  /\ VolType(w) /\ w.fat = v.fat /\ w.slots = v.slots /\ w.data = v.data /\ w.failed = v.failed
         /\ DOMAIN w.tree = DOMAIN v.tree \union DOMAIN files
         /\ \A q \in DOMAIN v.tree : w.tree[q] = v.tree[q]
         /\ \A q \in DOMAIN files \ DOMAIN v.tree : w.tree[q] = files[q]
<1> DEFINE t == Insert(v.tree, files)
<1>1. v.tree \in [DOMAIN v.tree -> FileType] /\ DOMAIN v.tree \subseteq Paths /\ Root \in DOMAIN v.tree
  BY VolFacts
<1>2. v = [fat |-> v.fat, slots |-> v.slots, data |-> v.data, tree |-> v.tree, failed |-> v.failed]
  BY DEF VolType
<1>3. w = [v EXCEPT !.tree = t]
  BY DEF AddFiles
<1>4. t = [q \in DOMAIN v.tree \union DOMAIN files |-> IF q \in DOMAIN v.tree THEN v.tree[q] ELSE files[q]]
  BY DEF Insert
<1> HIDE DEF t
<1>5. w = [fat |-> v.fat, slots |-> v.slots, data |-> v.data, tree |-> t, failed |-> v.failed]
  BY <1>2, <1>3
<1>6. w.fat = v.fat /\ w.slots = v.slots /\ w.data = v.data /\ w.tree = t /\ w.failed = v.failed
  BY ONLY <1>5
<1>7. /\ DOMAIN t = DOMAIN v.tree \union DOMAIN files
      /\ \A q \in DOMAIN v.tree : t[q] = v.tree[q]
      /\ \A q \in DOMAIN files \ DOMAIN v.tree : t[q] = files[q]
  BY <1>4
<1>8. t \in [DOMAIN t -> FileType]
  <2>1. \A q \in DOMAIN v.tree \union DOMAIN files : (IF q \in DOMAIN v.tree THEN v.tree[q] ELSE files[q]) \in FileType
    BY <1>1
  <2> QED BY <1>4, <2>1
<1>9. VolType(w)
  BY <1>1, <1>5, <1>6, <1>7, <1>8, VolFacts, VolMake
<1> QED BY <1>6, <1>7, <1>9

\* A new file.
NewAt(f, e, k) ==
  f \in FileType /\ f.dentry = e /\ f.start = e.start /\ f.pos = k /\ f.nentries = 0 /\ f.read = FALSE

\* What init_file_from_dentry() and fat_file_init() make.
LEMMA FileFacts ==
  ASSUME NEW e, e \in Entries, NEW k, k \in 0..(E - 1), NEW f, f = File(e, k)
  PROVE  NewAt(f, e, k)
<1>1. f = [dentry |-> e, start |-> e.start, pos |-> k, nentries |-> 0, read |-> FALSE]
  BY DEF File
<1>2. e.start \in Clusters /\ 0 \in 0..E
  BY FatAssumption DEF Entries
<1> QED BY <1>1, <1>2 DEF FileType, NewAt

\* No entry of the directory was read from the data of a file.
Clean(v, d) == \A k \in Live(v.slots[v.tree[d].start]) : v.slots[v.tree[d].start][k] \notin Leftovers

\* fat_file_read_children() takes no file into the tree that breaks the invariant.
LEMMA ReadChildrenInv ==
  ASSUME NEW v, VolInv(v), NEW d \in DOMAIN v.tree, v.tree[d].dentry.dir, ~v.tree[d].read,
         Clean(v, d), NEW w, w = ReadChildren(v, d)
  PROVE  /\ VolInv(w) /\ w.fat = v.fat /\ w.slots = v.slots /\ w.data = v.data /\ w.failed = v.failed
         /\ DirRead(v, w, d, Processed(v.slots[v.tree[d].start]))
<1> DEFINE c == v.tree[d].start
           slots == v.slots[c]
           D == DOMAIN v.tree
           new == {PathOf(slots[k], d) : k \in Live(slots)} \ D
           first(p) == CHOOSE k \in Live(slots) :
                         PathOf(slots[k], d) = p /\ \A j \in Live(slots) : PathOf(slots[j], d) = p => k <= j
           file(p) == File([slots[first(p)] EXCEPT !.path = p], v.tree[d].nentries)
           files == [p \in new |-> file(p)]
           x == Counted(v, d)
           n == Processed(slots)
<1>1. /\ c \in Clusters /\ slots \in [1..E -> Slot] /\ VolType(v) /\ D \subseteq Paths
  BY VolFacts DEF VolInv
<1>2. /\ VolType(x) /\ x.fat = v.fat /\ x.slots = v.slots /\ x.data = v.data /\ x.failed = v.failed
      /\ DOMAIN x.tree = D /\ DirRead(v, x, d, n) /\ NoEnd(v, c, n)
  BY CountedFacts
<1>3. w = AddFiles(x, files)
  BY DEF ReadChildren, AddFiles
<1>4. \A k \in Live(slots) : k \in 1..E /\ IsEntry(slots[k]) /\ PathOf(slots[k], d) = PathIn(slots[k])
  <2>1. \A k \in Live(slots) : k \in 1..E /\ IsEntry(slots[k])
    BY <1>1, ProcessedFacts DEF Clean
  <2>2. ASSUME NEW e, IsEntry(e) PROVE PathOf(e, d) = PathIn(e)
    <3>1. e.path # Leftover
      BY <2>2 DEF IsEntry
    <3>2. CASE e.path = Hidden
      BY <3>2 DEF PathOf, PathIn, Hidden, Leftover
    <3>3. CASE e.path # Hidden
      BY <3>1, <3>3 DEF PathOf, PathIn
    <3> QED BY <3>2, <3>3
  <2> QED BY <2>1, <2>2
<1>5. \A p \in new : first(p) \in Live(slots) /\ PathOf(slots[first(p)], d) = p
  <2>1. TAKE p \in new
  <2> DEFINE T == {k \in Live(slots) : PathOf(slots[k], d) = p}
  <2>2. T # {} /\ T \in SUBSET Nat
    BY <1>4, FatAssumption
  <2>3. \A k : k \in T <=> k \in Live(slots) /\ PathOf(slots[k], d) = p
    OBVIOUS
  <2> HIDE DEF T
  <2>4. \E k \in T : \A j \in T : k <= j
    BY <2>2, Least
  <2>5. \E k \in Live(slots) : PathOf(slots[k], d) = p /\ \A j \in Live(slots) : PathOf(slots[j], d) = p => k <= j
    BY <2>3, <2>4
  <2> QED BY <2>5
<1> HIDE DEF first
<1>6. \A p \in new :
        /\ first(p) \in 1..E /\ IsEntry(slots[first(p)]) /\ PathIn(slots[first(p)]) = p /\ p \notin D
        /\ slots[first(p)] \in Entries /\ v.tree[d].nentries \in 0..(E - 1) /\ p \in Paths
  <2>1. TAKE p \in new
  <2> DEFINE k == first(p)
             e == slots[k]
             l == Place(c, k)
  <2>2. k \in 1..E /\ IsEntry(e) /\ PathIn(e) = p /\ p \notin D
    BY <1>4, <1>5
  <2> HIDE DEF k, l
  <2>3. Unread(v, d, c, k, e, l)
    BY <1>1, <2>2 DEF Unread, l
  <2> HIDE DEF e
  <2>4. e \in Entries /\ v.tree[d].nentries \in 0..(E - 1) /\ PathIn(e) \in Paths
    BY <2>3, ChildFacts
  <2> QED BY <2>2, <2>4 DEF e, k
<1> HIDE DEF new, x
<1>7. \A p \in new :
        /\ file(p) \in FileType
        /\ file(p).start = slots[first(p)].start /\ file(p).dentry.start = slots[first(p)].start
        /\ file(p).dentry.dir = slots[first(p)].dir /\ file(p).dentry.size = slots[first(p)].size
        /\ file(p).dentry.path = p
        /\ file(p).pos = v.tree[d].nentries /\ file(p).nentries = 0 /\ file(p).read = FALSE
  <2>1. TAKE p \in new
  <2> DEFINE e == [slots[first(p)] EXCEPT !.path = p]
             k == v.tree[d].nentries
  <2>2. e \in Entries /\ e.path = p /\ e.start = slots[first(p)].start /\ e.dir = slots[first(p)].dir
        /\ e.size = slots[first(p)].size /\ e.start \in Clusters
    BY <1>6 DEF Entries
  <2>3. file(p) = File(e, k)
    OBVIOUS
  <2>4. k \in 0..(E - 1)
    BY <1>6
  <2> HIDE DEF e, k, file
  <2>5. e \in Entries
    BY <2>2
  <2>6. NewAt(file(p), e, k)
    BY ONLY <2>3, <2>4, <2>5, FileFacts
  <2> QED BY <2>2, <2>6 DEF k, NewAt
<1> HIDE DEF file
<1>8. DOMAIN files = new /\ new \subseteq Paths /\ new \intersect D = {} /\ \A p \in new : files[p] = file(p)
  BY <1>6
<1>9. files \in [DOMAIN files -> FileType]
  BY <1>7
<1> HIDE DEF files
<1>10. /\ VolType(w) /\ w.fat = x.fat /\ w.slots = x.slots /\ w.data = x.data /\ w.failed = x.failed
       /\ DOMAIN w.tree = DOMAIN x.tree \union DOMAIN files
       /\ \A q \in DOMAIN x.tree : w.tree[q] = x.tree[q]
       /\ \A q \in DOMAIN files \ DOMAIN x.tree : w.tree[q] = files[q]
  <2>1. DOMAIN files \subseteq Paths
    BY <1>8
  <2> QED BY <1>2, <1>3, <1>9, <2>1, FilesAdded
<1>11. \A p \in new : ChildOf(v, w, d, first(p), p)
  <2>1. TAKE p \in new
  <2>2. w.tree[p] = file(p)
    BY <1>2, <1>8, <1>10
  <2> QED BY <1>6, <1>7, <2>2 DEF ChildOf
<1>12. DirRead(v, w, d, n)
  <2>1. \A p \in DOMAIN w.tree \ D : \E k \in 1..E : ChildOf(v, w, d, k, p)
    BY <1>2, <1>6, <1>8, <1>10, <1>11
  <2> QED BY <1>2, <1>10, <2>1 DEF DirRead
<1>13. VolInv(w)
  BY <1>2, <1>10, <1>12, ChildrenAdded
<1> QED BY <1>2, <1>10, <1>12, <1>13

-----------------------------------------------------------------------------
(* A file is created *)

\* A cluster that is in use, but of no file.
Unowned(v, c) ==
  /\ c \in Clusters /\ v.fat[c] = EOC /\ c \notin Owned(v)
  /\ \A a \in Owned(v) : c \notin ChainSet(v.fat, a)
  /\ \A l \in Places(v) : l[1] # c /\ At(v, l).start # c

\* The first free cluster is taken.
Taken(v, w, c) ==
  /\ w.slots = v.slots /\ w.tree = v.tree
  /\ \A x \in Clusters : w.fat[x] = IF x = c THEN EOC ELSE v.fat[x]

\* A free cluster that is taken is of no file.
LEMMA Allocated ==
  ASSUME NEW v, VolInv(v), NEW w, VolType(w), NEW c \in Clusters, v.fat[c] = FREE, Taken(v, w, c)
  PROVE  VolInv(w) /\ Unowned(w, c)
<1>1. /\ ReadStarts(w) = ReadStarts(v) /\ Starts(w) = Starts(v) /\ \A l : At(w, l) = At(v, l)
  BY DEF Taken, ReadStarts, Starts, At
<1>2. Places(w) = Places(v)
  BY <1>1 DEF Places
<1>3. Pending(w) = Pending(v)
  BY <1>1, <1>2 DEF Pending
<1>4. Owned(w) = Owned(v)
  BY <1>1, <1>3 DEF Owned
<1>5. \A a \in Owned(v) : c \notin ChainSet(v.fat, a)
  BY ChainSets
<1>6. \A a \in Owned(w) : \A x \in ChainSet(v.fat, a) : w.fat[x] = v.fat[x]
  BY <1>4, <1>5, ChainSets DEF Taken
<1>7. ChainsOK(w) /\ \A a \in Owned(w) : Chain(w.fat, a) = Chain(v.fat, a) /\ ChainSet(w.fat, a) = ChainSet(v.fat, a)
  BY <1>1, <1>3, <1>4, <1>6, ChainsLeft
<1>8. \A p \in DOMAIN v.tree : Chain(w.fat, v.tree[p].start) = Chain(v.fat, v.tree[p].start)
                               /\ ChainSet(w.fat, v.tree[p].start) = ChainSet(v.fat, v.tree[p].start)
  BY <1>4, <1>7, ChainSets
<1>9. TreeOK(w)
  <2>1. w.tree = v.tree
    BY DEF Taken
  <2> QED BY <1>8, <2>1 DEF VolInv, TreeOK
<1>10. \A l \in Places(v) : l[1] \in Clusters /\ v.fat[l[1]] # FREE /\ l[1] # c
  BY PlaceFacts DEF VolInv, PlacesOK, PlaceOK
<1>11. PlacesOK(w)
  <2>1. SUFFICES ASSUME NEW l \in Places(w) PROVE PlaceOK(w, l)
    BY DEF PlacesOK
  <2>2. PlaceOK(v, l) /\ At(w, l) = At(v, l) /\ l[1] # c /\ l[1] \in Clusters /\ w.tree = v.tree
    BY <1>1, <1>2, <1>10 DEF VolInv, PlacesOK, Taken
  <2>3. w.fat[l[1]] # FREE
    BY <2>2 DEF Taken, PlaceOK
  <2>4. \A m \in Pending(v) : ChainSet(w.fat, At(v, m).start) = ChainSet(v.fat, At(v, m).start)
    BY <1>3, <1>4, <1>7, PlaceFacts DEF VolInv
  <2> QED BY <1>1, <1>3, <1>8, <2>2, <2>3, <2>4 DEF PlaceOK
<1>12. OwnPlaces(w)
  <2>1. w.tree = v.tree /\ OwnPlaces(v)
    BY DEF Taken, VolInv
  <2> QED BY <1>1, <1>2, <1>3, <2>1 DEF OwnPlaces, OwnPlace
<1>13. EndsOK(w)
  BY DEF VolInv, EndsOK, NoEnd, Taken
<1>14. VolInv(w)
  BY <1>7, <1>9, <1>11, <1>12, <1>13 DEF VolInv
<1>15. c \notin Owned(w)
  BY <1>4, <1>5, ChainSets
<1>16. \A l \in Places(w) : l[1] # c /\ At(w, l).start # c
  <2>1. TAKE l \in Places(w)
  <2>2. At(w, l).start \in Owned(w)
    BY DEF Owned, Pending
  <2> QED BY <1>2, <1>10, <1>15, <2>2
<1>17. w.fat[c] = EOC /\ \A a \in Owned(w) : c \notin ChainSet(w.fat, a)
  BY <1>4, <1>5, <1>7 DEF Taken
<1> QED BY <1>14, <1>15, <1>16, <1>17 DEF Unowned

\* A new file enters the tree, with a cluster that is of no other file.
Entered(v, w, p, e) ==
  /\ w.fat = v.fat /\ w.slots = v.slots /\ DOMAIN w.tree = DOMAIN v.tree \union {p}
  /\ \A q \in DOMAIN v.tree : w.tree[q] = v.tree[q]
  /\ NewAt(w.tree[p], e, 0)

\* The new file enters the tree with that cluster, before it has an entry.
LEMMA Inserted ==
  ASSUME NEW v, VolInv(v), NEW w, VolType(w), NEW p \in Paths \ {Root}, p \notin DOMAIN v.tree,
         ParentOf[p] \in DOMAIN v.tree, v.tree[ParentOf[p]].dentry.dir,
         NEW e, e \in Entries, e.path = p, e.dir => p \in Dirs, e.size = 0, Unowned(v, e.start),
         Entered(v, w, p, e)
  PROVE  VolInv(w) /\ \A l \in Places(w) : At(w, l).start # e.start
<1> DEFINE c == e.start
<1>1. /\ w.fat = v.fat /\ w.slots = v.slots /\ DOMAIN w.tree = DOMAIN v.tree \union {p}
      /\ \A q \in DOMAIN v.tree : w.tree[q] = v.tree[q]
      /\ w.tree[p].dentry = e /\ w.tree[p].start = c /\ w.tree[p].pos = 0 /\ w.tree[p].nentries = 0
      /\ w.tree[p].read = FALSE
  BY DEF Entered, NewAt
<1>2. /\ c \in Clusters /\ v.fat[c] = EOC /\ c \notin Owned(v)
      /\ \A a \in Owned(v) : c \notin ChainSet(v.fat, a)
      /\ \A l \in Places(v) : l[1] # c /\ At(v, l).start # c
  BY DEF Unowned
<1>3. Chain(v.fat, c) = <<c>> /\ Len(Chain(v.fat, c)) = 1 /\ ChainSet(v.fat, c) = {c} /\ Sound(v.fat, c)
  <2>1. v.fat[c] \notin Clusters
    BY <1>2 DEF EOC, Clusters
  <2>2. Chain(v.fat, c) = <<c>>
    BY <1>2, <2>1, ChainOne
  <2>3. ChainSet(v.fat, c) = {c} /\ Sound(v.fat, c)
    BY <1>2, <2>2 DEF ChainSet, Sound, Range, IsInjective, Last
  <2> QED BY <2>2, <2>3
<1>4. ReadStarts(w) = ReadStarts(v) /\ Starts(w) = Starts(v) \union {c} /\ \A l : At(w, l) = At(v, l)
  <2>1. {q \in DOMAIN w.tree : w.tree[q].read} = {q \in DOMAIN v.tree : v.tree[q].read}
    BY <1>1
  <2>2. ReadStarts(w) = ReadStarts(v)
    BY <1>1, <2>1 DEF ReadStarts
  <2>3. Starts(w) = Starts(v) \union {c}
    BY <1>1 DEF Starts
  <2>4. \A l : At(w, l) = At(v, l)
    BY <1>1 DEF At
  <2> QED BY <2>2, <2>3, <2>4
<1>5. Places(w) = Places(v)
  BY <1>4 DEF Places
<1>6. Pending(w) = Pending(v)
  BY <1>2, <1>4, <1>5 DEF Pending
<1>7. Owned(w) = Owned(v) \union {c}
  BY <1>4, <1>6 DEF Owned
<1>8. ChainsOK(v) /\ TreeOK(v) /\ PlacesOK(v) /\ OwnPlaces(v) /\ EndsOK(v)
  BY DEF VolInv
<1> HIDE DEF c
<1>9. ChainsOK(w)
  <2>1. \A a \in Owned(w) : Sound(w.fat, a)
    BY <1>1, <1>3, <1>7, <1>8 DEF ChainsOK
  <2>2. \A a, b \in Owned(w) : a # b => ChainSet(w.fat, a) \intersect ChainSet(w.fat, b) = {}
    <3>1. \A a \in Owned(v) : ChainSet(v.fat, a) \intersect ChainSet(v.fat, c) = {}
      BY <1>2, <1>3
    <3>2. \A a, b \in Owned(v) : a # b => ChainSet(v.fat, a) \intersect ChainSet(v.fat, b) = {}
      BY <1>8 DEF ChainsOK
    <3> QED BY <1>1, <1>7, <3>1, <3>2
  <2>3. \A l \in Pending(w) :
         /\ At(w, l).size <= U * Len(Chain(w.fat, At(w, l).start))
         /\ \A m \in Pending(w) : At(w, l).start = At(w, m).start => l = m
    BY <1>1, <1>4, <1>6, <1>8 DEF ChainsOK
  <2> QED BY <2>1, <2>2, <2>3 DEF ChainsOK
<1>10. \A q \in DOMAIN v.tree : v.tree[q].start # c
  BY <1>2, ChainSets
<1>11. p # Hidden /\ PathIn(e) = p
  <2>1. p # Hidden
    BY FatAssumption
  <2> QED BY <2>1 DEF PathIn
<1>12. TreeOK(w)
  <2>1. ASSUME NEW q \in DOMAIN w.tree
        PROVE  /\ w.tree[q].dentry.start = w.tree[q].start
               /\ IsEntry(w.tree[q].dentry) => PathIn(w.tree[q].dentry) = q
               /\ w.tree[q].dentry.dir => q \in Dirs
               /\ w.tree[q].read => w.tree[q].dentry.dir
               /\ w.tree[q].dentry.size <= U * Len(Chain(w.fat, w.tree[q].start))
               /\ q # Root => ParentOf[q] \in DOMAIN w.tree /\ w.tree[ParentOf[q]].dentry.dir
               /\ \A r \in DOMAIN w.tree : w.tree[q].start = w.tree[r].start => q = r
    <3>1. \A r \in DOMAIN w.tree : w.tree[q].start = w.tree[r].start => q = r
      BY <1>1, <1>8, <1>10 DEF TreeOK
    <3>2. CASE q = p
      <4>1. 0 <= U * 1
        BY FatAssumption
      <4>2. w.tree[q].dentry = e /\ w.tree[q].start = c /\ ~w.tree[q].read /\ c = e.start
        BY <1>1, <3>2 DEF c
      <4>3. ParentOf[q] \in DOMAIN w.tree /\ w.tree[ParentOf[q]].dentry.dir
        BY <1>1, <3>2
      <4>4. w.tree[q].dentry.size <= U * Len(Chain(w.fat, w.tree[q].start))
        BY <1>1, <1>3, <4>1, <4>2
      <4> QED BY <1>11, <3>1, <3>2, <4>2, <4>3, <4>4
    <3>3. CASE q # p
      BY <1>1, <1>8, <3>1, <3>3 DEF TreeOK
    <3> QED BY <3>2, <3>3
  <2> QED BY <2>1 DEF TreeOK
<1>13. PlacesOK(w)
  <2>1. SUFFICES ASSUME NEW l \in Places(w) PROVE PlaceOK(w, l)
    BY DEF PlacesOK
  <2>2. PlaceOK(v, l) /\ At(w, l) = At(v, l) /\ l[1] # c
    BY <1>2, <1>4, <1>5, <1>8 DEF PlacesOK
  <2>3. l[1] \notin ChainSet(v.fat, c)
    BY <1>3, <2>2
  <2>4. \A q \in DOMAIN w.tree : l[1] \in ChainSet(w.fat, w.tree[q].start) =>
         l[1] = w.tree[q].start /\ w.tree[q].dentry.dir /\ ParentOf[PathIn(At(w, l))] = q
    BY <1>1, <2>2, <2>3 DEF PlaceOK
  <2> QED BY <1>1, <1>4, <1>6, <2>2, <2>4 DEF PlaceOK
<1>14. OwnPlaces(w)
  <2>1. SUFFICES ASSUME NEW l \in Places(w), NEW q \in DOMAIN w.tree PROVE OwnPlace(w, l, q)
    BY DEF OwnPlaces
  <2>2. At(w, l) = At(v, l) /\ l \in Places(v) /\ l[1] # c /\ At(v, l).start # c
    BY <1>2, <1>4, <1>5
  <2>3. CASE q = p
    BY <1>1, <2>2, <2>3 DEF OwnPlace
  <2>4. CASE q # p
    <3>1. q \in DOMAIN v.tree /\ OwnPlace(v, l, q)
      BY <1>1, <1>8, <2>2, <2>4 DEF OwnPlaces
    <3>2. q # Root => ParentOf[q] \in DOMAIN v.tree
      BY <1>8, <3>1 DEF TreeOK
    <3> QED BY <1>1, <1>6, <2>2, <3>1, <3>2 DEF OwnPlace
  <2> QED BY <2>3, <2>4
<1>15. EndsOK(w)
  <2>1. \A a, m : NoEnd(w, a, m) = NoEnd(v, a, m)
    BY <1>1 DEF NoEnd
  <2>2. \A a \in Clusters, k \in 1..E : IsEntry(w.slots[a][k]) => NoEnd(w, a, k - 1)
    BY <1>1, <1>8, <2>1 DEF EndsOK
  <2>3. \A a : NoEnd(w, a, 0)
    BY DEF NoEnd
  <2>4. ASSUME NEW q \in DOMAIN w.tree
        PROVE  /\ (w.tree[q].dentry.dir => NoEnd(w, w.tree[q].start, w.tree[q].nentries))
               /\ q # Root => NoEnd(w, w.tree[ParentOf[q]].start, w.tree[q].pos)
    <3>1. CASE q = p
      BY <1>1, <2>3, <3>1
    <3>2. CASE q # p
      <4>1. q \in DOMAIN v.tree /\ (q # Root => ParentOf[q] \in DOMAIN v.tree)
        BY <1>1, <1>8, <3>2 DEF TreeOK
      <4> QED BY <1>1, <1>8, <2>1, <4>1 DEF EndsOK
    <3> QED BY <3>1, <3>2
  <2> QED BY <2>2, <2>4 DEF EndsOK
<1> QED BY <1>2, <1>4, <1>5, <1>9, <1>12, <1>13, <1>14, <1>15 DEF VolInv, c

\* An entry of p is put after those of the directory that p is in.
Added(v, w, p, n, pos, e) ==
  /\ p \in DOMAIN v.tree \ {Root} /\ n = v.tree[ParentOf[p]].nentries /\ n < E
  /\ e \in Entries /\ IsEntry(e) /\ pos \in {n, v.tree[p].pos}
  /\ w.fat = v.fat /\ DOMAIN w.tree = DOMAIN v.tree
  /\ \A q \in DOMAIN v.tree :
       /\ w.tree[q].start = v.tree[q].start /\ w.tree[q].dentry = v.tree[q].dentry /\ w.tree[q].read = v.tree[q].read
       /\ w.tree[q].nentries = IF q = ParentOf[p] THEN n + 1 ELSE v.tree[q].nentries
       /\ w.tree[q].pos = IF q = p THEN pos ELSE v.tree[q].pos
  /\ EntryPut(v, w, v.tree[ParentOf[p]].start, n + 1, e)

\* The places of w are those of v, but for the slot written.
PlacesAdded(v, w, b, k, e) ==
  /\ ReadStarts(w) = ReadStarts(v) /\ Starts(w) = Starts(v)
  /\ \A l \in Places(w) : \/ l[1] = b /\ l[2] = k /\ At(w, l) = e
                          \/ ~(l[1] = b /\ l[2] = k) /\ l \in Places(v) /\ At(w, l) = At(v, l)

\* A directory's cluster is of no other file.
OfDirectory(v, d, b) ==
  /\ b \in Clusters /\ b \in Starts(v) /\ b \in Owned(v) /\ v.fat[b] # FREE
  /\ \A q \in DOMAIN v.tree : b \in ChainSet(v.fat, v.tree[q].start) => q = d
  /\ \A m \in Pending(v) : b \notin ChainSet(v.fat, At(v, m).start)

\* A directory in the tree has its cluster to itself.
LEMMA DirectoryFacts ==
  ASSUME NEW v, VolInv(v), NEW d, d \in DOMAIN v.tree, NEW b, b = v.tree[d].start
  PROVE  OfDirectory(v, d, b)
<1>1. b \in Clusters /\ b \in Starts(v) /\ b \in Owned(v) /\ v.fat[b] # FREE /\ b \in ChainSet(v.fat, b)
  BY ChainSets DEF Starts
<1>2. \A q \in DOMAIN v.tree : b \in ChainSet(v.fat, v.tree[q].start) => q = d
  <2>1. TAKE q \in DOMAIN v.tree
  <2>2. v.tree[q].start \in Owned(v)
    BY ChainSets
  <2>3. b \in ChainSet(v.fat, v.tree[q].start) => v.tree[q].start = b
    BY <1>1, <2>2 DEF VolInv, ChainsOK
  <2> QED BY <2>3 DEF VolInv, TreeOK
<1>3. \A m \in Pending(v) : b \notin ChainSet(v.fat, At(v, m).start)
  <2>1. TAKE m \in Pending(v)
  <2>2. At(v, m).start \in Owned(v) /\ At(v, m).start # b
    BY <1>1 DEF Owned, Pending
  <2> QED BY <1>1, <2>2 DEF VolInv, ChainsOK
<1> QED BY <1>1, <1>2, <1>3 DEF OfDirectory

\* What the tree and the end marks are after the entry is written.
LEMMA AddedFacts ==
  ASSUME NEW v, VolInv(v), NEW w, VolType(w), NEW p, NEW n, NEW pos, NEW e, Added(v, w, p, n, pos, e)
  PROVE  /\ PlacesAdded(v, w, v.tree[ParentOf[p]].start, n + 1, e)
         /\ TreeOK(w) /\ EndsOK(w)
<1> DEFINE d == ParentOf[p]
           b == v.tree[d].start
           k == n + 1
<1>1. /\ p \in DOMAIN v.tree \ {Root} /\ n = v.tree[d].nentries /\ n < E
      /\ e \in Entries /\ IsEntry(e) /\ pos \in {n, v.tree[p].pos}
      /\ w.fat = v.fat /\ DOMAIN w.tree = DOMAIN v.tree
      /\ \A q \in DOMAIN v.tree :
           /\ w.tree[q].start = v.tree[q].start /\ w.tree[q].dentry = v.tree[q].dentry /\ w.tree[q].read = v.tree[q].read
           /\ w.tree[q].nentries = IF q = d THEN k ELSE v.tree[q].nentries
           /\ w.tree[q].pos = IF q = p THEN pos ELSE v.tree[q].pos
      /\ \A c \in Clusters, j \in 1..E : w.slots[c][j] = IF c = b /\ j = k THEN e ELSE v.slots[c][j]
  BY DEF Added, EntryPut
<1>2. /\ d \in DOMAIN v.tree /\ b \in Clusters
      /\ TreeOK(v) /\ EndsOK(v)
  BY <1>1, VolFacts DEF VolInv, TreeOK
<1>3. n \in 0..E
  BY <1>1, <1>2, VolFacts DEF VolInv
<1>4. k \in 1..E /\ n \in Nat /\ k - 1 = n
  BY <1>1, <1>3, FatAssumption
<1> HIDE DEF b
<1>5. TreeOK(w)
  BY <1>1, <1>2 DEF TreeOK
<1>6. ReadStarts(w) = ReadStarts(v) /\ Starts(w) = Starts(v)
  <2>1. {q \in DOMAIN w.tree : w.tree[q].read} = {q \in DOMAIN v.tree : v.tree[q].read}
    BY <1>1
  <2> QED BY <1>1, <2>1 DEF ReadStarts, Starts
<1>7. \A l \in Places(w) : \/ l[1] = b /\ l[2] = k /\ At(w, l) = e
                           \/ ~(l[1] = b /\ l[2] = k) /\ l \in Places(v) /\ At(w, l) = At(v, l)
  <2>1. TAKE l \in Places(w)
  <2>2. l[1] \in Clusters /\ l[2] \in 1..E /\ l = <<l[1], l[2]>> /\ IsEntry(At(w, l)) /\ l[1] \notin ReadStarts(v)
    BY <1>6, PlaceFacts
  <2>3. CASE l[1] = b /\ l[2] = k
    BY <1>1, <2>2, <2>3 DEF At
  <2>4. CASE ~(l[1] = b /\ l[2] = k)
    <3>1. At(w, l) = At(v, l)
      BY <1>1, <2>2, <2>4 DEF At
    <3> QED BY <2>2, <2>4, <3>1 DEF Places
  <2> QED BY <2>3, <2>4
<1>8. e # End
  BY <1>1, SlotFacts
<1>9. \A c \in Clusters, m \in Nat : m <= E /\ NoEnd(v, c, m) => NoEnd(w, c, m)
  <2>1. \A c \in Clusters, j \in 1..E : w.slots[c][j] = End => v.slots[c][j] = End
    BY <1>1, <1>8
  <2> QED BY <2>1, NoEndKept
<1>10. NoEnd(v, b, n) /\ NoEnd(w, b, n)
  <2>1. NoEnd(v, b, n)
    BY <1>1, <1>2 DEF EndsOK, TreeOK, b
  <2>2. n <= E
    BY <1>4, FatAssumption
  <2> QED BY <1>2, <1>4, <1>9, <2>1, <2>2 DEF b
<1>11. b \in Clusters /\ w.slots[b][k] = e
  BY <1>1, <1>2, <1>4
<1>12. NoEnd(w, b, k)
  <2>1. \A j \in 1..k : j \in 1..n \/ j = k
    BY <1>4
  <2> QED BY <1>8, <1>10, <1>11, <2>1 DEF NoEnd
<1>13. \A c \in Clusters, j \in 1..E : IsEntry(w.slots[c][j]) => NoEnd(w, c, j - 1)
  <2>1. TAKE c \in Clusters, j \in 1..E
  <2>2. j - 1 \in Nat /\ j - 1 <= E
    BY FatAssumption
  <2>3. CASE c = b /\ j = k
    BY <1>4, <1>10, <2>3
  <2>4. CASE ~(c = b /\ j = k)
    <3>1. IsEntry(v.slots[c][j]) => NoEnd(v, c, j - 1)
      BY <1>2 DEF EndsOK
    <3>2. w.slots[c][j] = v.slots[c][j]
      BY <1>1, <2>4
    <3> QED BY <1>9, <2>2, <3>1, <3>2
  <2> QED BY <2>3, <2>4
<1>14. ASSUME NEW q \in DOMAIN w.tree
       PROVE  /\ (w.tree[q].dentry.dir => NoEnd(w, w.tree[q].start, w.tree[q].nentries))
              /\ q # Root => NoEnd(w, w.tree[ParentOf[q]].start, w.tree[q].pos)
  <2>1. q \in DOMAIN v.tree /\ (q # Root => ParentOf[q] \in DOMAIN v.tree /\ v.tree[ParentOf[q]].start \in Clusters)
    BY <1>1, <1>2, VolFacts DEF TreeOK, VolInv
  <2>2. /\ (v.tree[q].dentry.dir => NoEnd(v, v.tree[q].start, v.tree[q].nentries))
        /\ q # Root => NoEnd(v, v.tree[ParentOf[q]].start, v.tree[q].pos)
    BY <1>2, <2>1 DEF EndsOK
  <2>3. v.tree[q].start \in Clusters /\ v.tree[q].nentries \in 0..E /\ v.tree[q].pos \in 0..(E - 1)
    BY <2>1, VolFacts DEF VolInv
  <2>4. v.tree[q].nentries \in Nat /\ v.tree[q].nentries <= E /\ v.tree[q].pos \in Nat /\ v.tree[q].pos <= E
    BY <2>3, FatAssumption
  <2>5. (w.tree[q].dentry.dir => NoEnd(w, w.tree[q].start, w.tree[q].nentries))
    <3>1. CASE q = d
      BY <1>1, <1>12, <2>1, <3>1 DEF b
    <3>2. CASE q # d
      BY <1>1, <1>9, <2>1, <2>2, <2>3, <2>4, <3>2
    <3> QED BY <3>1, <3>2
  <2>6. ASSUME q # Root PROVE NoEnd(w, w.tree[ParentOf[q]].start, w.tree[q].pos)
    <3>1. w.tree[ParentOf[q]].start = v.tree[ParentOf[q]].start
      BY <1>1, <2>1, <2>6
    <3>2. NoEnd(w, v.tree[ParentOf[q]].start, v.tree[q].pos)
      BY <1>9, <2>1, <2>2, <2>4, <2>6
    <3>3. CASE q = p /\ pos = n
      BY <1>1, <1>10, <3>1, <3>3 DEF b
    <3>4. CASE ~(q = p /\ pos = n)
      BY <1>1, <2>1, <3>1, <3>2, <3>4
    <3> QED BY <3>3, <3>4
  <2> QED BY <2>5, <2>6
<1>15. EndsOK(w)
  BY <1>13, <1>14 DEF EndsOK
<1>16. PlacesAdded(v, w, b, k, e)
  BY <1>6, <1>7 DEF PlacesAdded
<1> QED BY <1>5, <1>15, <1>16 DEF b

\* The entry of a new file is written.
LEMMA EntryAdded ==
  ASSUME NEW v, VolInv(v), NEW w, VolType(w), NEW p, NEW n, NEW e, Added(v, w, p, n, n, e),
         e = v.tree[p].dentry, \A l \in Places(v) : At(v, l).start # e.start
  PROVE  VolInv(w)
<1> DEFINE d == ParentOf[p]
           b == v.tree[d].start
           k == n + 1
<1>1. /\ p \in DOMAIN v.tree \ {Root} /\ n = v.tree[d].nentries /\ n < E
      /\ e \in Entries /\ IsEntry(e) /\ w.fat = v.fat /\ DOMAIN w.tree = DOMAIN v.tree
      /\ \A q \in DOMAIN v.tree :
           /\ w.tree[q].start = v.tree[q].start /\ w.tree[q].dentry = v.tree[q].dentry
           /\ w.tree[q].nentries = IF q = d THEN k ELSE v.tree[q].nentries
           /\ w.tree[q].pos = IF q = p THEN n ELSE v.tree[q].pos
  BY DEF Added
<1>2. /\ d \in DOMAIN v.tree /\ v.tree[d].dentry.dir
      /\ TreeOK(v) /\ ChainsOK(v) /\ PlacesOK(v) /\ OwnPlaces(v)
      /\ e.start = v.tree[p].start /\ PathIn(e) = p /\ (e.dir => p \in Dirs) /\ p \in Paths
  BY <1>1, VolFacts DEF VolInv, TreeOK
<1>3. n \in Nat
  BY <1>1, <1>2, VolFacts, FatAssumption DEF VolInv
<1>4. OfDirectory(v, d, b)
  BY <1>2, DirectoryFacts
<1>5. PlacesAdded(v, w, b, k, e) /\ TreeOK(w) /\ EndsOK(w)
  BY AddedFacts
<1> HIDE DEF b
<1>6. /\ Starts(w) = Starts(v) /\ e.start \in Starts(v)
      /\ \A l \in Places(w) : \/ l[1] = b /\ l[2] = k /\ At(w, l) = e
                              \/ ~(l[1] = b /\ l[2] = k) /\ l \in Places(v) /\ At(w, l) = At(v, l)
  BY <1>1, <1>2, <1>5 DEF PlacesAdded, Starts
<1>7. \A l \in Pending(w) : ~(l[1] = b /\ l[2] = k) /\ l \in Pending(v) /\ At(w, l) = At(v, l)
  BY <1>6 DEF Pending
<1>8. Owned(w) \subseteq Owned(v)
  BY <1>6, <1>7 DEF Owned
<1>9. ChainsOK(w)
  BY <1>1, <1>7, <1>8, ChainsLeft
<1>10. PlacesOK(w)
  <2>1. SUFFICES ASSUME NEW l \in Places(w) PROVE PlaceOK(w, l)
    BY DEF PlacesOK
  <2>2. CASE l[1] = b /\ l[2] = k
    <3>1. At(w, l) = e
      BY <1>6, <2>2
    <3>2. \A q \in DOMAIN w.tree : l[1] \in ChainSet(w.fat, w.tree[q].start) =>
           l[1] = w.tree[q].start /\ w.tree[q].dentry.dir /\ ParentOf[PathIn(At(w, l))] = q
      BY <1>1, <1>2, <1>4, <2>2, <3>1 DEF OfDirectory, b
    <3>3. \A m \in Pending(w) : l[1] \notin ChainSet(w.fat, At(w, m).start)
      BY <1>1, <1>4, <1>7, <2>2 DEF OfDirectory
    <3> QED BY <1>1, <1>2, <1>4, <2>2, <3>1, <3>2, <3>3 DEF PlaceOK, OfDirectory
  <2>3. CASE ~(l[1] = b /\ l[2] = k)
    <3>1. PlaceOK(v, l) /\ At(w, l) = At(v, l)
      BY <1>2, <1>6, <2>3 DEF PlacesOK
    <3> QED BY <1>1, <1>7, <3>1 DEF PlaceOK
  <2> QED BY <2>2, <2>3
<1>11. OwnPlaces(w)
  <2>1. SUFFICES ASSUME NEW l \in Places(w), NEW q \in DOMAIN w.tree PROVE OwnPlace(w, l, q)
    BY DEF OwnPlaces
  <2>2. q # Root => ParentOf[q] \in DOMAIN v.tree
    BY <1>1, <1>2 DEF TreeOK
  <2>3. CASE l[1] = b /\ l[2] = k
    <3>1. At(w, l) = e /\ l \notin Pending(w)
      BY <1>6, <1>7, <2>3
    <3>2. e.start = v.tree[q].start => q = p
      BY <1>1, <1>2 DEF TreeOK
    <3> QED BY <1>1, <1>2, <2>3, <3>1, <3>2 DEF OwnPlace, b
  <2>4. CASE ~(l[1] = b /\ l[2] = k)
    <3>1. l \in Places(v) /\ OwnPlace(v, l, q) /\ At(w, l) = At(v, l) /\ (l \in Pending(w) => l \in Pending(v))
      BY <1>1, <1>2, <1>6, <1>7, <2>4 DEF OwnPlaces
    <3>2. At(w, l).start = w.tree[q].start =>
            q # Root /\ PathIn(At(w, l)) = q /\ l[1] = w.tree[ParentOf[q]].start /\ l[2] = w.tree[q].pos + 1
      BY <1>1, <1>2, <2>2, <3>1 DEF OwnPlace
    <3>3. ASSUME l \in Pending(w), l[1] = w.tree[q].start, l[2] <= w.tree[q].nentries
          PROVE  PathIn(At(w, l)) = Log /\ Log \in DOMAIN w.tree
      <4>1. q = d => l[2] <= n
        <5>1. l[2] \in 1..E
          BY <3>1, PlaceFacts DEF VolInv
        <5>2. q = d => l[1] = b /\ l[2] <= n + 1
          BY <1>1, <1>2, <3>3 DEF b
        <5> QED BY <1>3, <2>4, <5>1, <5>2, FatAssumption
      <4>2. l[1] = v.tree[q].start /\ l[2] <= v.tree[q].nentries
        BY <1>1, <3>3, <4>1
      <4> QED BY <1>1, <3>1, <3>3, <4>2 DEF OwnPlace
    <3> QED BY <3>2, <3>3 DEF OwnPlace
  <2> QED BY <2>3, <2>4
<1> QED BY <1>5, <1>9, <1>10, <1>11 DEF VolInv

\* The log is made again: its node in the tree stays the old one's.
LEMMA EntryAgain ==
  ASSUME NEW v, VolInv(v), NEW w, VolType(w), NEW p, p = Log, NEW n, NEW pos, pos = v.tree[p].pos,
         NEW e, Added(v, w, p, n, pos, e),
         e.path = Log, ~e.dir, e.size = 0, Unowned(v, e.start)
  PROVE  VolInv(w)
<1> DEFINE d == ParentOf[p]
           b == v.tree[d].start
           k == n + 1
           c == e.start
<1>1. /\ p \in DOMAIN v.tree \ {Root} /\ n = v.tree[d].nentries /\ n < E
      /\ e \in Entries /\ IsEntry(e) /\ w.fat = v.fat /\ DOMAIN w.tree = DOMAIN v.tree
      /\ \A q \in DOMAIN v.tree :
           /\ w.tree[q].start = v.tree[q].start /\ w.tree[q].dentry = v.tree[q].dentry
           /\ w.tree[q].nentries = IF q = d THEN k ELSE v.tree[q].nentries
           /\ w.tree[q].pos = v.tree[q].pos
  BY DEF Added
<1>2. /\ d \in DOMAIN v.tree /\ v.tree[d].dentry.dir
      /\ TreeOK(v) /\ ChainsOK(v) /\ PlacesOK(v) /\ OwnPlaces(v)
      /\ PathIn(e) = p /\ p \in Paths \ {Root}
  BY <1>1, VolFacts DEF VolInv, TreeOK, PathIn
<1>3. n \in Nat
  BY <1>1, <1>2, VolFacts, FatAssumption DEF VolInv
<1>4. OfDirectory(v, d, b)
  BY <1>2, DirectoryFacts
<1>5. PlacesAdded(v, w, b, k, e) /\ TreeOK(w) /\ EndsOK(w)
  BY AddedFacts
<1>6. /\ c \in Clusters /\ v.fat[c] = EOC /\ c \notin Owned(v)
      /\ \A a \in Owned(v) : c \notin ChainSet(v.fat, a)
      /\ \A l \in Places(v) : l[1] # c /\ At(v, l).start # c
  BY DEF Unowned
<1>7. Chain(v.fat, c) = <<c>> /\ Len(Chain(v.fat, c)) = 1 /\ ChainSet(v.fat, c) = {c} /\ Sound(v.fat, c)
  <2>1. v.fat[c] \notin Clusters
    BY <1>6 DEF EOC, Clusters
  <2>2. Chain(v.fat, c) = <<c>>
    BY <1>6, <2>1, ChainOne
  <2>3. ChainSet(v.fat, c) = {c} /\ Sound(v.fat, c)
    BY <1>6, <2>2 DEF ChainSet, Sound, Range, IsInjective, Last
  <2> QED BY <2>2, <2>3
<1> HIDE DEF b, c
<1>8. /\ Starts(w) = Starts(v)
      /\ \A l \in Places(w) : \/ l[1] = b /\ l[2] = k /\ At(w, l) = e
                              \/ ~(l[1] = b /\ l[2] = k) /\ l \in Places(v) /\ At(w, l) = At(v, l)
  BY <1>5 DEF PlacesAdded
<1>9. \A l \in Pending(w) : \/ l[1] = b /\ l[2] = k /\ At(w, l) = e
                            \/ ~(l[1] = b /\ l[2] = k) /\ l \in Pending(v) /\ At(w, l) = At(v, l)
  BY <1>8 DEF Pending
<1>10. Owned(w) \subseteq Owned(v) \union {c}
  BY <1>8, <1>9 DEF Owned, c
<1>11. \A l \in Pending(v) : At(v, l).start # c
  BY <1>6 DEF Owned
<1>12. \A a, x \in Owned(w) : a # x => ChainSet(w.fat, a) \intersect ChainSet(w.fat, x) = {}
  <2>1. \A a \in Owned(v) : ChainSet(v.fat, a) \intersect ChainSet(v.fat, c) = {}
    BY <1>6, <1>7
  <2>2. \A a, x \in Owned(v) : a # x => ChainSet(v.fat, a) \intersect ChainSet(v.fat, x) = {}
    BY <1>2 DEF ChainsOK
  <2> QED BY <1>1, <1>10, <2>1, <2>2
<1>13. ASSUME NEW l \in Pending(w)
       PROVE  /\ At(w, l).size <= U * Len(Chain(w.fat, At(w, l).start))
              /\ \A m \in Pending(w) : At(w, l).start = At(w, m).start => l = m
  <2>1. l = <<l[1], l[2]>> /\ \A m \in Pending(w) : m = <<m[1], m[2]>>
    BY PlaceFacts
  <2>2. CASE l[1] = b /\ l[2] = k
    <3>1. At(w, l) = e /\ e.start = c
      BY <1>9, <2>2 DEF c
    <3>2. 0 <= U * 1
      BY FatAssumption
    <3>3. \A m \in Pending(w) : At(w, m).start = c => m[1] = b /\ m[2] = k
      BY <1>9, <1>11
    <3>4. At(w, l).size <= U * Len(Chain(w.fat, At(w, l).start))
      BY <1>1, <1>7, <3>1, <3>2
    <3>5. \A m \in Pending(w) : At(w, l).start = At(w, m).start => l = m
      <4>1. SUFFICES ASSUME NEW m \in Pending(w), At(w, m).start = c PROVE l = m
        BY <3>1
      <4>2. m[1] = l[1] /\ m[2] = l[2]
        BY <2>2, <3>3, <4>1
      <4>3. l = <<l[1], l[2]>> /\ m = <<m[1], m[2]>>
        BY <2>1
      <4> QED BY ONLY <4>2, <4>3
    <3> QED BY <3>4, <3>5
  <2>3. CASE ~(l[1] = b /\ l[2] = k)
    <3>1. l \in Pending(v) /\ At(w, l) = At(v, l) /\ At(v, l).start # c
      BY <1>9, <1>11, <2>3
    <3>2. \A m \in Pending(w) : At(w, l).start = At(w, m).start => m \in Pending(v) /\ At(w, m) = At(v, m)
      BY <1>9, <3>1 DEF c
    <3> QED BY <1>1, <1>2, <3>1, <3>2 DEF ChainsOK
  <2> QED BY <2>2, <2>3
<1>14. ChainsOK(w)
  <2>1. \A a \in Owned(w) : Sound(w.fat, a)
    BY <1>1, <1>2, <1>7, <1>10 DEF ChainsOK
  <2> QED BY <1>12, <1>13, <2>1 DEF ChainsOK
<1>15. PlacesOK(w)
  <2>1. SUFFICES ASSUME NEW l \in Places(w) PROVE PlaceOK(w, l)
    BY DEF PlacesOK
  <2>2. CASE l[1] = b /\ l[2] = k
    <3>1. At(w, l) = e
      BY <1>8, <2>2
    <3>2. \A q \in DOMAIN w.tree : l[1] \in ChainSet(w.fat, w.tree[q].start) =>
           l[1] = w.tree[q].start /\ w.tree[q].dentry.dir /\ ParentOf[PathIn(At(w, l))] = q
      BY <1>1, <1>2, <1>4, <2>2, <3>1 DEF OfDirectory, b
    <3>3. \A m \in Pending(w) : l[1] \notin ChainSet(w.fat, At(w, m).start)
      <4>1. b # c
        BY <1>4, <1>6 DEF OfDirectory
      <4> QED BY <1>1, <1>4, <1>7, <1>9, <2>2, <4>1 DEF OfDirectory, c
    <3> QED BY <1>1, <1>2, <1>4, <2>2, <3>1, <3>2, <3>3 DEF PlaceOK, OfDirectory
  <2>3. CASE ~(l[1] = b /\ l[2] = k)
    <3>1. PlaceOK(v, l) /\ At(w, l) = At(v, l) /\ l[1] # c
      BY <1>2, <1>6, <1>8, <2>3 DEF PlacesOK
    <3>2. l[1] \notin ChainSet(v.fat, c)
      BY <1>7, <3>1
    <3>3. \A m \in Pending(w) : l[1] \in ChainSet(w.fat, At(w, m).start) =>
            l[1] = At(w, m).start /\ At(w, m).dir /\ ParentOf[PathIn(At(w, l))] = PathIn(At(w, m))
      BY <1>1, <1>9, <3>1, <3>2 DEF PlaceOK, c
    <3> QED BY <1>1, <3>1, <3>3 DEF PlaceOK
  <2> QED BY <2>2, <2>3
<1>16. OwnPlaces(w)
  <2>1. SUFFICES ASSUME NEW l \in Places(w), NEW q \in DOMAIN w.tree PROVE OwnPlace(w, l, q)
    BY DEF OwnPlaces
  <2>2. q # Root => ParentOf[q] \in DOMAIN v.tree
    BY <1>1, <1>2 DEF TreeOK
  <2>3. CASE l[1] = b /\ l[2] = k
    <3>1. At(w, l) = e
      BY <1>8, <2>3
    <3>2. e.start # v.tree[q].start
      BY <1>1, <1>6, ChainSets DEF c
    <3> QED BY <1>1, <1>2, <3>1, <3>2 DEF OwnPlace
  <2>4. CASE ~(l[1] = b /\ l[2] = k)
    <3>1. l \in Places(v) /\ OwnPlace(v, l, q) /\ At(w, l) = At(v, l) /\ (l \in Pending(w) => l \in Pending(v))
      BY <1>1, <1>2, <1>8, <1>9, <2>4 DEF OwnPlaces
    <3>2. At(w, l).start = w.tree[q].start =>
            q # Root /\ PathIn(At(w, l)) = q /\ l[1] = w.tree[ParentOf[q]].start /\ l[2] = w.tree[q].pos + 1
      BY <1>1, <2>2, <3>1 DEF OwnPlace
    <3>3. ASSUME l \in Pending(w), l[1] = w.tree[q].start, l[2] <= w.tree[q].nentries
          PROVE  PathIn(At(w, l)) = Log /\ Log \in DOMAIN w.tree
      <4>1. q = d => l[2] <= n
        <5>1. l[2] \in 1..E
          BY <3>1, PlaceFacts DEF VolInv
        <5>2. q = d => l[1] = b /\ l[2] <= n + 1
          BY <1>1, <1>2, <3>3 DEF b
        <5> QED BY <1>3, <2>4, <5>1, <5>2, FatAssumption
      <4>2. l[1] = v.tree[q].start /\ l[2] <= v.tree[q].nentries
        BY <1>1, <3>3, <4>1
      <4> QED BY <1>1, <3>1, <3>3, <4>2 DEF OwnPlace
    <3> QED BY <3>2, <3>3 DEF OwnPlace
  <2> QED BY <2>3, <2>4
<1> QED BY <1>5, <1>14, <1>15, <1>16 DEF VolInv

\* A cluster is taken.
Alloc(v, c) == [v EXCEPT !.failed = FALSE, !.fat[c] = EOC]

\* A cluster is marked as the end of a chain.
LEMMA AllocFacts ==
  ASSUME NEW v, VolType(v), NEW c, c \in Clusters, NEW w, w = Alloc(v, c)
  PROVE  VolType(w) /\ Taken(v, w, c) /\ w.data = v.data /\ w.failed = FALSE
<1> DEFINE f == [v.fat EXCEPT ![c] = EOC]
<1>1. v.fat \in [Clusters -> Clusters \union {FREE, EOC}]
  BY VolFacts
<1>2. v = [fat |-> v.fat, slots |-> v.slots, data |-> v.data, tree |-> v.tree, failed |-> v.failed]
  BY DEF VolType
<1>3. w = [v EXCEPT !.failed = FALSE, !.fat = f]
  BY DEF Alloc
<1>4. f \in [Clusters -> Clusters \union {FREE, EOC}] /\ \A x \in Clusters : f[x] = IF x = c THEN EOC ELSE v.fat[x]
  BY <1>1
<1> HIDE DEF f
<1>5. w = [fat |-> f, slots |-> v.slots, data |-> v.data, tree |-> v.tree, failed |-> FALSE]
  BY <1>2, <1>3
<1>6. w.fat = f /\ w.slots = v.slots /\ w.data = v.data /\ w.tree = v.tree /\ w.failed = FALSE
  BY ONLY <1>5
<1>7. VolType(w)
  BY <1>4, <1>5, <1>6, VolFacts, VolMake
<1> QED BY <1>4, <1>6, <1>7 DEF Taken

\* One file changes.
FileSet(v, q, g) == [v EXCEPT !.tree[q] = g]

\* One file of the tree changes.
LEMMA FileSetFacts ==
  ASSUME NEW v, VolType(v), NEW q, q \in DOMAIN v.tree, NEW g, g \in FileType, NEW w, w = FileSet(v, q, g)
  PROVE  /\ VolType(w) /\ w.fat = v.fat /\ w.slots = v.slots /\ w.data = v.data /\ w.failed = v.failed
         /\ DOMAIN w.tree = DOMAIN v.tree /\ w.tree[q] = g
         /\ \A r \in DOMAIN v.tree : r # q => w.tree[r] = v.tree[r]
<1> DEFINE t == [v.tree EXCEPT ![q] = g]
<1>1. v.tree \in [DOMAIN v.tree -> FileType] /\ DOMAIN v.tree \subseteq Paths /\ Root \in DOMAIN v.tree
  BY VolFacts
<1>2. v = [fat |-> v.fat, slots |-> v.slots, data |-> v.data, tree |-> v.tree, failed |-> v.failed]
  BY DEF VolType
<1>3. w = [v EXCEPT !.tree = t]
  BY DEF FileSet
<1>4. /\ DOMAIN t = DOMAIN v.tree /\ t \in [DOMAIN t -> FileType] /\ t[q] = g
      /\ \A r \in DOMAIN v.tree : r # q => t[r] = v.tree[r]
  BY <1>1
<1> HIDE DEF t
<1>5. w = [fat |-> v.fat, slots |-> v.slots, data |-> v.data, tree |-> t, failed |-> v.failed]
  BY <1>2, <1>3
<1>6. w.fat = v.fat /\ w.slots = v.slots /\ w.data = v.data /\ w.tree = t /\ w.failed = v.failed
  BY ONLY <1>5
<1>7. VolType(w)
  BY <1>1, <1>4, <1>5, <1>6, VolFacts, VolMake
<1> QED BY <1>4, <1>6, <1>7

\* What holds when Create is called.
CanCreate(v, p, dir) ==
  /\ VolInv(v) /\ p \in Paths \ {Root} /\ dir \in BOOLEAN /\ (dir => p \in Dirs)
  /\ (p \in DOMAIN v.tree => p = Log) /\ (p = Log => ~dir)
  /\ ParentOf[p] \in DOMAIN v.tree /\ v.tree[ParentOf[p]].dentry.dir
  /\ FreeClusters(v.fat) # {}

\* The first free cluster is one.
LEMMA NextFreeFacts ==
  ASSUME NEW fat, FreeClusters(fat) # {}
  PROVE  NextFree(fat) \in Clusters /\ fat[NextFree(fat)] = FREE
<1>1. FreeClusters(fat) \in SUBSET Nat
  BY FatAssumption DEF FreeClusters, Clusters
<1>2. \E c \in FreeClusters(fat) : \A d \in FreeClusters(fat) : c <= d
  BY <1>1, Least
<1>3. NextFree(fat) \in FreeClusters(fat)
  BY <1>2 DEF NextFree
<1> QED BY <1>3 DEF FreeClusters

\* The entry of a file that is made.
NewEntry(e, p, dir, c) ==
  /\ e \in Entries /\ IsEntry(e) /\ PathIn(e) = p
  /\ e.path = p /\ e.dir = dir /\ e.start = c /\ e.size = 0

\* The entry of a new file.
LEMMA EntryFacts ==
  ASSUME NEW p, p \in Paths, NEW dir, dir \in BOOLEAN, NEW c, c \in Clusters, NEW e, e = Entry(p, dir, c)
  PROVE  NewEntry(e, p, dir, c)
<1>1. e = [path |-> p, dir |-> dir, start |-> c, size |-> 0]
  BY DEF Entry
<1>2. e \in Entries /\ e.path = p /\ e.dir = dir /\ e.start = c /\ e.size = 0
  BY <1>1 DEF Entries
<1>3. p \notin {Erased, Hidden, Ruined, Leftover}
  BY LogFacts, FatAssumption
<1> QED BY <1>2, <1>3, SlotFacts DEF PathIn, NewEntry

\* The first half of making a file: it has a cluster, and is in the tree.
Half(v, x, p, c, e) ==
  /\ VolInv(x) /\ x.failed = FALSE /\ x.slots = v.slots /\ x.data = v.data
  /\ DOMAIN x.tree = DOMAIN v.tree \union {p}
  /\ \A q \in DOMAIN v.tree : x.tree[q] = v.tree[q]
  /\ \A a \in Clusters : x.fat[a] = IF a = c THEN EOC ELSE v.fat[a]
  /\ \/ p \notin DOMAIN v.tree /\ NewAt(x.tree[p], e, 0) /\ \A l \in Places(x) : At(x, l).start # e.start
     \/ p \in DOMAIN v.tree /\ Unowned(x, c)

\* The new file has its cluster and is in the tree; its entry is not written.
LEMMA CreateHalf ==
  ASSUME NEW v, NEW p, NEW dir, CanCreate(v, p, dir), NEW c, c = NextFree(v.fat), NEW e, e = Entry(p, dir, c),
         NEW x, x = AddFiles(Alloc(v, c), [q \in {p} |-> File(e, 0)])
  PROVE  Half(v, x, p, c, e)
<1> DEFINE y == Alloc(v, c)
           files == [q \in {p} |-> File(e, 0)]
           zero == 0
<1>1. /\ VolInv(v) /\ VolType(v) /\ p \in Paths \ {Root} /\ dir \in BOOLEAN /\ (dir => p \in Dirs)
      /\ ParentOf[p] \in DOMAIN v.tree /\ v.tree[ParentOf[p]].dentry.dir /\ FreeClusters(v.fat) # {}
  BY DEF CanCreate, VolInv
<1>2. c \in Clusters /\ v.fat[c] = FREE
  BY <1>1, NextFreeFacts
<1>3. VolType(y) /\ Taken(v, y, c) /\ y.data = v.data /\ y.failed = FALSE
  BY <1>1, <1>2, AllocFacts
<1>4. VolInv(y) /\ Unowned(y, c)
  BY <1>1, <1>2, <1>3, Allocated
<1>5. y.tree = v.tree /\ y.slots = v.slots /\ \A a \in Clusters : y.fat[a] = IF a = c THEN EOC ELSE v.fat[a]
  BY <1>3 DEF Taken
<1>6. NewEntry(e, p, dir, c)
  BY <1>1, <1>2, EntryFacts
<1>7. e \in Entries /\ e.path = p /\ e.dir = dir /\ e.start = c /\ e.size = 0
  BY <1>6 DEF NewEntry
<1>8. NewAt(files[p], e, 0)
  <2> DEFINE f == files[p]
  <2>1. f = File(e, zero) /\ zero \in 0..(E - 1)
    BY FatAssumption
  <2> HIDE DEF f, zero
  <2>2. NewAt(f, e, zero)
    BY <1>7, <2>1, FileFacts
  <2> QED BY <2>2 DEF f, zero
<1>9. DOMAIN files = {p} /\ files \in [DOMAIN files -> FileType] /\ DOMAIN files \subseteq Paths
  BY <1>1, <1>8 DEF NewAt
<1>10. x = AddFiles(y, files)
  OBVIOUS
<1> HIDE DEF y, files, zero
<1>11. /\ VolType(x) /\ x.fat = y.fat /\ x.slots = y.slots /\ x.data = y.data /\ x.failed = y.failed
       /\ DOMAIN x.tree = DOMAIN y.tree \union DOMAIN files
       /\ \A q \in DOMAIN y.tree : x.tree[q] = y.tree[q]
       /\ \A q \in DOMAIN files \ DOMAIN y.tree : x.tree[q] = files[q]
  BY <1>3, <1>9, <1>10, FilesAdded
<1>12. /\ x.failed = FALSE /\ x.slots = v.slots /\ x.data = v.data
       /\ DOMAIN x.tree = DOMAIN v.tree \union {p}
       /\ \A q \in DOMAIN v.tree : x.tree[q] = v.tree[q]
       /\ \A a \in Clusters : x.fat[a] = IF a = c THEN EOC ELSE v.fat[a]
  BY <1>3, <1>5, <1>9, <1>11
<1>13. CASE p \notin DOMAIN v.tree
  <2>1. x.tree[p] = files[p]
    BY <1>5, <1>9, <1>11, <1>13
  <2>2. NewAt(x.tree[p], e, 0)
    BY <1>8, <2>1
  <2>3. Entered(y, x, p, e)
    BY <1>5, <1>9, <1>11, <2>2 DEF Entered
  <2>4. VolInv(x) /\ \A l \in Places(x) : At(x, l).start # e.start
    <3>1. e \in Entries /\ e.path = p /\ (e.dir => p \in Dirs) /\ e.size = 0 /\ Unowned(y, e.start)
      BY <1>1, <1>4, <1>7
    <3>2. p \notin DOMAIN y.tree /\ ParentOf[p] \in DOMAIN y.tree /\ y.tree[ParentOf[p]].dentry.dir
      BY <1>1, <1>5, <1>13
    <3> QED BY <1>1, <1>4, <1>11, <2>3, <3>1, <3>2, Inserted
  <2> QED BY <1>12, <1>13, <2>2, <2>4 DEF Half
<1>14. CASE p \in DOMAIN v.tree
  <2>1. x.tree = y.tree
    <3>1. DOMAIN x.tree = DOMAIN y.tree /\ \A q \in DOMAIN y.tree : x.tree[q] = y.tree[q]
      BY <1>5, <1>9, <1>11, <1>14
    <3>2. x.tree \in [DOMAIN x.tree -> FileType] /\ y.tree \in [DOMAIN y.tree -> FileType]
      BY <1>3, <1>11, VolFacts
    <3> QED BY <3>1, <3>2
  <2>2. VolInv(x)
    <3>1. \A q \in DOMAIN y.tree :
             /\ x.tree[q].start = y.tree[q].start /\ x.tree[q].pos = y.tree[q].pos
             /\ x.tree[q].nentries = y.tree[q].nentries /\ x.tree[q].read = y.tree[q].read
             /\ x.tree[q].dentry.dir = y.tree[q].dentry.dir
      BY <2>1
    <3>2. TreeOK(x)
      BY <1>4, <1>11, <2>1 DEF VolInv, TreeOK
    <3> QED BY <1>4, <1>11, <2>1, <3>1, <3>2, TreeChanges
  <2>3. Unowned(x, c)
    <3>1. Places(x) = Places(y) /\ Starts(x) = Starts(y) /\ \A l : At(x, l) = At(y, l)
      BY <1>11, <2>1 DEF Places, Starts, ReadStarts, At
    <3>2. Owned(x) = Owned(y)
      BY <3>1 DEF Owned, Pending
    <3> QED BY <1>4, <1>11, <3>1, <3>2 DEF Unowned
  <2> QED BY <1>12, <1>14, <2>2, <2>3 DEF Half
<1> QED BY <1>13, <1>14

\* What Create does, in the order it does it.
Counts(y, d) == FileSet(y, d, [y.tree[d] EXCEPT !.nentries = @ + 1])
Positions(y, p, n) == FileSet(y, p, [y.tree[p] EXCEPT !.pos = n])

\* Create is these steps, one after another.
LEMMA CreateSteps ==
  ASSUME NEW v, VolType(v), NEW p, NEW dir
  PROVE  LET c == NextFree(v.fat)
             e == Entry(p, dir, c)
             d == ParentOf[p]
             n == v.tree[d].nentries
             y == WriteEntry(AddFiles(Alloc(v, c), [q \in {p} |-> File(e, 0)]), d, e, n)
         IN  Create(v, p, dir) = IF y.failed THEN y
                                 ELSE IF p \in DOMAIN v.tree THEN Counts(y, d) ELSE Positions(Counts(y, d), p, n)
<1> DEFINE c == NextFree(v.fat)
           e == Entry(p, dir, c)
           d == ParentOf[p]
           n == v.tree[d].nentries
           files == [q \in {p} |-> File(e, 0)]
           t == Insert(v.tree, files)
           f == [v.fat EXCEPT ![c] = EOC]
           z == [v EXCEPT !.failed = FALSE, !.fat[e.start] = EOC, !.tree = Insert(@, files)]
           a == Alloc(v, c)
           x == AddFiles(a, files)
           y == WriteEntry(x, d, e, n)
           counted == [y EXCEPT !.tree[d].nentries = @ + 1]
           added == WriteEntry(z, d, e, n)
           inc == [added EXCEPT !.tree[d].nentries = @ + 1]
<1>1. e.start = c
  BY DEF Entry
<1>2. v = [fat |-> v.fat, slots |-> v.slots, data |-> v.data, tree |-> v.tree, failed |-> v.failed]
  BY DEF VolType
<1>3. Create(v, p, dir) = IF added.failed THEN added
                          ELSE IF p \in DOMAIN v.tree THEN inc ELSE [inc EXCEPT !.tree[p].pos = n]
  BY DEF Create
<1>4. z = [v EXCEPT !.failed = FALSE, !.fat = f, !.tree = t]
  BY <1>1
<1>5. a = [v EXCEPT !.failed = FALSE, !.fat = f]
  BY DEF Alloc
<1>6. x = [a EXCEPT !.tree = Insert(@, files)]
  BY DEF AddFiles
<1> HIDE DEF a, f, c, e, files
<1>7. a = [fat |-> f, slots |-> v.slots, data |-> v.data, tree |-> v.tree, failed |-> FALSE]
  BY <1>2, <1>5
<1> HIDE DEF x
<1>8. a.tree = v.tree
  BY ONLY <1>7
<1>9. x = [a EXCEPT !.tree = t]
  BY <1>6, <1>8
<1> HIDE DEF t, z
<1>10. x = [fat |-> f, slots |-> v.slots, data |-> v.data, tree |-> t, failed |-> FALSE]
  BY ONLY <1>7, <1>9
<1>11. z = [fat |-> f, slots |-> v.slots, data |-> v.data, tree |-> t, failed |-> FALSE]
  BY <1>2, <1>4
<1>12. z = x
  BY <1>10, <1>11
<1>13. added = y /\ inc = counted
  BY <1>12
<1>14. counted = Counts(y, d)
  BY DEF Counts, FileSet
<1>15. \A g : [g EXCEPT !.tree[p].pos = n] = Positions(g, p, n)
  BY DEF Positions, FileSet
<1> HIDE DEF added, inc, counted, n, d
<1>16. Create(v, p, dir) = IF y.failed THEN y
                           ELSE IF p \in DOMAIN v.tree THEN Counts(y, d) ELSE Positions(Counts(y, d), p, n)
  BY <1>3, <1>13, <1>14, <1>15
<1> QED BY <1>16 DEF c, e, d, n, files, a, x

\* The clusters that were in use are left alone, but for a directory's.
Spares(v, w, d) ==
  /\ \A a \in Clusters : v.fat[a] # FREE => w.fat[a] = v.fat[a]
  /\ \A c \in Clusters, j \in 1..U : w.data[c][j] = v.data[c][j] \/ c = v.tree[d].start

\* A file is created: its cluster was free, its entry is the directory's last.
LEMMA CreateInv ==
  ASSUME NEW v, NEW p, NEW dir, CanCreate(v, p, dir), NEW w, w = Create(v, p, dir)
  PROVE  /\ VolInv(w) /\ DOMAIN w.tree = DOMAIN v.tree \union {p}
         /\ \A q \in DOMAIN v.tree : w.tree[q].dentry = v.tree[q].dentry
         /\ Spares(v, w, ParentOf[p])
<1> DEFINE c == NextFree(v.fat)
           e == Entry(p, dir, c)
           x == AddFiles(Alloc(v, c), [q \in {p} |-> File(e, 0)])
           d == ParentOf[p]
           n == v.tree[d].nentries
           y == WriteEntry(x, d, e, n)
           b == v.tree[d].start
<1>1. /\ VolInv(v) /\ VolType(v) /\ p \in Paths \ {Root} /\ dir \in BOOLEAN
      /\ (p \in DOMAIN v.tree => p = Log) /\ (p = Log => ~dir)
      /\ d \in DOMAIN v.tree /\ n \in 0..E /\ c \in Clusters
  BY VolFacts, NextFreeFacts DEF CanCreate, VolInv
<1>2. Half(v, x, p, c, e)
  BY CreateHalf
<1>3. w = IF y.failed THEN y
             ELSE IF p \in DOMAIN v.tree THEN Counts(y, d) ELSE Positions(Counts(y, d), p, n)
  BY <1>1, CreateSteps
<1>4. NewEntry(e, p, dir, c)
  BY <1>1, EntryFacts
<1> HIDE DEF x, e, c
<1>5. /\ VolInv(x) /\ VolType(x) /\ x.failed = FALSE /\ x.slots = v.slots
      /\ DOMAIN x.tree = DOMAIN v.tree \union {p} /\ \A q \in DOMAIN v.tree : x.tree[q] = v.tree[q]
  BY <1>2 DEF Half, VolInv
<1>6. /\ e \in Entries /\ IsEntry(e) /\ e.path = p /\ e.dir = dir /\ e.start = c /\ e.size = 0
  BY <1>4 DEF NewEntry
<1>7. d \in DOMAIN x.tree /\ x.tree[d] = v.tree[d] /\ p # d /\ p \in DOMAIN x.tree \ {Root}
  <2>1. p # d
    BY <1>1, LogFacts, FatAssumption DEF LogIsFile
  <2> QED BY <1>1, <1>5, <2>1
<1>11. ASSUME NEW z, z.fat = x.fat,
              \A i \in Clusters, j \in 1..U : z.data[i][j] = x.data[i][j] \/ i = v.tree[d].start
       PROVE  Spares(v, z, d)
  <2>1. x.data = v.data /\ \A a \in Clusters : x.fat[a] = IF a = c THEN EOC ELSE v.fat[a]
    BY <1>2 DEF Half
  <2>2. v.fat[c] = FREE
    BY NextFreeFacts DEF CanCreate, c
  <2> QED BY <1>11, <2>1, <2>2 DEF Spares
<1> HIDE DEF d, n, y
<1>8. y = WriteEntry(x, d, e, n)
  BY DEF y
<1>9. CASE n >= E
  <2>1. VolType(y) /\ y.fat = x.fat /\ y.tree = x.tree /\ y.failed = TRUE /\ y.slots = x.slots /\ y.data = x.data
    <3>1. NotWritten(x, y)
      BY <1>5, <1>8, <1>9, EntryNotWritten
    <3> QED BY <3>1 DEF NotWritten
  <2>2. w = y
    BY <1>3, <2>1
  <2>3. VolInv(y)
    <3>1. \A q \in DOMAIN x.tree :
             /\ y.tree[q].start = x.tree[q].start /\ y.tree[q].pos = x.tree[q].pos
             /\ y.tree[q].nentries = x.tree[q].nentries /\ y.tree[q].read = x.tree[q].read
             /\ y.tree[q].dentry.dir = x.tree[q].dentry.dir
      BY <2>1
    <3>2. TreeOK(y)
      BY <1>5, <2>1 DEF VolInv, TreeOK
    <3> QED BY <1>5, <2>1, <3>1, <3>2, TreeChanges
  <2>4. Spares(v, w, d)
    BY <1>11, <2>1, <2>2
  <2> QED BY <1>5, <2>1, <2>2, <2>3, <2>4 DEF d
<1>10. CASE ~(n >= E)
  <2> DEFINE k == n + 1
             z == Counts(y, d)
  <2>1. n < E /\ n \in Nat
    BY <1>1, <1>10, FatAssumption
  <2>2. /\ VolType(y) /\ y.fat = x.fat /\ y.tree = x.tree /\ y.failed = x.failed
        /\ EntryPut(x, y, x.tree[d].start, k, e) /\ UnitLost(x, y, x.tree[d].start, UnitOf(k))
    <3>1. n \in 0..E
      BY <1>1
    <3> QED BY <1>5, <1>6, <1>7, <1>8, <2>1, <3>1, EntryWritten
  <2>3. x.tree[d] \in FileType /\ x.tree[p] \in FileType
    BY <1>5, <1>7, VolFacts
  <2> DEFINE g == [y.tree[d] EXCEPT !.nentries = @ + 1]
  <2>4. /\ g \in FileType /\ g.start = x.tree[d].start /\ g.dentry = x.tree[d].dentry /\ g.read = x.tree[d].read
        /\ g.nentries = k /\ g.pos = x.tree[d].pos
    <3>1. k \in 0..E
      BY <2>1, FatAssumption
    <3>2. y.tree[d] = x.tree[d] /\ x.tree[d].nentries = n
      BY <1>7, <2>2 DEF n
    <3>3. g = [x.tree[d] EXCEPT !.nentries = k]
      BY <3>2
    <3> HIDE DEF g, k
    <3> QED BY <2>3, <3>1, <3>3 DEF FileType
  <2>5. z = FileSet(y, d, g)
    BY DEF Counts
  <2> HIDE DEF g, z
  <2>6. /\ VolType(z) /\ z.fat = y.fat /\ z.slots = y.slots /\ z.data = y.data /\ z.failed = y.failed
        /\ DOMAIN z.tree = DOMAIN y.tree /\ z.tree[d] = g
        /\ \A r \in DOMAIN y.tree : r # d => z.tree[r] = y.tree[r]
    BY <1>7, <2>2, <2>4, <2>5, FileSetFacts
  <2>10. \A i \in Clusters, j \in 1..U : z.data[i][j] = x.data[i][j] \/ i = v.tree[d].start
    BY <1>7, <2>2, <2>6 DEF UnitLost
  <2>7. x.tree[d].nentries = n /\ d = ParentOf[p]
    BY <1>7 DEF n, d
  <2>8. CASE p \in DOMAIN v.tree
    <3>1. w = z
      BY <1>3, <1>5, <2>2, <2>8 DEF z
    <3>2. Added(x, z, p, n, x.tree[p].pos, e)
      <4>1. EntryPut(x, z, x.tree[d].start, n + 1, e)
        BY <2>2, <2>6 DEF EntryPut
      <4>2. \A q \in DOMAIN x.tree :
         /\ z.tree[q].start = x.tree[q].start /\ z.tree[q].dentry = x.tree[q].dentry /\ z.tree[q].read = x.tree[q].read
         /\ z.tree[q].nentries = IF q = d THEN n + 1 ELSE x.tree[q].nentries
         /\ z.tree[q].pos = IF q = p THEN x.tree[p].pos ELSE x.tree[q].pos
        BY <2>2, <2>4, <2>6
      <4> QED BY <1>6, <1>7, <2>1, <2>2, <2>6, <2>7, <4>1, <4>2 DEF Added
    <3>3. Unowned(x, e.start)
      BY <1>2, <1>6, <2>8 DEF Half
    <3>4. p = Log /\ ~e.dir /\ e.path = Log
      BY <1>1, <1>6, <2>8
    <3> DEFINE pos == x.tree[p].pos
    <3>5. Added(x, z, p, n, pos, e) /\ pos = x.tree[p].pos
      BY <3>2
    <3> HIDE DEF pos
    <3>6. VolInv(z)
      BY <1>5, <1>6, <2>6, <3>3, <3>4, <3>5, EntryAgain
    <3>7. \A q \in DOMAIN v.tree : z.tree[q].dentry = v.tree[q].dentry
      BY <1>5, <3>2 DEF Added
    <3>8. Spares(v, w, d)
      BY <1>11, <2>2, <2>6, <2>10, <3>1
    <3> QED BY <1>5, <2>2, <2>6, <3>1, <3>6, <3>7, <3>8 DEF d
  <2>9. CASE p \notin DOMAIN v.tree
    <3> DEFINE h == [z.tree[p] EXCEPT !.pos = n]
    <3>1. w = FileSet(z, p, h)
      BY <1>3, <1>5, <2>2, <2>9 DEF z, Positions
    <3>2. z.tree[p] = x.tree[p]
      BY <1>7, <2>2, <2>6
    <3>3. /\ h \in FileType /\ h.start = x.tree[p].start /\ h.dentry = x.tree[p].dentry /\ h.read = x.tree[p].read
          /\ h.nentries = x.tree[p].nentries /\ h.pos = n
      <4>1. n \in 0..(E - 1)
        BY <2>1, FatAssumption
      <4>2. h = [x.tree[p] EXCEPT !.pos = n]
        BY <3>2
      <4> HIDE DEF h
      <4> QED BY <2>3, <4>1, <4>2 DEF FileType
    <3> HIDE DEF h
    <3>4. p \in DOMAIN z.tree
      BY <1>7, <2>2, <2>6
    <3>5. /\ VolType(w) /\ w.fat = z.fat /\ w.slots = z.slots /\ w.data = z.data /\ w.failed = z.failed
          /\ DOMAIN w.tree = DOMAIN z.tree /\ w.tree[p] = h
          /\ \A r \in DOMAIN z.tree : r # p => w.tree[r] = z.tree[r]
      BY <2>6, <3>1, <3>3, <3>4, FileSetFacts
    <3>6. Added(x, w, p, n, n, e)
      <4>1. EntryPut(x, w, x.tree[d].start, n + 1, e)
        BY <2>2, <2>6, <3>5 DEF EntryPut
      <4>2. \A q \in DOMAIN x.tree :
         /\ w.tree[q].start = x.tree[q].start /\ w.tree[q].dentry = x.tree[q].dentry /\ w.tree[q].read = x.tree[q].read
         /\ w.tree[q].nentries = IF q = d THEN n + 1 ELSE x.tree[q].nentries
         /\ w.tree[q].pos = IF q = p THEN n ELSE x.tree[q].pos
        BY <1>7, <2>2, <2>4, <2>6, <3>3, <3>5
      <4> QED BY <1>6, <1>7, <2>1, <2>2, <2>6, <2>7, <3>5, <4>1, <4>2 DEF Added
    <3>7. e = x.tree[p].dentry /\ \A l \in Places(x) : At(x, l).start # e.start
      BY <1>2, <2>9 DEF Half, NewAt
    <3>8. VolInv(w)
      BY <1>5, <3>5, <3>6, <3>7, EntryAdded
    <3>9. \A q \in DOMAIN v.tree : w.tree[q].dentry = v.tree[q].dentry
      BY <1>5, <3>6 DEF Added
    <3>10. Spares(v, w, d)
      BY <1>11, <2>2, <2>6, <2>10, <3>5
    <3> QED BY <1>5, <2>2, <2>6, <3>5, <3>8, <3>9, <3>10 DEF d
  <2> QED BY <2>8, <2>9
<1> QED BY <1>9, <1>10

-----------------------------------------------------------------------------
(* A file is removed *)

\* Files stay what they are, files or directories.
KeepsKinds(v, w) ==
  \A q \in DOMAIN v.tree : q \in DOMAIN w.tree /\ w.tree[q].dentry.dir = v.tree[q].dentry.dir

\* What fat_fuse_mknod() does.
LEMMA NewFileInv ==
  ASSUME NEW v, NEW p, CanCreate(v, p, FALSE), NEW w, w = NewFile(v, p)
  PROVE  VolInv(w) /\ KeepsKinds(v, w)
<1> DEFINE x == Create(v, p, FALSE)
           dir == FALSE
<1>1. CanCreate(v, p, dir) /\ x = Create(v, p, dir)
  OBVIOUS
<1> HIDE DEF dir, x
<1>2. VolInv(x) /\ DOMAIN x.tree = DOMAIN v.tree \union {p} /\ \A q \in DOMAIN v.tree : x.tree[q].dentry = v.tree[q].dentry
  BY <1>1, CreateInv
<1>3. KeepsKinds(v, x)
  BY <1>2 DEF KeepsKinds
<1>4. CASE p # Log
  <2>1. w = x
    BY <1>4 DEF NewFile, x
  <2> QED BY <1>2, <1>3, <2>1
<1>5. CASE p = Log
  <2>1. w = HideLog(x) /\ Log \in DOMAIN x.tree
    BY <1>2, <1>5 DEF NewFile, x
  <2>2. VolInv(w) /\ SameFiles(x, w)
    BY <1>2, <2>1, HideLogInv
  <2> QED BY <1>3, <2>2 DEF KeepsKinds, SameFiles
<1> QED BY <1>4, <1>5

\* A file leaves the tree: its clusters are freed, and its entry is marked.  A
\* directory that leaves has no entries.
Left(v, w, p) ==
  /\ DOMAIN w.tree = DOMAIN v.tree \ {p} /\ \A q \in DOMAIN v.tree \ {p} : w.tree[q] = v.tree[q]
  /\ \A a \in Clusters : w.fat[a] = IF a \in ChainSet(v.fat, v.tree[p].start) THEN FREE ELSE v.fat[a]
  /\ \A c \in Clusters, k \in 1..E :
       w.slots[c][k] = IF c = v.tree[ParentOf[p]].start /\ k = v.tree[p].pos + 1
                         THEN [v.tree[p].dentry EXCEPT !.path = Erased] ELSE v.slots[c][k]

\* The chains of the files in the tree.
DisjointChains(v) ==
  /\ \A p \in DOMAIN v.tree :
       /\ \A c \in ChainSet(v.fat, v.tree[p].start) : v.fat[c] # FREE
       /\ IsInjective(Chain(v.fat, v.tree[p].start))
       /\ v.tree[p].dentry.size <= U * Len(Chain(v.fat, v.tree[p].start))
  /\ \A p, q \in DOMAIN v.tree :
       p # q => ChainSet(v.fat, v.tree[p].start) \intersect ChainSet(v.fat, v.tree[q].start) = {}

\* The chains of the files in the tree share nothing.
LEMMA Disjoint ==
  ASSUME NEW v, VolInv(v)
  PROVE  DisjointChains(v)
<1>1. \A p \in DOMAIN v.tree : v.tree[p].start \in Owned(v)
  BY ChainSets
<1>2. \A p, q \in DOMAIN v.tree : v.tree[p].start = v.tree[q].start => p = q
  BY DEF VolInv, TreeOK
<1>3. \A a, b \in Owned(v) : a # b => ChainSet(v.fat, a) \intersect ChainSet(v.fat, b) = {}
  BY DEF VolInv, ChainsOK
<1>4. \A p, q \in DOMAIN v.tree :
        p # q => ChainSet(v.fat, v.tree[p].start) \intersect ChainSet(v.fat, v.tree[q].start) = {}
  BY <1>1, <1>2, <1>3
<1>5. \A p \in DOMAIN v.tree :
       /\ \A c \in ChainSet(v.fat, v.tree[p].start) : v.fat[c] # FREE
       /\ IsInjective(Chain(v.fat, v.tree[p].start))
       /\ v.tree[p].dentry.size <= U * Len(Chain(v.fat, v.tree[p].start))
  BY <1>1, ChainSets DEF Sound, VolInv, TreeOK
<1> QED BY <1>4, <1>5 DEF DisjointChains

\* The clusters of the other files, and of those that may be read, are left alone.
LEMMA LeftChains ==
  ASSUME NEW v, VolInv(v), NEW w, NEW p, p \in DOMAIN v.tree, Left(v, w, p)
  PROVE  /\ \A a \in Owned(v) \ {v.tree[p].start} :
              \A x \in ChainSet(v.fat, a) : w.fat[x] = v.fat[x]
         /\ DisjointChains(w)
<1> DEFINE s == v.tree[p].start
<1>1. s \in Owned(v) /\ \A q \in DOMAIN v.tree : v.tree[q].start \in Owned(v)
  BY ChainSets
<1>2. \A a \in Owned(v) \ {s} : \A x \in ChainSet(v.fat, a) : x \in Clusters /\ x \notin ChainSet(v.fat, s)
  BY <1>1, ChainSets DEF VolInv, ChainsOK
<1>3. \A a \in Owned(v) \ {s} : \A x \in ChainSet(v.fat, a) : w.fat[x] = v.fat[x]
  BY <1>2 DEF Left
<1>4. \A a \in Owned(v) \ {s} : Chain(w.fat, a) = Chain(v.fat, a) /\ ChainSet(w.fat, a) = ChainSet(v.fat, a)
  <2>1. TAKE a \in Owned(v) \ {s}
  <2>2. a \in Clusters /\ Sound(v.fat, a)
    BY ChainSets
  <2>3. \A x \in ChainSet(v.fat, a) : w.fat[x] = v.fat[x]
    BY <1>3
  <2> HIDE DEF s
  <2> QED BY <2>2, <2>3, SoundSame
<1>5. DOMAIN w.tree = DOMAIN v.tree \ {p} /\ \A q \in DOMAIN w.tree : w.tree[q] = v.tree[q] /\ v.tree[q].start \in Owned(v) \ {s}
  <2>1. \A q \in DOMAIN v.tree : v.tree[q].start = s => q = p
    BY DEF VolInv, TreeOK
  <2> QED BY <1>1, <2>1 DEF Left
<1>6. DisjointChains(v)
  BY Disjoint
<1> HIDE DEF s
<1>7. \A q \in DOMAIN w.tree : /\ Chain(w.fat, w.tree[q].start) = Chain(v.fat, v.tree[q].start)
                               /\ ChainSet(w.fat, w.tree[q].start) = ChainSet(v.fat, v.tree[q].start)
                               /\ \A x \in ChainSet(v.fat, v.tree[q].start) : w.fat[x] = v.fat[x]
  BY <1>3, <1>4, <1>5
<1>8. DisjointChains(w)
  BY <1>5, <1>6, <1>7 DEF DisjointChains
<1> QED BY <1>3, <1>8 DEF s

\* What a removed directory leaves: nothing was in it.
LEMMA LeftInv ==
  ASSUME NEW v, VolInv(v), NEW w, VolType(w), NEW p, p \in DOMAIN v.tree \ {Root, Log}, Left(v, w, p),
         \A q \in DOMAIN v.tree \ {Root} : ParentOf[q] # p,
         \A k \in 1..E : ~IsEntry(v.slots[v.tree[p].start][k])
  PROVE  VolInv(w)
<1> DEFINE s == v.tree[p].start
           b == v.tree[ParentOf[p]].start
           k == v.tree[p].pos + 1
           e == [v.tree[p].dentry EXCEPT !.path = Erased]
<1>1. /\ DOMAIN w.tree = DOMAIN v.tree \ {p} /\ \A q \in DOMAIN w.tree : w.tree[q] = v.tree[q]
      /\ \A a \in Clusters : w.fat[a] = IF a \in ChainSet(v.fat, s) THEN FREE ELSE v.fat[a]
      /\ \A c \in Clusters, j \in 1..E : w.slots[c][j] = IF c = b /\ j = k THEN e ELSE v.slots[c][j]
  BY DEF Left
<1>2. /\ TreeOK(v) /\ ChainsOK(v) /\ PlacesOK(v) /\ OwnPlaces(v) /\ EndsOK(v) /\ VolType(v)
      /\ v.tree[p].dentry \in Entries /\ s \in Clusters
  BY VolFacts DEF VolInv
<1>3. ~IsEntry(e) /\ e # End
  <2>1. e \in Entries /\ e.path = Erased
    BY <1>2 DEF Entries
  <2> HIDE DEF e
  <2> QED BY <2>1, SlotFacts
<1>4. \A a \in Owned(v) \ {s} : \A x \in ChainSet(v.fat, a) : w.fat[x] = v.fat[x]
  BY LeftChains
<1> HIDE DEF e
<1>5. \A q \in DOMAIN v.tree : v.tree[q].start = s => q = p
  BY <1>2 DEF TreeOK
<1>6. Starts(v) \subseteq Starts(w) \union {s} /\ Starts(w) \subseteq Starts(v) \ {s}
  <2>1. ASSUME NEW a \in Starts(v), a # s PROVE a \in Starts(w)
    <3>1. PICK q \in DOMAIN v.tree : a = v.tree[q].start
      BY DEF Starts
    <3> QED BY <1>1, <2>1, <3>1 DEF Starts
  <2>2. ASSUME NEW a \in Starts(w) PROVE a \in Starts(v) \ {s}
    <3>1. PICK q \in DOMAIN w.tree : a = w.tree[q].start
      BY DEF Starts
    <3> QED BY <1>1, <1>5, <3>1 DEF Starts
  <2> QED BY <2>1, <2>2
<1>7. ASSUME NEW a \in ReadStarts(v), a # s PROVE a \in ReadStarts(w)
  <2>1. PICK q \in DOMAIN v.tree : a = v.tree[q].start /\ v.tree[q].read
    BY DEF ReadStarts
  <2> QED BY <1>1, <1>7, <2>1 DEF ReadStarts
<1>8. ASSUME NEW l \in Places(w)
      PROVE  l \in Places(v) /\ At(w, l) = At(v, l) /\ l[1] # s /\ ~(l[1] = b /\ l[2] = k)
  <2>1. l[1] \in Clusters /\ l[2] \in 1..E /\ l = <<l[1], l[2]>> /\ IsEntry(At(w, l)) /\ l[1] \notin ReadStarts(w)
    BY PlaceFacts
  <2>2. ~(l[1] = b /\ l[2] = k)
    BY <1>1, <1>3, <2>1 DEF At
  <2>3. At(w, l) = At(v, l)
    BY <1>1, <2>1, <2>2 DEF At
  <2>4. l[1] # s
    BY <2>1, <2>3 DEF At
  <2> QED BY <1>7, <2>1, <2>2, <2>3, <2>4 DEF Places
<1>9. ASSUME NEW l \in Pending(w) PROVE l \in Pending(v) /\ At(w, l) = At(v, l) /\ At(w, l).start # s
  <2>1. l \in Places(w) /\ At(w, l).start \notin Starts(w)
    BY DEF Pending
  <2>2. OwnPlace(v, l, p)
    BY <1>2, <1>8, <2>1 DEF OwnPlaces
  <2>3. At(v, l).start # s
    BY <1>8, <2>1, <2>2 DEF OwnPlace
  <2> QED BY <1>6, <1>8, <2>1, <2>3 DEF Pending
<1>10. Owned(w) \subseteq Owned(v) \ {s}
  BY <1>6, <1>9 DEF Owned
<1>11. ChainsOK(w) /\ \A a \in Owned(w) : Chain(w.fat, a) = Chain(v.fat, a) /\ ChainSet(w.fat, a) = ChainSet(v.fat, a)
  <2>1. /\ Owned(w) \subseteq Owned(v) /\ Pending(w) \subseteq Pending(v)
        /\ \A l \in Pending(w) : At(w, l) = At(v, l)
        /\ \A a \in Owned(w) : \A x \in ChainSet(v.fat, a) : w.fat[x] = v.fat[x]
    BY <1>4, <1>9, <1>10
  <2> QED BY <2>1, ChainsLeft
<1>12. \A q \in DOMAIN w.tree : w.tree[q].start \in Owned(w)
  BY DEF Owned, Starts
<1>13. TreeOK(w)
  <2>1. \A q \in DOMAIN w.tree : Chain(w.fat, w.tree[q].start) = Chain(v.fat, w.tree[q].start)
    BY <1>11, <1>12
  <2>2. \A q \in DOMAIN w.tree : q # Root => ParentOf[q] \in DOMAIN w.tree
    BY <1>1, <1>2 DEF TreeOK
  <2> QED BY <1>1, <1>2, <2>1, <2>2 DEF TreeOK
<1>14. PlacesOK(w)
  <2>1. SUFFICES ASSUME NEW l \in Places(w) PROVE PlaceOK(w, l)
    BY DEF PlacesOK
  <2>2. PlaceOK(v, l) /\ At(w, l) = At(v, l) /\ l[1] # s /\ l[1] \in Clusters
    BY <1>2, <1>8, PlaceFacts DEF PlacesOK
  <2>3. w.fat[l[1]] # FREE
    <3>1. l[1] \notin ChainSet(v.fat, s)
      BY <2>2 DEF PlaceOK
    <3> QED BY <1>1, <2>2, <3>1 DEF PlaceOK
  <2>4. \A q \in DOMAIN w.tree : ChainSet(w.fat, w.tree[q].start) = ChainSet(v.fat, v.tree[q].start)
    BY <1>1, <1>11, <1>12
  <2>5. \A m \in Pending(w) : ChainSet(w.fat, At(w, m).start) = ChainSet(v.fat, At(v, m).start)
    <3>1. \A m \in Pending(w) : At(w, m).start \in Owned(w)
      BY DEF Owned
    <3> QED BY <1>9, <1>11, <3>1
  <2> QED BY <1>1, <1>9, <2>2, <2>3, <2>4, <2>5 DEF PlaceOK
<1>15. OwnPlaces(w)
  <2>1. SUFFICES ASSUME NEW l \in Places(w), NEW q \in DOMAIN w.tree PROVE OwnPlace(w, l, q)
    BY DEF OwnPlaces
  <2>2. OwnPlace(v, l, q) /\ At(w, l) = At(v, l)
    BY <1>1, <1>2, <1>8 DEF OwnPlaces
  <2>3. q # Root => ParentOf[q] \in DOMAIN w.tree
    BY <1>13 DEF TreeOK
  <2>4. ASSUME l \in Pending(w), l[1] = w.tree[q].start, l[2] <= w.tree[q].nentries
        PROVE  PathIn(At(w, l)) = Log /\ Log \in DOMAIN w.tree
    <3>1. PathIn(At(w, l)) = Log /\ Log \in DOMAIN v.tree
      BY <1>1, <1>9, <2>2, <2>4 DEF OwnPlace
    <3> QED BY <1>1, <3>1
  <2> QED BY <1>1, <2>2, <2>3, <2>4 DEF OwnPlace
<1>16. EndsOK(w)
  <2>1. \A c \in Clusters, j \in 1..E : w.slots[c][j] = End => v.slots[c][j] = End
    BY <1>1, <1>3
  <2>2. \A c \in Clusters, n \in Nat : n <= E /\ NoEnd(v, c, n) => NoEnd(w, c, n)
    BY <2>1, NoEndKept
  <2>3. \A c \in Clusters, j \in 1..E : IsEntry(w.slots[c][j]) => NoEnd(w, c, j - 1)
    <3>1. TAKE c \in Clusters, j \in 1..E
    <3>2. j - 1 \in Nat /\ j - 1 <= E
      BY FatAssumption
    <3>3. IsEntry(w.slots[c][j]) => IsEntry(v.slots[c][j])
      BY <1>1, <1>3
    <3> QED BY <1>2, <2>2, <3>2, <3>3 DEF EndsOK
  <2>4. ASSUME NEW q \in DOMAIN w.tree
        PROVE  /\ (w.tree[q].dentry.dir => NoEnd(w, w.tree[q].start, w.tree[q].nentries))
               /\ q # Root => NoEnd(w, w.tree[ParentOf[q]].start, w.tree[q].pos)
    <3>1. /\ (v.tree[q].dentry.dir => NoEnd(v, v.tree[q].start, v.tree[q].nentries))
          /\ q # Root => NoEnd(v, v.tree[ParentOf[q]].start, v.tree[q].pos)
      BY <1>1, <1>2 DEF EndsOK
    <3>2. v.tree[q].start \in Clusters /\ v.tree[q].nentries \in 0..E /\ v.tree[q].pos \in 0..(E - 1)
      BY <1>1, <1>2, VolFacts
    <3>3. v.tree[q].nentries \in Nat /\ v.tree[q].nentries <= E /\ v.tree[q].pos \in Nat /\ v.tree[q].pos <= E
      BY <3>2, FatAssumption
    <3>4. q # Root => ParentOf[q] \in DOMAIN w.tree /\ v.tree[ParentOf[q]].start \in Clusters
      BY <1>1, <1>2, <1>13, VolFacts DEF TreeOK
    <3> QED BY <1>1, <2>2, <3>1, <3>2, <3>3, <3>4
  <2> QED BY <2>3, <2>4 DEF EndsOK
<1> QED BY <1>11, <1>13, <1>14, <1>15, <1>16 DEF VolInv

\* A directory is counted and marked read: its entries are read no more.
LEMMA CountedInv ==
  ASSUME NEW v, VolInv(v), NEW d, d \in DOMAIN v.tree, v.tree[d].dentry.dir, NEW w, w = Counted(v, d)
  PROVE  VolInv(w)
<1> DEFINE n == Processed(v.slots[v.tree[d].start])
           c == v.tree[d].start
<1>1. /\ VolType(w) /\ w.fat = v.fat /\ w.slots = v.slots /\ DOMAIN w.tree = DOMAIN v.tree
      /\ DirRead(v, w, d, n) /\ NoEnd(v, c, n)
  BY CountedFacts
<1> HIDE DEF n
<1>2. /\ w.tree[d].start = c /\ w.tree[d].dentry = v.tree[d].dentry /\ w.tree[d].pos = v.tree[d].pos
      /\ w.tree[d].nentries = n /\ w.tree[d].read = TRUE
      /\ \A q \in DOMAIN v.tree : q # d => w.tree[q] = v.tree[q]
  BY <1>1 DEF DirRead
<1>3. \A q \in DOMAIN v.tree : w.tree[q].start = v.tree[q].start /\ w.tree[q].dentry = v.tree[q].dentry
                               /\ w.tree[q].pos = v.tree[q].pos
  BY <1>2
<1>4. TreeOK(v) /\ PlacesOK(v) /\ OwnPlaces(v) /\ EndsOK(v)
  BY DEF VolInv
<1>5. Starts(w) = Starts(v)
  BY <1>1, <1>3 DEF Starts
<1>6. ASSUME NEW a \in ReadStarts(v) PROVE a \in ReadStarts(w)
  <2>1. PICK q \in DOMAIN v.tree : a = v.tree[q].start /\ v.tree[q].read
    BY DEF ReadStarts
  <2>2. w.tree[q].read /\ a = w.tree[q].start
    BY <1>2, <1>3, <2>1
  <2> QED BY <1>1, <2>2 DEF ReadStarts
<1>7. c \in ReadStarts(w)
  BY <1>1, <1>2 DEF ReadStarts
<1>8. \A l : At(w, l) = At(v, l)
  BY <1>1 DEF At
<1>9. \A l \in Places(w) : l \in Places(v) /\ l[1] # c
  BY <1>6, <1>7, <1>8 DEF Places
<1>10. \A l \in Pending(w) : l \in Pending(v)
  BY <1>5, <1>8, <1>9 DEF Pending
<1>11. Owned(w) \subseteq Owned(v)
  BY <1>5, <1>8, <1>10 DEF Owned
<1>12. ChainsOK(w)
  <2>1. Pending(w) \subseteq Pending(v) /\ \A l \in Pending(w) : At(w, l) = At(v, l)
    BY <1>8, <1>10
  <2>2. \A a \in Owned(w) : \A x \in ChainSet(v.fat, a) : w.fat[x] = v.fat[x]
    BY <1>1
  <2> QED BY <1>11, <2>1, <2>2, ChainsLeft
<1>13. TreeOK(w)
  BY <1>1, <1>2, <1>3, <1>4 DEF TreeOK
<1>14. PlacesOK(w)
  <2>1. SUFFICES ASSUME NEW l \in Places(w) PROVE PlaceOK(w, l)
    BY DEF PlacesOK
  <2>2. PlaceOK(v, l)
    BY <1>4, <1>9 DEF PlacesOK
  <2> QED BY <1>1, <1>3, <1>8, <1>10, <2>2 DEF PlaceOK
<1>15. OwnPlaces(w)
  <2>1. SUFFICES ASSUME NEW l \in Places(w), NEW q \in DOMAIN w.tree PROVE OwnPlace(w, l, q)
    BY DEF OwnPlaces
  <2>2. OwnPlace(v, l, q) /\ l[1] # c
    BY <1>1, <1>4, <1>9 DEF OwnPlaces
  <2>3. q # Root => ParentOf[q] \in DOMAIN v.tree
    BY <1>1, <1>4 DEF TreeOK
  <2> QED BY <1>1, <1>2, <1>3, <1>8, <1>10, <2>2, <2>3 DEF OwnPlace
<1>16. EndsOK(w)
  <2>1. \A a, k : NoEnd(w, a, k) <=> NoEnd(v, a, k)
    BY <1>1 DEF NoEnd
  <2>2. ASSUME NEW q \in DOMAIN w.tree
        PROVE  /\ (w.tree[q].dentry.dir => NoEnd(w, w.tree[q].start, w.tree[q].nentries))
               /\ q # Root => NoEnd(w, w.tree[ParentOf[q]].start, w.tree[q].pos)
    <3>1. (w.tree[q].dentry.dir => NoEnd(w, w.tree[q].start, w.tree[q].nentries))
      BY <1>1, <1>2, <1>4, <2>1 DEF EndsOK
    <3>2. q # Root => ParentOf[q] \in DOMAIN v.tree
      BY <1>1, <1>4 DEF TreeOK
    <3> QED BY <1>1, <1>3, <1>4, <2>1, <3>1, <3>2 DEF EndsOK
  <2>3. \A a \in Clusters, k \in 1..E : IsEntry(w.slots[a][k]) => NoEnd(w, a, k - 1)
    BY <1>1, <1>4, <2>1 DEF EndsOK
  <2> QED BY <2>2, <2>3 DEF EndsOK
<1> QED BY <1>1, <1>12, <1>13, <1>14, <1>15, <1>16 DEF VolInv

\* A chain is freed.
FreeChain(v, c) == [v EXCEPT !.fat = Freed(@, Range(Chain(@, c)))]

\* fat_file_unlink() frees the chain.
LEMMA FreeChainFacts ==
  ASSUME NEW v, VolType(v), NEW c, c \in Clusters, NEW w, w = FreeChain(v, c)
  PROVE  /\ VolType(w) /\ w.slots = v.slots /\ w.data = v.data /\ w.tree = v.tree /\ w.failed = v.failed
         /\ \A a \in Clusters : w.fat[a] = IF a \in ChainSet(v.fat, c) THEN FREE ELSE v.fat[a]
<1> DEFINE f == Freed(v.fat, Range(Chain(v.fat, c)))
<1>1. v = [fat |-> v.fat, slots |-> v.slots, data |-> v.data, tree |-> v.tree, failed |-> v.failed]
  BY DEF VolType
<1>2. w = [v EXCEPT !.fat = f]
  BY DEF FreeChain
<1>3. f = [a \in Clusters |-> IF a \in ChainSet(v.fat, c) THEN FREE ELSE v.fat[a]]
  BY DEF Freed, ChainSet
<1> HIDE DEF f
<1>4. w = [fat |-> f, slots |-> v.slots, data |-> v.data, tree |-> v.tree, failed |-> v.failed]
  BY <1>1, <1>2
<1>5. w.fat = f /\ w.slots = v.slots /\ w.data = v.data /\ w.tree = v.tree /\ w.failed = v.failed
  BY ONLY <1>4
<1>6. v.fat \in [Clusters -> Clusters \union {FREE, EOC}]
  BY VolFacts
<1>7. f \in [Clusters -> Clusters \union {FREE, EOC}]
  BY <1>3, <1>6
<1>8. VolType(w)
  BY <1>4, <1>5, <1>7, VolFacts, VolMake
<1> QED BY <1>3, <1>5, <1>8

\* The file leaves the tree.
LEMMA WithoutFacts ==
  ASSUME NEW v, VolType(v), NEW p, p # Root, NEW w, w = Without(v, p)
  PROVE  /\ VolType(w) /\ w.fat = v.fat /\ w.slots = v.slots /\ w.data = v.data /\ w.failed = v.failed
         /\ DOMAIN w.tree = DOMAIN v.tree \ {p} /\ \A q \in DOMAIN v.tree \ {p} : w.tree[q] = v.tree[q]
<1> DEFINE t == [q \in DOMAIN v.tree \ {p} |-> v.tree[q]]
<1>1. v.tree \in [DOMAIN v.tree -> FileType] /\ DOMAIN v.tree \subseteq Paths /\ Root \in DOMAIN v.tree
  BY VolFacts
<1>2. v = [fat |-> v.fat, slots |-> v.slots, data |-> v.data, tree |-> v.tree, failed |-> v.failed]
  BY DEF VolType
<1>3. w = [v EXCEPT !.tree = t]
  BY DEF Without
<1>4. DOMAIN t = DOMAIN v.tree \ {p} /\ \A q \in DOMAIN v.tree \ {p} : t[q] = v.tree[q]
  OBVIOUS
<1>5. t \in [DOMAIN t -> FileType]
  BY <1>1
<1> HIDE DEF t
<1>6. w = [fat |-> v.fat, slots |-> v.slots, data |-> v.data, tree |-> t, failed |-> v.failed]
  BY <1>2, <1>3
<1>7. w.fat = v.fat /\ w.slots = v.slots /\ w.data = v.data /\ w.tree = t /\ w.failed = v.failed
  BY ONLY <1>6
<1>8. VolType(w)
  <2>1. DOMAIN w.tree \subseteq Paths /\ Root \in DOMAIN w.tree /\ w.tree \in [DOMAIN w.tree -> FileType]
    BY <1>1, <1>4, <1>5, <1>7
  <2> QED BY <1>6, <1>7, <2>1, VolFacts, VolMake
<1> QED BY <1>4, <1>7, <1>8

\* What fat_file_unlink() does, and the end of the file's node.
LEMMA UnlinkLeft ==
  ASSUME NEW v, VolInv(v), NEW p, p \in DOMAIN v.tree \ {Root}, NEW w, w = Without(UnlinkFile(v, p), p)
  PROVE  /\ VolType(w) /\ Left(v, w, p) /\ w.failed = v.failed
         /\ \A a \in Clusters, j \in 1..U : w.data[a][j] = v.data[a][j] \/ a = v.tree[ParentOf[p]].start
<1> DEFINE c == v.tree[p].start
           y == FreeChain(v, c)
           e == [v.tree[p].dentry EXCEPT !.path = Erased]
           d == ParentOf[p]
           k == v.tree[p].pos
           x == WriteEntry(y, d, e, k)
<1>1. /\ VolType(v) /\ c \in Clusters /\ v.tree[p].dentry \in Entries /\ k \in 0..(E - 1)
      /\ d \in DOMAIN v.tree
  BY VolFacts DEF VolInv, TreeOK
<1>2. UnlinkFile(v, p) = x
  BY DEF UnlinkFile, FreeChain
<1>3. /\ VolType(y) /\ y.slots = v.slots /\ y.data = v.data /\ y.tree = v.tree /\ y.failed = v.failed
      /\ \A a \in Clusters : y.fat[a] = IF a \in ChainSet(v.fat, c) THEN FREE ELSE v.fat[a]
  BY <1>1, FreeChainFacts
<1>4. e \in Entries
  BY <1>1 DEF Entries
<1>5. d \in DOMAIN y.tree /\ k \in 0..E /\ k < E
  BY <1>1, <1>3, FatAssumption
<1> HIDE DEF y, e, k, d
<1>6. /\ VolType(x) /\ x.fat = y.fat /\ x.tree = y.tree /\ x.failed = y.failed
      /\ EntryPut(y, x, y.tree[d].start, k + 1, e) /\ UnitLost(y, x, y.tree[d].start, UnitOf(k + 1))
  BY <1>3, <1>4, <1>5, EntryWritten
<1> HIDE DEF x
<1>7. /\ VolType(w) /\ w.fat = x.fat /\ w.slots = x.slots /\ w.data = x.data /\ w.failed = x.failed
      /\ DOMAIN w.tree = DOMAIN x.tree \ {p} /\ \A q \in DOMAIN x.tree \ {p} : w.tree[q] = x.tree[q]
  BY <1>2, <1>6, WithoutFacts
<1>8. DOMAIN w.tree = DOMAIN v.tree \ {p} /\ \A q \in DOMAIN v.tree \ {p} : w.tree[q] = v.tree[q]
  BY <1>3, <1>6, <1>7
<1>9. \A a \in Clusters : w.fat[a] = IF a \in ChainSet(v.fat, v.tree[p].start) THEN FREE ELSE v.fat[a]
  BY <1>3, <1>6, <1>7
<1>10. \A a \in Clusters, j \in 1..E :
         w.slots[a][j] = IF a = v.tree[ParentOf[p]].start /\ j = v.tree[p].pos + 1
                           THEN [v.tree[p].dentry EXCEPT !.path = Erased] ELSE v.slots[a][j]
  BY <1>3, <1>6, <1>7 DEF EntryPut, d, e, k
<1>11. w.failed = v.failed
  BY <1>3, <1>6, <1>7
<1>12. \A a \in Clusters, j \in 1..U : w.data[a][j] = v.data[a][j] \/ a = v.tree[ParentOf[p]].start
  BY <1>3, <1>6, <1>7 DEF UnitLost, d
<1> QED BY <1>7, <1>8, <1>9, <1>10, <1>11, <1>12 DEF Left

-----------------------------------------------------------------------------
(* A file is truncated *)

\* The table changes.
SetFat(v, f) == [v EXCEPT !.fat = f]

\* Nothing but the table changes.
LEMMA SetFatFacts ==
  ASSUME NEW v, VolType(v), NEW f, f \in [Clusters -> Clusters \union {FREE, EOC}], NEW w, w = SetFat(v, f)
  PROVE  VolType(w) /\ w.fat = f /\ w.slots = v.slots /\ w.data = v.data /\ w.tree = v.tree /\ w.failed = v.failed
<1>1. v = [fat |-> v.fat, slots |-> v.slots, data |-> v.data, tree |-> v.tree, failed |-> v.failed]
  BY DEF VolType
<1>2. w = [fat |-> f, slots |-> v.slots, data |-> v.data, tree |-> v.tree, failed |-> v.failed]
  BY <1>1 DEF SetFat
<1>3. w.fat = f /\ w.slots = v.slots /\ w.data = v.data /\ w.tree = v.tree /\ w.failed = v.failed
  BY ONLY <1>2
<1>4. VolType(w)
  BY <1>2, <1>3, VolFacts, VolMake
<1> QED BY <1>3, <1>4

\* The chain s of a table is cut after its i-th cluster.
CutAfter(fat, f, s, i) ==
  /\ i \in 1..Len(s) /\ f[s[i]] = EOC
  /\ \A j \in 1..(i - 1) : f[s[j]] = fat[s[j]]
  /\ \A a \in Clusters : a \notin Range(s) => f[a] = fat[a]

\* A chain that is cut ends where it is cut.
LEMMA CutSound ==
  ASSUME NEW fat, NEW c, c \in Clusters, Sound(fat, c), NEW f, NEW i, CutAfter(fat, f, Chain(fat, c), i)
  PROVE  Sound(f, c) /\ Len(Chain(f, c)) = i /\ ChainSet(f, c) \subseteq ChainSet(fat, c)
<1> DEFINE s == Chain(fat, c)
           t == SubSeq(s, 1, i)
<1>1. s \in Seq(Clusters) /\ Len(s) \in Nat /\ Len(s) > 0 /\ IsInjective(s) /\ DOMAIN s = 1..Len(s)
  BY ChainFacts DEF Sound
<1>2. /\ i \in 1..Len(s) /\ f[s[i]] = EOC
      /\ \A j \in 1..(i - 1) : f[s[j]] = fat[s[j]]
  BY DEF CutAfter
<1>3. f[s[i]] \notin Clusters
  BY <1>2 DEF EOC, Clusters
<1>4. Chain(f, c) = t
  BY <1>2, <1>3, ChainCut
<1> HIDE DEF s
<1>5. t \in Seq(Clusters) /\ Len(t) = i /\ DOMAIN t = 1..i /\ \A j \in 1..i : t[j] = s[j]
  BY <1>1, <1>2
<1> HIDE DEF t
<1>6. IsInjective(t)
  <2>1. \A a, b \in DOMAIN s : s[a] = s[b] => a = b
    BY <1>1 DEF IsInjective
  <2>2. \A a, b \in DOMAIN t : t[a] = t[b] => a = b
    BY <1>1, <1>2, <1>5, <2>1
  <2> QED BY <2>2 DEF IsInjective
<1>7. Last(t) = s[i]
  BY <1>2, <1>5 DEF Last
<1>8. Range(t) \subseteq Range(s)
  BY <1>1, <1>2, <1>5 DEF Range
<1> QED BY <1>2, <1>4, <1>5, <1>6, <1>7, <1>8 DEF Sound, ChainSet, s

\* A file keeps the clusters up to the one that its size ends in.
LEMMA CutInv ==
  ASSUME NEW v, VolInv(v), NEW p, p \in DOMAIN v.tree, ~v.tree[p].dentry.dir,
         NEW f, f \in [Clusters -> Clusters \union {FREE, EOC}], NEW i,
         CutAfter(v.fat, f, Chain(v.fat, v.tree[p].start), i), v.tree[p].dentry.size <= U * i,
         NEW w, w = SetFat(v, f)
  PROVE  VolInv(w) /\ w.tree = v.tree
<1> DEFINE s == v.tree[p].start
<1>1. VolType(w) /\ w.fat = f /\ w.slots = v.slots /\ w.tree = v.tree
  BY SetFatFacts DEF VolInv
<1>2. TreeOK(v) /\ ChainsOK(v) /\ PlacesOK(v) /\ OwnPlaces(v) /\ EndsOK(v) /\ VolType(v)
  BY DEF VolInv
<1>3. \A l : At(w, l) = At(v, l)
  BY <1>1 DEF At
<1>4. Starts(w) = Starts(v) /\ ReadStarts(w) = ReadStarts(v)
  BY <1>1 DEF Starts, ReadStarts
<1>5. Places(w) = Places(v)
  BY <1>3, <1>4 DEF Places
<1>6. Pending(w) = Pending(v)
  BY <1>3, <1>4, <1>5 DEF Pending
<1>7. Owned(w) = Owned(v)
  BY <1>3, <1>4, <1>6 DEF Owned
<1>8. s \in Owned(v) /\ s \in Clusters /\ Sound(v.fat, s)
  BY ChainSets
<1>9. Sound(f, s) /\ Len(Chain(f, s)) = i /\ ChainSet(f, s) \subseteq ChainSet(v.fat, s)
  BY <1>8, CutSound
<1>10. ASSUME NEW a, a \in Owned(v), a # s
       PROVE  Sound(f, a) /\ Chain(f, a) = Chain(v.fat, a) /\ ChainSet(f, a) = ChainSet(v.fat, a)
  <2>1. a \in Clusters /\ Sound(v.fat, a)
    BY <1>10, ChainSets
  <2>2. \A x \in ChainSet(v.fat, a) : x \in Clusters /\ x \notin ChainSet(v.fat, s)
    BY <1>2, <1>8, <1>10, ChainSets DEF ChainsOK
  <2>3. \A x \in ChainSet(v.fat, a) : f[x] = v.fat[x]
    BY <2>2 DEF CutAfter, ChainSet
  <2> HIDE DEF s
  <2> QED BY <2>1, <2>3, SoundSame
<1>11. \A a \in Owned(v) : Sound(f, a) /\ ChainSet(f, a) \subseteq ChainSet(v.fat, a)
  BY <1>9, <1>10
<1>12. \A l \in Pending(v) : At(v, l).start \in Owned(v) /\ At(v, l).start # s
  BY DEF Pending, Owned, Starts
<1>13. ChainsOK(w)
  <2>1. \A a, b \in Owned(v) : a # b => ChainSet(f, a) \intersect ChainSet(f, b) = {}
    BY <1>2, <1>11 DEF ChainsOK
  <2>2. \A l \in Pending(v) : At(v, l).size <= U * Len(Chain(f, At(v, l).start))
    <3>1. \A l \in Pending(v) : Chain(f, At(v, l).start) = Chain(v.fat, At(v, l).start)
      BY <1>10, <1>12
    <3> QED BY <1>2, <3>1 DEF ChainsOK
  <2>3. \A l, m \in Pending(v) : At(v, l).start = At(v, m).start => l = m
    BY <1>2 DEF ChainsOK
  <2> QED BY <1>1, <1>3, <1>6, <1>7, <1>11, <2>1, <2>2, <2>3 DEF ChainsOK
<1>14. \A q \in DOMAIN v.tree : v.tree[q].start \in Owned(v) /\ (q # p => v.tree[q].start # s)
  BY <1>2, ChainSets DEF TreeOK
<1>15. TreeOK(w)
  <2>1. \A q \in DOMAIN v.tree : v.tree[q].dentry.size <= U * Len(Chain(f, v.tree[q].start))
    <3>1. TAKE q \in DOMAIN v.tree
    <3>2. CASE q = p
      BY <1>9, <3>2
    <3>3. CASE q # p
      <4>1. Chain(f, v.tree[q].start) = Chain(v.fat, v.tree[q].start)
        BY <1>10, <1>14, <3>3
      <4> QED BY <1>2, <4>1 DEF TreeOK
    <3> QED BY <3>2, <3>3
  <2> QED BY <1>1, <1>2, <2>1 DEF TreeOK
<1>16. PlacesOK(w)
  <2>1. SUFFICES ASSUME NEW l \in Places(v) PROVE PlaceOK(w, l)
    BY <1>5 DEF PlacesOK
  <2>2. PlaceOK(v, l)
    BY <1>2 DEF PlacesOK
  <2>3. l[1] \in Clusters /\ l[1] \notin ChainSet(v.fat, s)
    BY <1>2, <2>2, PlaceFacts DEF PlaceOK
  <2>4. f[l[1]] = v.fat[l[1]]
    BY <2>3 DEF CutAfter, ChainSet
  <2>5. \A q \in DOMAIN v.tree : ChainSet(f, v.tree[q].start) \subseteq ChainSet(v.fat, v.tree[q].start)
    BY <1>11, <1>14
  <2>6. \A m \in Pending(v) : ChainSet(f, At(v, m).start) \subseteq ChainSet(v.fat, At(v, m).start)
    BY <1>11, <1>12
  <2> QED BY <1>1, <1>3, <1>6, <2>2, <2>4, <2>5, <2>6 DEF PlaceOK
<1>17. OwnPlaces(w)
  BY <1>1, <1>2, <1>3, <1>5, <1>6 DEF OwnPlaces, OwnPlace
<1>18. EndsOK(w)
  BY <1>1, <1>2 DEF EndsOK, NoEnd
<1> QED BY <1>1, <1>13, <1>15, <1>16, <1>17, <1>18 DEF VolInv

\* Where a file of m clusters ends, once it is cut to fewer than it needs.
LEMMA CutPlace ==
  ASSUME NEW off, off \in Nat, NEW size, size \in Nat, NEW m, m \in Nat, size <= U * m, off < size
  PROVE  (off \div U) + 1 \in 1..m /\ off <= U * ((off \div U) + 1)
<1>1. U \in Nat /\ U > 0
  BY FatAssumption
<1> DEFINE q == off \div U
           r == off % U
<1>2. q \in Nat /\ r \in Nat /\ r < U /\ off = U * q + r
  BY <1>1
<1> HIDE DEF q, r
<1>3. U * (q + 1) = U * q + U
  BY <1>1, <1>2
<1>4. q < m
  <2>1. SUFFICES ASSUME q >= m PROVE FALSE
    BY <1>2
  <2>2. U * q >= U * m
    BY <1>1, <1>2, <2>1
  <2> QED BY <1>1, <1>2, <2>2
<1>5. off <= U * (q + 1)
  BY <1>1, <1>2, <1>3
<1> QED BY <1>2, <1>4, <1>5 DEF q

\* fat_file_truncate() sets the size and cuts the chain.
LEMMA CutSteps ==
  ASSUME NEW v, VolType(v), NEW p, NEW f, NEW m
  PROVE  [v EXCEPT !.fat = f, !.tree[p].dentry.size = m] = SetFat(Resize(v, p, m, v.slots, v.data), f)
<1> DEFINE t == [v.tree EXCEPT ![p].dentry.size = m]
           x == Resize(v, p, m, v.slots, v.data)
           y == [v EXCEPT !.fat = f, !.tree[p].dentry.size = m]
<1>1. v = [fat |-> v.fat, slots |-> v.slots, data |-> v.data, tree |-> v.tree, failed |-> v.failed]
  BY DEF VolType
<1>2. x = [v EXCEPT !.data = v.data, !.slots = v.slots, !.tree = t]
  BY DEF Resize
<1>3. y = [v EXCEPT !.fat = f, !.tree = t]
  OBVIOUS
<1> HIDE DEF t, x, y
<1>4. x = [fat |-> v.fat, slots |-> v.slots, data |-> v.data, tree |-> t, failed |-> v.failed]
  BY <1>1, <1>2
<1>5. y = [fat |-> f, slots |-> v.slots, data |-> v.data, tree |-> t, failed |-> v.failed]
  BY <1>1, <1>3
<1>6. [x EXCEPT !.fat = f] = [fat |-> f, slots |-> v.slots, data |-> v.data, tree |-> t, failed |-> v.failed]
  BY ONLY <1>4
<1> QED BY <1>5, <1>6 DEF SetFat, x, y

\* The file before its entry is written: cut after its i-th cluster.
Cut(v, y, p, off, i) ==
  /\ VolInv(y) /\ SameFiles(v, y) /\ y.data = v.data
  /\ \A q \in DOMAIN v.tree : q # p => y.tree[q] = v.tree[q]
  /\ y.tree[p].dentry.size = off /\ off < v.tree[p].dentry.size /\ off <= U * i
  /\ CutAfter(v.fat, y.fat, Chain(v.fat, v.tree[p].start), i)

\* fat_file_truncate() cuts the file and writes its entry, or does nothing.
LEMMA TruncateSteps ==
  ASSUME NEW v, VolInv(v), NEW p, p \in DOMAIN v.tree \ {Root}, ~v.tree[p].dentry.dir, NEW off, off \in Nat,
         NEW w, w = TruncateTo(v, p, off)
  PROVE  w = v \/ \E y, i : Cut(v, y, p, off, i) /\ w = WriteOwnEntry(y, p)
<1> DEFINE file == v.tree[p]
           s == Chain(v.fat, v.tree[p].start)
           i == (off \div U) + 1
           rest == {s[j] : j \in (i + 1)..Len(s)}
           f == [Freed(v.fat, rest) EXCEPT ![s[i]] = EOC]
           small == off > v.tree[p].dentry.size
                    \/ AtLeast(1, ClustersFor(off)) >= AtLeast(1, ClustersFor(v.tree[p].dentry.size))
           y == [v EXCEPT !.fat = f, !.tree[p].dentry.size = off]
<1>1. w = IF small THEN v ELSE WriteOwnEntry(y, p)
  BY DEF TruncateTo
<1>2. CASE small
  BY <1>1, <1>2
<1>3. CASE ~small
  <2>1. /\ v.tree[p].start \in Clusters /\ v.tree[p].dentry \in Entries /\ VolType(v)
        /\ v.fat \in [Clusters -> Clusters \union {FREE, EOC}]
        /\ v.slots \in [Clusters -> [1..E -> Slot]] /\ v.data \in [Clusters -> [1..U -> Units]]
    BY VolFacts DEF VolInv
  <2>2. /\ s \in Seq(Clusters) /\ Len(s) \in Nat /\ DOMAIN s = 1..Len(s) /\ IsInjective(s)
        /\ \A j \in 1..Len(s) : s[j] \in Clusters
    BY <2>1, ChainFacts, ChainSets DEF Sound
  <2>3. v.tree[p].dentry.size \in Nat /\ v.tree[p].dentry.size <= U * Len(s)
    BY <2>1 DEF VolInv, TreeOK, Entries
  <2>4. off < v.tree[p].dentry.size
    <3>1. off <= v.tree[p].dentry.size
      BY <1>3, <2>3
    <3>2. off # v.tree[p].dentry.size
      <4>1. SUFFICES ASSUME off = v.tree[p].dentry.size PROVE FALSE
        OBVIOUS
      <4>2. ClustersFor(off) \in Int
        BY FatAssumption DEF ClustersFor
      <4>3. AtLeast(1, ClustersFor(off)) >= AtLeast(1, ClustersFor(off))
        BY <4>2 DEF AtLeast
      <4> QED BY <1>3, <4>1, <4>3
    <3> QED BY <2>3, <3>1, <3>2
  <2> HIDE DEF small
  <2>5. i \in 1..Len(s) /\ off <= U * i
    <3> DEFINE m == Len(s)
               size == v.tree[p].dentry.size
    <3>1. m \in Nat /\ size \in Nat /\ size <= U * m /\ off < size
      BY <2>2, <2>3, <2>4
    <3> HIDE DEF m, size
    <3>2. (off \div U) + 1 \in 1..m /\ off <= U * ((off \div U) + 1)
      BY <3>1, CutPlace
    <3> QED BY <3>2 DEF m
  <2> HIDE DEF i
  <2>6. f \in [Clusters -> Clusters \union {FREE, EOC}]
    BY <2>1 DEF Freed
  <2>7. CutAfter(v.fat, f, s, i)
    <3>1. \A j \in 1..Len(s) : s[j] = s[i] => j = i
      BY <2>2, <2>5 DEF IsInjective
    <3>2. \A j \in 1..(i - 1) : s[j] \notin rest /\ s[j] # s[i] /\ s[j] \in Clusters
      BY <2>2, <2>5, <3>1 DEF IsInjective
    <3>3. rest \subseteq Range(s) /\ s[i] \in Range(s)
      BY <2>2, <2>5 DEF Range
    <3>4. s[i] \in Clusters
      BY <2>2, <2>5
    <3> HIDE DEF rest
    <3>5. f[s[i]] = EOC /\ \A a \in Clusters : a # s[i] => f[a] = IF a \in rest THEN FREE ELSE v.fat[a]
      BY <3>4 DEF Freed
    <3> HIDE DEF f, s
    <3> QED BY <2>5, <3>2, <3>3, <3>5 DEF CutAfter
  <2> HIDE DEF f
  <2> DEFINE data == v.data
             slots == v.slots
             x == Resize(v, p, off, slots, data)
  <2>8. y = SetFat(x, f)
    BY <2>1, CutSteps
  <2>9. /\ p \in DOMAIN v.tree /\ off \in Nat /\ off <= U * Len(Chain(v.fat, v.tree[p].start))
        /\ slots \in [Clusters -> [1..E -> Slot]] /\ data \in [Clusters -> [1..U -> Units]]
        /\ \A c \in Clusters, k \in 1..E : slots[c][k] = v.slots[c][k]
    <3> DEFINE m == U * Len(s)
    <3>1. m \in Nat
      BY <2>2, FatAssumption
    <3>2. off <= m
      BY <2>3, <2>4, <3>1
    <3> QED BY <2>1, <3>2
  <2> HIDE DEF data, slots
  <2>10. /\ VolInv(x) /\ x.fat = v.fat /\ SameFiles(v, x) /\ x.tree[p].dentry.size = off
         /\ x.data = data /\ \A q \in DOMAIN v.tree : q # p => x.tree[q] = v.tree[q]
    BY <2>9, Resized
  <2>15. x.data = v.data
    BY <2>10 DEF data
  <2> HIDE DEF x, y
  <2>11. /\ x.tree[p].start = v.tree[p].start /\ p \in DOMAIN x.tree /\ ~x.tree[p].dentry.dir
    BY <2>10 DEF SameFiles
  <2>12. VolInv(y) /\ y.tree = x.tree
    <3>1. CutAfter(x.fat, f, Chain(x.fat, x.tree[p].start), i) /\ x.tree[p].dentry.size <= U * i
      BY <2>5, <2>7, <2>10, <2>11
    <3> QED BY <2>6, <2>8, <2>10, <2>11, <3>1, CutInv
  <2>13. y.fat = f /\ y.data = x.data
    BY <2>6, <2>8, <2>10, SetFatFacts DEF VolInv
  <2>14. Cut(v, y, p, off, i)
    BY <2>4, <2>5, <2>7, <2>10, <2>12, <2>13, <2>15 DEF Cut, SameFiles
  <2>16. w = WriteOwnEntry(y, p)
    BY <1>1, <1>3
  <2> QED BY <2>14, <2>16
<1> QED BY <1>2, <1>3

\* A truncated file keeps the clusters that its data are in.
LEMMA TruncateInv ==
  ASSUME NEW v, VolInv(v), NEW p, p \in DOMAIN v.tree \ {Root}, ~v.tree[p].dentry.dir, NEW off, off \in Nat,
         NEW w, w = TruncateTo(v, p, off)
  PROVE  VolInv(w) /\ SameFiles(v, w)
<1>1. CASE w = v
  BY <1>1 DEF SameFiles
<1>2. CASE \E y, i : Cut(v, y, p, off, i) /\ w = WriteOwnEntry(y, p)
  <2>1. PICK y, i : Cut(v, y, p, off, i) /\ w = WriteOwnEntry(y, p)
    BY <1>2
  <2>2. VolInv(y) /\ SameFiles(v, y)
    BY <2>1 DEF Cut
  <2>3. p \in DOMAIN y.tree \ {Root}
    BY <2>2 DEF SameFiles
  <2>4. VolInv(w) /\ w.tree = y.tree
    BY <2>1, <2>2, <2>3, WriteOwnInv
  <2> QED BY <2>2, <2>4 DEF SameFiles
<1> QED BY <1>1, <1>2, TruncateSteps

-----------------------------------------------------------------------------
(* A volume is mounted *)

\* What WellFormed says, of the volume as it is mounted.
Holds(v) == {l \in Clusters \X (1..E) : IsEntry(At(v, l))}
Firsts(v) == {2} \union {At(v, l).start : l \in Holds(v)}

\* What WellFormed says of an entry.
HoldOK(v, l) ==
  /\ PathIn(At(v, l)) # Root /\ At(v, l).start # 2
  /\ At(v, l).dir => PathIn(At(v, l)) \in Dirs /\ v.fat[At(v, l).start] = EOC
  /\ At(v, l).size <= U * Len(Chain(v.fat, At(v, l).start))
  /\ \/ l[1] = 2 /\ ParentOf[PathIn(At(v, l))] = Root
     \/ \E m \in Holds(v) : At(v, m).dir /\ At(v, m).start = l[1] /\ ParentOf[PathIn(At(v, l))] = PathIn(At(v, m))
  /\ \A k \in 1..(l[2] - 1) : v.slots[l[1]][k] # End
  /\ \A m \in Holds(v) : At(v, l).start = At(v, m).start => l = m

\* What it says of the first cluster of a chain.
FirstOK(v, a) ==
  /\ Sound(v.fat, a)
  /\ \A b \in Firsts(v) \ {a} : ChainSet(v.fat, a) \intersect ChainSet(v.fat, b) = {}

\* WellFormed says that of the volume once mounted.
LEMMA WellFormedIs ==
  ASSUME NEW image, WellFormed(image), NEW v, v.fat = image.fat, v.slots = image.slots, v.data = image.data
  PROVE  /\ v.fat \in [Clusters -> Clusters \union {FREE, EOC}]
         /\ v.slots \in [Clusters -> [1..E -> Slot]] /\ v.data \in [Clusters -> [1..U -> Units]]
         /\ v.fat[2] = EOC
         /\ \A l \in Holds(v) : HoldOK(v, l)
         /\ \A a \in Firsts(v) : FirstOK(v, a)
<1> DEFINE at(l) == image.slots[l[1]][l[2]]
           places == {l \in Clusters \X (1..E) : IsEntry(at(l))}
           starts == {2} \union {at(l).start : l \in places}
<1>1. /\ image \in [fat : [Clusters -> Clusters \union {FREE, EOC}],
                    slots : [Clusters -> [1..E -> Entries \union {End, Junk}]],
                    data : [Clusters -> [1..U -> Units]]]
      /\ image.fat[2] = EOC
  BY DEF WellFormed
<1>2. \A l \in places :
          /\ PathIn(at(l)) # Root /\ at(l).start # 2
          /\ at(l).dir => PathIn(at(l)) \in Dirs /\ image.fat[at(l).start] = EOC
          /\ at(l).size <= U * Len(Chain(image.fat, at(l).start))
          /\ \/ l[1] = 2 /\ ParentOf[PathIn(at(l))] = Root
             \/ \E m \in places : at(m).dir /\ at(m).start = l[1] /\ ParentOf[PathIn(at(l))] = PathIn(at(m))
          /\ \A k \in 1..(l[2] - 1) : image.slots[l[1]][k] # End
          /\ \A m \in places : at(l).start = at(m).start => l = m
  BY DEF WellFormed
<1>3. \A a \in starts :
          LET clusters == Chain(image.fat, a) IN
            /\ IsInjective(clusters) /\ image.fat[Last(clusters)] = EOC
            /\ \A b \in starts \ {a} : Range(clusters) \intersect Range(Chain(image.fat, b)) = {}
  BY DEF WellFormed
<1>4. \A l : At(v, l) = at(l)
  BY DEF At
<1>5. Holds(v) = places
  BY <1>4 DEF Holds
<1>6. Firsts(v) = starts
  BY <1>4, <1>5 DEF Firsts
<1> HIDE DEF places, starts
<1>7. \A l \in Holds(v) : HoldOK(v, l)
  <2>1. SUFFICES ASSUME NEW l \in places PROVE HoldOK(v, l)
    BY <1>5
  <2> HIDE DEF at
  <2>2. /\ PathIn(at(l)) # Root /\ at(l).start # 2
        /\ at(l).dir => PathIn(at(l)) \in Dirs /\ image.fat[at(l).start] = EOC
        /\ at(l).size <= U * Len(Chain(image.fat, at(l).start))
        /\ \/ l[1] = 2 /\ ParentOf[PathIn(at(l))] = Root
           \/ \E m \in places : at(m).dir /\ at(m).start = l[1] /\ ParentOf[PathIn(at(l))] = PathIn(at(m))
        /\ \A k \in 1..(l[2] - 1) : image.slots[l[1]][k] # End
        /\ \A m \in places : at(l).start = at(m).start => l = m
    BY <1>2
  <2>3. At(v, l) = at(l) /\ \A m \in places : At(v, m) = at(m)
    BY <1>4
  <2> QED BY <1>5, <2>2, <2>3 DEF HoldOK
<1>8. \A a \in Firsts(v) : FirstOK(v, a)
  BY <1>3, <1>6 DEF FirstOK, Sound, ChainSet
<1> QED BY <1>1, <1>7, <1>8 DEF Slot

\* The root, as it is when a volume is mounted.
LEMMA RootFacts ==
  ASSUME NEW f, f = File(Entry(Root, TRUE, 2), 0)
  PROVE  /\ f \in FileType /\ f.start = 2 /\ f.dentry.start = 2 /\ f.dentry.dir = TRUE /\ f.dentry.size = 0
         /\ f.dentry.path = Root /\ f.pos = 0 /\ f.nentries = 0 /\ f.read = FALSE
         /\ IsEntry(f.dentry) /\ PathIn(f.dentry) = Root /\ Root \in Dirs
<1> DEFINE c == 2
           dir == TRUE
           k == 0
           e == Entry(Root, dir, c)
<1>1. Root \in Paths /\ dir \in BOOLEAN /\ c \in Clusters /\ k \in 0..(E - 1) /\ Root \in Dirs
  BY FatAssumption
<1>2. f = File(e, k) /\ e = Entry(Root, dir, c)
  OBVIOUS
<1> HIDE DEF c, dir, k, e
<1>3. NewEntry(e, Root, dir, c)
  BY <1>1, <1>2, EntryFacts
<1>4. e \in Entries
  BY <1>3 DEF NewEntry
<1>5. NewAt(f, e, k)
  BY <1>1, <1>2, <1>4, FileFacts
<1> QED BY <1>1, <1>3, <1>5 DEF NewAt, NewEntry, c, dir, k

\* A well-formed image is a volume that VolInv holds of.
LEMMA MountedInv ==
  ASSUME NEW image, WellFormed(image), NEW v, v = Mounted(image)
  PROVE  VolInv(v) /\ v.tree[Root].dentry.dir
<1> DEFINE f == File(Entry(Root, TRUE, 2), 0)
           t == [q \in {Root} |-> f]
<1>1. v = [fat |-> image.fat, slots |-> image.slots, data |-> image.data, tree |-> t, failed |-> FALSE]
  BY DEF Mounted
<1> HIDE DEF t
<1>2. v.fat = image.fat /\ v.slots = image.slots /\ v.data = image.data /\ v.tree = t /\ v.failed = FALSE
  BY ONLY <1>1
<1> USE DEF t
<1>3. /\ v.fat \in [Clusters -> Clusters \union {FREE, EOC}]
      /\ v.slots \in [Clusters -> [1..E -> Slot]] /\ v.data \in [Clusters -> [1..U -> Units]]
      /\ v.fat[2] = EOC
      /\ \A l \in Holds(v) : HoldOK(v, l)
      /\ \A a \in Firsts(v) : FirstOK(v, a)
  BY <1>2, WellFormedIs
<1>4. /\ f \in FileType /\ f.start = 2 /\ f.dentry.start = 2 /\ f.dentry.dir = TRUE /\ f.dentry.size = 0
      /\ f.dentry.path = Root /\ f.pos = 0 /\ f.nentries = 0 /\ f.read = FALSE
      /\ IsEntry(f.dentry) /\ PathIn(f.dentry) = Root /\ Root \in Dirs
  BY RootFacts
<1> HIDE DEF f
<1>5. DOMAIN v.tree = {Root} /\ v.tree[Root] = f /\ v.tree \in [DOMAIN v.tree -> FileType] /\ Root \in Paths /\ 2 \in Clusters
  BY <1>2, <1>4, FatAssumption
<1> HIDE DEF t
<1>6. VolType(v)
  <2>1. v = [fat |-> v.fat, slots |-> v.slots, data |-> v.data, tree |-> v.tree, failed |-> v.failed]
    BY <1>1, <1>2
  <2>2. DOMAIN v.tree \subseteq Paths /\ v.failed \in BOOLEAN
    BY <1>2, <1>5
  <2> QED BY <1>3, <1>5, <2>1, <2>2, VolMake
<1>7. Starts(v) = {2} /\ ReadStarts(v) = {}
  BY <1>4, <1>5 DEF Starts, ReadStarts
<1>8. Places(v) = Holds(v)
  BY <1>7 DEF Places, Holds
<1>9. Pending(v) = Holds(v)
  BY <1>3, <1>7, <1>8 DEF Pending, HoldOK
<1>10. Owned(v) = Firsts(v)
  BY <1>7, <1>9 DEF Owned, Firsts
<1>11. Owned(v) \subseteq Clusters /\ \A l \in Holds(v) : At(v, l) \in Entries /\ IsEntry(At(v, l)) /\ At(v, l).start \in Owned(v)
                                      /\ l[1] \in Clusters /\ l[2] \in 1..E
  BY <1>6, <1>8, <1>9, PlaceFacts
<1>12. ChainSet(v.fat, 2) = {2}
  <2> DEFINE c == 2
             s == Chain(v.fat, c)
  <2>1. c \in Clusters /\ v.fat[c] \notin Clusters
    BY <1>3, <1>5 DEF EOC, Clusters
  <2> HIDE DEF c
  <2>2. s = <<c>>
    BY <2>1, ChainOne
  <2>3. Range(s) = {c}
    BY <2>2 DEF Range
  <2> QED BY <2>3 DEF ChainSet, c
<1>13. \A a \in Owned(v) : a \in ChainSet(v.fat, a)
  BY <1>11, ChainFacts
<1>14. TreeOK(v)
  <2>1. 0 <= U * Len(Chain(v.fat, v.tree[Root].start))
    <3> DEFINE m == Len(Chain(v.fat, v.tree[Root].start))
    <3>1. m \in Nat
      BY <1>4, <1>5, ChainFacts
    <3> HIDE DEF m
    <3>2. 0 <= U * m
      BY <3>1, FatAssumption
    <3> QED BY <3>2 DEF m
  <2> QED BY <1>4, <1>5, <2>1 DEF TreeOK
<1>15. ChainsOK(v)
  <2>1. \A a \in Owned(v) : Sound(v.fat, a)
    BY <1>3, <1>10 DEF FirstOK
  <2>2. \A a, b \in Owned(v) : a # b => ChainSet(v.fat, a) \intersect ChainSet(v.fat, b) = {}
    BY <1>3, <1>10 DEF FirstOK
  <2>3. \A l \in Pending(v) :
          /\ At(v, l).size <= U * Len(Chain(v.fat, At(v, l).start))
          /\ \A m \in Pending(v) : At(v, l).start = At(v, m).start => l = m
    BY <1>3, <1>9 DEF HoldOK
  <2> QED BY <2>1, <2>2, <2>3 DEF ChainsOK
<1>16. PlacesOK(v)
  <2>1. SUFFICES ASSUME NEW l \in Holds(v) PROVE PlaceOK(v, l)
    BY <1>8 DEF PlacesOK
  <2>2. HoldOK(v, l)
    BY <1>3
  <2>3. v.fat[l[1]] # FREE
    <3>1. CASE l[1] = 2
      BY <1>3, <3>1 DEF EOC, FREE
    <3>2. CASE l[1] # 2
      <4>1. PICK m \in Holds(v) : At(v, m).dir /\ At(v, m).start = l[1]
        BY <2>2, <3>2 DEF HoldOK
      <4>2. v.fat[l[1]] = EOC
        BY <1>3, <4>1 DEF HoldOK
      <4> QED BY <4>2 DEF EOC, FREE
    <3> QED BY <3>1, <3>2
  <2>4. PathIn(At(v, l)) \in Paths \ {Root} /\ (At(v, l).dir => PathIn(At(v, l)) \in Dirs)
    <3>1. PathIn(At(v, l)) \in Paths
      BY <1>11, SlotFacts, FatAssumption DEF PathIn, Entries
    <3> QED BY <2>2, <3>1 DEF HoldOK
  <2>5. ASSUME NEW p \in DOMAIN v.tree, l[1] \in ChainSet(v.fat, v.tree[p].start)
        PROVE  l[1] = v.tree[p].start /\ v.tree[p].dentry.dir /\ ParentOf[PathIn(At(v, l))] = p
    <3>1. p = Root /\ l[1] = 2
      BY <1>4, <1>5, <1>12, <2>5
    <3>2. \A m \in Holds(v) : At(v, m).start # 2
      BY <1>3 DEF HoldOK
    <3>3. ParentOf[PathIn(At(v, l))] = Root
      BY <2>2, <3>1, <3>2 DEF HoldOK
    <3> QED BY <1>4, <1>5, <3>1, <3>3
  <2>6. ASSUME NEW m \in Pending(v), l[1] \in ChainSet(v.fat, At(v, m).start)
        PROVE  l[1] = At(v, m).start /\ At(v, m).dir /\ ParentOf[PathIn(At(v, l))] = PathIn(At(v, m))
    <3>1. m \in Holds(v) /\ HoldOK(v, m) /\ At(v, m).start \in Owned(v) /\ 2 \in Owned(v)
      BY <1>3, <1>9, <1>10, <1>11 DEF Firsts
    <3>2. l[1] # 2
      BY <1>12, <1>15, <2>6, <3>1 DEF ChainsOK, HoldOK
    <3>3. PICK j \in Holds(v) : At(v, j).dir /\ At(v, j).start = l[1] /\ ParentOf[PathIn(At(v, l))] = PathIn(At(v, j))
      BY <2>2, <3>2 DEF HoldOK
    <3>4. l[1] \in Owned(v) /\ l[1] \in ChainSet(v.fat, l[1])
      BY <1>11, <1>13, <3>3
    <3>5. At(v, m).start = l[1]
      BY <1>15, <2>6, <3>1, <3>4 DEF ChainsOK
    <3>6. m = j
      BY <3>1, <3>3, <3>5 DEF HoldOK
    <3> QED BY <3>3, <3>6
  <2> QED BY <2>3, <2>4, <2>5, <2>6 DEF PlaceOK
<1>17. OwnPlaces(v)
  <2>1. SUFFICES ASSUME NEW l \in Holds(v), NEW p \in DOMAIN v.tree PROVE OwnPlace(v, l, p)
    BY <1>8 DEF OwnPlaces
  <2>2. At(v, l).start # v.tree[p].start
    BY <1>3, <1>4, <1>5 DEF HoldOK
  <2>3. ~(l[2] <= v.tree[p].nentries)
    BY <1>4, <1>5, <1>11
  <2> QED BY <2>2, <2>3 DEF OwnPlace
<1>18. EndsOK(v)
  <2>1. ASSUME NEW c \in Clusters, NEW k \in 1..E, IsEntry(v.slots[c][k]) PROVE NoEnd(v, c, k - 1)
    <3> DEFINE l == Place(c, k)
    <3>1. l[1] = c /\ l[2] = k /\ l \in Clusters \X (1..E)
      BY DEF Place
    <3> HIDE DEF l
    <3>2. l \in Holds(v)
      BY <2>1, <3>1 DEF Holds, At
    <3> QED BY <1>3, <3>1, <3>2 DEF HoldOK, NoEnd
  <2>2. \A p \in DOMAIN v.tree : p = Root /\ v.tree[p].nentries = 0
    BY <1>4, <1>5
  <2>3. \A p \in DOMAIN v.tree : (v.tree[p].dentry.dir => NoEnd(v, v.tree[p].start, v.tree[p].nentries))
    BY <2>2 DEF NoEnd
  <2> QED BY <2>1, <2>2, <2>3 DEF EndsOK
<1> QED BY <1>4, <1>5, <1>6, <1>14, <1>15, <1>16, <1>17, <1>18 DEF VolInv

-----------------------------------------------------------------------------
(* The invariant holds *)

\* What is left of VolInv in any case.
Typed(v) == VolType(v) /\ \A p \in DOMAIN v.tree : v.tree[p].dentry.start = v.tree[p].start

\* While the driver runs, VolInv holds of the volume; after that, that the chains
\* are disjoint is left of it.
Safe(v, s) ==
  /\ Typed(v) /\ DisjointChains(v) /\ s \in {"running", "crashed", "undefined"}
  /\ s = "running" => VolInv(v) /\ v.tree[Root].dentry.dir

\* The inductive invariant.
IInv == Safe(vol, status)

\* VolInv is all there is to show of a running driver.
LEMMA SafeRunning ==
  ASSUME NEW v, VolInv(v), v.tree[Root].dentry.dir, NEW s, s \in {"running", "crashed", "undefined"}
  PROVE  Safe(v, s)
<1>1. Typed(v)
  BY DEF VolInv, TreeOK, Typed
<1> QED BY <1>1, Disjoint DEF Safe

\* The root stays a directory.
LEMMA RootKept ==
  ASSUME NEW v, VolInv(v), v.tree[Root].dentry.dir, NEW w, SameFiles(v, w) \/ KeepsKinds(v, w)
  PROVE  w.tree[Root].dentry.dir
<1>1. Root \in DOMAIN v.tree
  BY VolFacts DEF VolInv
<1> QED BY <1>1 DEF SameFiles, KeepsKinds

\* errno is cleared.
LEMMA ClearedFacts ==
  ASSUME NEW v, VolInv(v), NEW w, w = Cleared(v)
  PROVE  VolInv(w) /\ w.fat = v.fat /\ w.tree = v.tree /\ w.slots = v.slots /\ w.data = v.data
<1> DEFINE b == FALSE
<1>1. b \in BOOLEAN /\ w = Errno(v, b) /\ VolType(v)
  BY DEF Cleared, Errno, VolInv
<1> HIDE DEF b
<1> QED BY <1>1, ErrnoInv

\* errno is set.
LEMMA FailedFacts ==
  ASSUME NEW v, VolInv(v), NEW w, w = [v EXCEPT !.failed = TRUE]
  PROVE  VolInv(w) /\ w.fat = v.fat /\ w.tree = v.tree /\ w.slots = v.slots /\ w.data = v.data
<1> DEFINE b == TRUE
<1>1. b \in BOOLEAN /\ w = Errno(v, b) /\ VolType(v)
  BY DEF Errno, VolInv
<1> HIDE DEF b
<1>2. VolInv(v)
  OBVIOUS
<1> QED BY ONLY <1>1, <1>2, ErrnoInv

\* What a running volume is.
LEMMA RunningFacts ==
  ASSUME IInv, Running
  PROVE  /\ VolInv(vol) /\ vol.tree[Root].dentry.dir /\ Root \in DOMAIN vol.tree
         /\ Typed(vol) /\ DisjointChains(vol) /\ status \in {"running", "crashed", "undefined"}
  BY VolFacts DEF IInv, Safe, Running, VolInv

\* A step that leaves the driver running.
LEMMA BecomesSafe ==
  ASSUME IInv, Running, NEW v, VolInv(v), v.tree[Root].dentry.dir, Becomes(v)
  PROVE  IInv'
<1>1. Safe(v, status)
  BY RunningFacts, SafeRunning
<1> QED BY <1>1 DEF IInv, Becomes

\* A step after which the driver may use memory that it does not have.
LEMMA ListedSafe ==
  ASSUME NEW v, VolInv(v), v.tree[Root].dentry.dir, NEW p, Listed(v, p)
  PROVE  IInv'
<1>1. vol' = v /\ status' \in {"running", "crashed", "undefined"}
  BY DEF Listed
<1>2. Safe(v, status')
  BY <1>1, SafeRunning
<1> QED BY <1>1, <1>2 DEF IInv

\* A step that ends in a crash.
LEMMA CrashSafe ==
  ASSUME IInv, Running, Crash
  PROVE  IInv'
<1>1. Typed(vol) /\ DisjointChains(vol) /\ VolInv(vol) /\ vol.tree[Root].dentry.dir
  BY RunningFacts
<1>2. Safe(vol, "crashed")
  BY <1>1 DEF Safe
<1> QED BY <1>2 DEF IInv, Crash

\* The step of GetattrMiss keeps the invariant.
LEMMA GetattrMissSafe ==
  ASSUME IInv, NEW p, GetattrMiss(p)
  PROVE  IInv'
<1> DEFINE w == [vol EXCEPT !.failed = TRUE]
<1>1. Running /\ Becomes(w)
  BY DEF GetattrMiss
<1>2. VolInv(vol) /\ vol.tree[Root].dentry.dir
  BY <1>1, RunningFacts
<1>3. VolInv(w) /\ w.tree = vol.tree
  BY <1>2, FailedFacts
<1> HIDE DEF w
<1> QED BY <1>1, <1>2, <1>3, BecomesSafe

\* The step of Readdir keeps the invariant.
LEMMA ReaddirSafe ==
  ASSUME IInv, CleanDirs, NEW p, Readdir(p)
  PROVE  IInv'
<1>1. Running /\ p \in DOMAIN vol.tree /\ vol.tree[p].dentry.dir
  BY DEF Readdir, IsDir, Exists
<1>2. VolInv(vol) /\ vol.tree[Root].dentry.dir /\ Root \in DOMAIN vol.tree
  BY <1>1, RunningFacts
<1>3. CASE vol.tree[p].read
  <2> DEFINE w == Cleared(vol)
  <2>1. Listed(w, p)
    BY <1>3 DEF Readdir
  <2>2. VolInv(w) /\ w.tree = vol.tree
    BY <1>2, ClearedFacts
  <2> HIDE DEF w
  <2> QED BY <1>2, <2>1, <2>2, ListedSafe
<1>4. CASE ~vol.tree[p].read /\ FreeClusters(vol.fat) = {}
  <2>1. Crash
    BY <1>4 DEF Readdir
  <2> QED BY <1>1, <2>1, CrashSafe
<1>5. CASE ~vol.tree[p].read /\ FreeClusters(vol.fat) # {}
  <2> DEFINE x == ReadChildren(vol, p)
             w == NewFile(x, Log)
  <2>1. Listed(w, p)
    BY <1>5 DEF Readdir
  <2> Clean(vol, p)
    BY <1>1 DEF CleanDirs, Clean
  <2>2. VolInv(x) /\ x.fat = vol.fat /\ DirRead(vol, x, p, Processed(vol.slots[vol.tree[p].start]))
    BY <1>1, <1>2, <1>5, ReadChildrenInv
  <2> HIDE DEF x
  <2>3. Root \in DOMAIN x.tree /\ x.tree[Root].dentry.dir
    BY <1>2, <2>2 DEF DirRead
  <2>4. Log \in Paths \ {Root} /\ ParentOf[Log] = Root /\ Log \notin Dirs
    BY FatAssumption
  <2>5. CanCreate(x, Log, FALSE)
    BY <1>5, <2>2, <2>3, <2>4 DEF CanCreate
  <2>6. VolInv(w) /\ KeepsKinds(x, w)
    BY <2>5, NewFileInv
  <2> HIDE DEF w
  <2>7. w.tree[Root].dentry.dir
    BY <2>2, <2>3, <2>6, RootKept
  <2> QED BY <2>1, <2>6, <2>7, ListedSafe
<1> QED BY <1>3, <1>4, <1>5

\* The step of Mknod keeps the invariant.
LEMMA MknodSafe ==
  ASSUME IInv, NEW p, p \in Paths \ {Root, Log}, Mknod(p)
  PROVE  IInv'
<1>1. Running /\ p \notin DOMAIN vol.tree /\ ParentOf[p] \in DOMAIN vol.tree /\ vol.tree[ParentOf[p]].dentry.dir
  BY DEF Mknod, IsDir, Exists
<1>2. VolInv(vol) /\ vol.tree[Root].dentry.dir
  BY <1>1, RunningFacts
<1>3. CASE FreeClusters(vol.fat) = {}
  <2>1. Crash
    BY <1>3 DEF Mknod
  <2> QED BY <1>1, <2>1, CrashSafe
<1>4. CASE FreeClusters(vol.fat) # {}
  <2> DEFINE w == NewFile(vol, p)
  <2>1. Becomes(w)
    BY <1>4 DEF Mknod
  <2>2. CanCreate(vol, p, FALSE)
    BY <1>1, <1>2, <1>4 DEF CanCreate
  <2>3. VolInv(w) /\ KeepsKinds(vol, w)
    BY <2>2, NewFileInv
  <2> HIDE DEF w
  <2>4. w.tree[Root].dentry.dir
    BY <1>2, <2>3, RootKept
  <2> QED BY <1>1, <2>1, <2>3, <2>4, BecomesSafe
<1> QED BY <1>3, <1>4

\* The step of Mkdir keeps the invariant.
LEMMA MkdirSafe ==
  ASSUME IInv, NEW p, p \in Dirs \ {Root}, Mkdir(p)
  PROVE  IInv'
<1>1. Running /\ p \notin DOMAIN vol.tree /\ ParentOf[p] \in DOMAIN vol.tree /\ vol.tree[ParentOf[p]].dentry.dir
  BY DEF Mkdir, IsDir, Exists
<1>2. VolInv(vol) /\ vol.tree[Root].dentry.dir /\ Root \in DOMAIN vol.tree
  BY <1>1, RunningFacts
<1>3. CASE FreeClusters(vol.fat) = {}
  <2>1. Crash
    BY <1>3 DEF Mkdir
  <2> QED BY <1>1, <2>1, CrashSafe
<1>4. CASE FreeClusters(vol.fat) # {}
  <2> DEFINE dir == TRUE
             w == Create(vol, p, dir)
  <2>1. Becomes(w)
    BY <1>4 DEF Mkdir
  <2>2. p \in Paths \ {Root} /\ p # Log
    BY FatAssumption
  <2>3. CanCreate(vol, p, dir)
    BY <1>1, <1>2, <1>4, <2>2 DEF CanCreate
  <2> HIDE DEF dir
  <2>4. VolInv(w) /\ \A q \in DOMAIN vol.tree : w.tree[q].dentry = vol.tree[q].dentry
    BY <2>3, CreateInv
  <2> HIDE DEF w
  <2> QED BY <1>1, <1>2, <2>1, <2>4, BecomesSafe
<1> QED BY <1>3, <1>4

\* The step of Read keeps the invariant.
LEMMA ReadSafe ==
  ASSUME IInv, NEW p, NEW off, NEW n, Read(p, off, n)
  PROVE  IInv'
<1> DEFINE v == Cleared(vol)
           read == IF Pread(v, p, off, n) = <<>> THEN v ELSE WriteOwnEntry(v, p)
<1>1. Running /\ p \in DOMAIN vol.tree /\ ~vol.tree[p].dentry.dir
  BY DEF Read, IsFile, Exists
<1>2. VolInv(vol) /\ vol.tree[Root].dentry.dir /\ Root \in DOMAIN vol.tree
  BY <1>1, RunningFacts
<1>3. IF off > vol.tree[p].dentry.size
        THEN Becomes([v EXCEPT !.failed = TRUE])
        ELSE IF Exists(Log) THEN Becomes(LogActivity(read)) ELSE Crash
  BY DEF Read
<1>4. VolInv(v) /\ v.tree = vol.tree
  BY <1>2, ClearedFacts
<1> HIDE DEF v
<1>5. CASE off > vol.tree[p].dentry.size
  <2> DEFINE w == [v EXCEPT !.failed = TRUE]
  <2>1. Becomes(w)
    BY <1>3, <1>5
  <2>2. VolInv(w) /\ w.tree = v.tree
    BY <1>4, FailedFacts
  <2> HIDE DEF w
  <2> QED BY <1>1, <1>2, <1>4, <2>1, <2>2, BecomesSafe
<1>6. CASE ~(off > vol.tree[p].dentry.size) /\ ~Exists(Log)
  <2>1. Crash
    BY <1>3, <1>6
  <2> QED BY <1>1, <2>1, CrashSafe
<1>7. CASE ~(off > vol.tree[p].dentry.size) /\ Exists(Log)
  <2> DEFINE w == LogActivity(read)
  <2>1. Becomes(w)
    BY <1>3, <1>7
  <2>2. p \in DOMAIN v.tree \ {Root}
    BY <1>1, <1>2, <1>4
  <2>3. VolInv(WriteOwnEntry(v, p)) /\ WriteOwnEntry(v, p).tree = v.tree
    BY <1>4, <2>2, WriteOwnInv
  <2>4. VolInv(read) /\ read.tree = v.tree
    BY <1>4, <2>3
  <2> HIDE DEF read
  <2>5. Log \in DOMAIN read.tree /\ read.tree[Root].dentry.dir
    BY <1>2, <1>4, <1>7, <2>4 DEF Exists
  <2>6. VolInv(w) /\ SameFiles(read, w)
    BY <2>4, <2>5, LogActivityInv
  <2> HIDE DEF w
  <2>7. w.tree[Root].dentry.dir
    BY <2>4, <2>5, <2>6, RootKept
  <2> QED BY <1>1, <2>1, <2>6, <2>7, BecomesSafe
<1> QED BY <1>5, <1>6, <1>7

\* The step of Write keeps the invariant.
LEMMA WriteSafe ==
  ASSUME IInv, NEW p, NEW off, off \in Nat, NEW vals, vals \in Seq(Writable), Write(p, off, vals)
  PROVE  IInv'
<1>1. Running /\ p \in DOMAIN vol.tree /\ ~vol.tree[p].dentry.dir
  BY DEF Write, IsFile, Exists
<1>2. VolInv(vol) /\ vol.tree[Root].dentry.dir /\ Root \in DOMAIN vol.tree
  BY <1>1, RunningFacts
<1>3. CASE ~Exists(Log)
  <2>1. Crash
    BY <1>3 DEF Write
  <2> QED BY <1>1, <2>1, CrashSafe
<1>4. CASE Exists(Log)
  <2> DEFINE x == LogActivity(vol)
             w == Pwrite(x, p, off, vals)
  <2>1. Becomes(w)
    BY <1>4 DEF Write
  <2>2. VolInv(x) /\ SameFiles(vol, x)
    BY <1>2, <1>4, LogActivityInv DEF Exists
  <2> HIDE DEF x
  <2>3. p \in DOMAIN x.tree \ {Root} /\ ~x.tree[p].dentry.dir /\ x.tree[Root].dentry.dir
    BY <1>1, <1>2, <2>2 DEF SameFiles
  <2>4. VolInv(w) /\ SameFiles(x, w)
    BY <2>2, <2>3, PwriteInv
  <2> HIDE DEF w
  <2>5. w.tree[Root].dentry.dir
    BY <2>2, <2>3, <2>4, RootKept
  <2> QED BY <1>1, <2>1, <2>4, <2>5, BecomesSafe
<1> QED BY <1>3, <1>4

\* The step of Truncate keeps the invariant.
LEMMA TruncateSafe ==
  ASSUME IInv, NEW p, NEW off, off \in Nat, Truncate(p, off)
  PROVE  IInv'
<1> DEFINE v == Cleared(vol)
           w == TruncateTo(v, p, off)
<1>1. Running /\ p \in DOMAIN vol.tree /\ ~vol.tree[p].dentry.dir /\ Becomes(w)
  BY DEF Truncate, IsFile, Exists
<1>2. VolInv(vol) /\ vol.tree[Root].dentry.dir /\ Root \in DOMAIN vol.tree
  BY <1>1, RunningFacts
<1>3. VolInv(v) /\ v.tree = vol.tree
  BY <1>2, ClearedFacts
<1> HIDE DEF v
<1>4. p \in DOMAIN v.tree \ {Root} /\ ~v.tree[p].dentry.dir /\ v.tree[Root].dentry.dir
  BY <1>1, <1>2, <1>3
<1>5. VolInv(w) /\ SameFiles(v, w)
  BY <1>3, <1>4, TruncateInv
<1> HIDE DEF w
<1>6. w.tree[Root].dentry.dir
  BY <1>3, <1>4, <1>5, RootKept
<1> QED BY <1>1, <1>5, <1>6, BecomesSafe

\* The step of Utime keeps the invariant.
LEMMA UtimeSafe ==
  ASSUME IInv, NEW p, Utime(p)
  PROVE  IInv'
<1>1. Running /\ p \in DOMAIN vol.tree
  BY DEF Utime, Exists
<1>2. VolInv(vol) /\ vol.tree[Root].dentry.dir
  BY <1>1, RunningFacts
<1>3. CASE p = Root
  <2> DEFINE w == [vol EXCEPT !.failed = TRUE]
  <2>1. Becomes(w)
    BY <1>3 DEF Utime
  <2>2. VolInv(w) /\ w.tree = vol.tree
    BY <1>2, FailedFacts
  <2> HIDE DEF w
  <2> QED BY <1>1, <1>2, <2>1, <2>2, BecomesSafe
<1>4. CASE p # Root
  <2> DEFINE v == Cleared(vol)
             w == WriteOwnEntry(v, p)
  <2>1. Becomes(w)
    BY <1>4 DEF Utime
  <2>2. VolInv(v) /\ v.tree = vol.tree
    BY <1>2, ClearedFacts
  <2> HIDE DEF v
  <2>3. p \in DOMAIN v.tree \ {Root}
    BY <1>1, <1>4, <2>2
  <2>4. VolInv(w) /\ w.tree = v.tree
    BY <2>2, <2>3, WriteOwnInv
  <2> HIDE DEF w
  <2> QED BY <1>1, <1>2, <2>1, <2>2, <2>4, BecomesSafe
<1> QED BY <1>3, <1>4

\* What is left of it once a file's node is used after it was freed.
LEMMA LeftSafe ==
  ASSUME NEW v, VolInv(v), NEW p, p \in DOMAIN v.tree \ {Root}, NEW w, w = Without(UnlinkFile(v, p), p)
  PROVE  VolType(w) /\ Left(v, w, p) /\ Safe(w, "undefined")
<1>1. VolType(w) /\ Left(v, w, p)
  BY UnlinkLeft
<1>2. DisjointChains(w)
  BY <1>1, LeftChains
<1>3. \A q \in DOMAIN w.tree : w.tree[q].dentry.start = w.tree[q].start
  BY <1>1 DEF Left, VolInv, TreeOK
<1> QED BY <1>1, <1>2, <1>3 DEF Safe, Typed

\* The step of Unlink keeps the invariant.
LEMMA UnlinkSafe ==
  ASSUME IInv, NEW p, Unlink(p)
  PROVE  IInv'
<1> DEFINE v == Cleared(vol)
           w == Without(UnlinkFile(v, p), p)
<1>1. Running /\ p \in DOMAIN vol.tree /\ ~vol.tree[p].dentry.dir /\ vol' = w /\ status' = "undefined"
  BY DEF Unlink, IsFile, Exists
<1>2. VolInv(vol) /\ vol.tree[Root].dentry.dir
  BY <1>1, RunningFacts
<1>3. VolInv(v) /\ v.tree = vol.tree
  BY <1>2, ClearedFacts
<1> HIDE DEF v
<1>4. p \in DOMAIN v.tree \ {Root}
  BY <1>1, <1>2, <1>3
<1>5. Safe(w, "undefined")
  BY <1>3, <1>4, LeftSafe
<1> QED BY <1>1, <1>5 DEF IInv

\* The step of Rmdir keeps the invariant.
LEMMA RmdirSafe ==
  ASSUME IInv, NEW p, p \in Dirs, Rmdir(p)
  PROVE  IInv'
<1> DEFINE u == Cleared(vol)
           v == Counted(u, p)
           w == Without(UnlinkFile(v, p), p)
<1>1. Running /\ p \in DOMAIN vol.tree /\ vol.tree[p].dentry.dir /\ p # Root
  BY DEF Rmdir, IsDir, Exists
<1>2. VolInv(vol) /\ vol.tree[Root].dentry.dir /\ Root \in DOMAIN vol.tree
  BY <1>1, RunningFacts
<1>3. IF Live(v.slots[v.tree[p].start]) # {}
        THEN Becomes([v EXCEPT !.failed = TRUE])
        ELSE /\ vol' = w
             /\ status' \in {"running", "undefined"}
             /\ Children(vol.tree, p) # {} => status' = "undefined"
  BY DEF Rmdir
<1>4. VolInv(u) /\ u.tree = vol.tree
  BY <1>2, ClearedFacts
<1> HIDE DEF u
<1>5. p \in DOMAIN u.tree /\ u.tree[p].dentry.dir /\ u.tree[Root].dentry.dir /\ Root \in DOMAIN u.tree
  BY <1>1, <1>2, <1>4
<1>6. VolInv(v)
  BY <1>4, <1>5, CountedInv
<1>7. DirRead(u, v, p, Processed(u.slots[u.tree[p].start])) /\ DOMAIN v.tree = DOMAIN u.tree
  BY <1>4, <1>5, CountedFacts
<1> HIDE DEF v
<1>8. p \in DOMAIN v.tree \ {Root} /\ v.tree[Root].dentry.dir /\ Root \in DOMAIN v.tree /\ DOMAIN v.tree = DOMAIN vol.tree
  BY <1>1, <1>4, <1>5, <1>7 DEF DirRead
<1>9. CASE Live(v.slots[v.tree[p].start]) # {}
  <2> DEFINE x == [v EXCEPT !.failed = TRUE]
  <2>1. Becomes(x)
    BY <1>3, <1>9
  <2>2. VolInv(x) /\ x.tree = v.tree
    BY <1>6, FailedFacts
  <2> HIDE DEF x
  <2> QED BY <1>1, <1>8, <2>1, <2>2, BecomesSafe
<1>10. CASE Live(v.slots[v.tree[p].start]) = {}
  <2>1. vol' = w /\ status' \in {"running", "undefined"}
        /\ (Children(vol.tree, p) # {} => status' = "undefined")
    BY <1>3, <1>10
  <2>2. VolType(w) /\ Left(v, w, p) /\ Safe(w, "undefined")
    BY <1>6, <1>8, LeftSafe
  <2> HIDE DEF w
  <2>3. CASE status' = "undefined"
    BY <2>1, <2>2, <2>3 DEF IInv
  <2>4. CASE status' = "running"
    <3>1. \A q \in DOMAIN v.tree \ {Root} : ParentOf[q] # p
      BY <1>8, <2>1, <2>4 DEF Children
    <3>2. \A k \in 1..E : ~IsEntry(v.slots[v.tree[p].start][k])
      <4> DEFINE c == v.tree[p].start
                 s == v.slots[c]
      <4>1. c \in Clusters /\ s \in [1..E -> Slot]
        BY <1>6, <1>8, VolFacts DEF VolInv
      <4> v.tree[p].dentry.dir
        BY <1>1, <1>4, <1>7 DEF DirRead
      <4>2. \A k \in 1..E : IsEntry(s[k]) => \A j \in 1..(k - 1) : s[j] # End
        BY <1>6, <1>8, <4>1 DEF VolInv, EndsOK, NoEnd, Owned, Starts
      <4>3. Live(s) = {}
        BY <1>10
      <4> HIDE DEF s
      <4>4. \A k \in 1..E : ~IsEntry(s[k])
        BY <4>1, <4>2, <4>3, ProcessedFacts
      <4> QED BY <4>4 DEF s
    <3>3. p # Log
      BY FatAssumption
    <3>4. p \in DOMAIN v.tree \ {Root, Log}
      BY <1>8, <3>3
    <3>5. VolInv(w)
      BY <1>6, <2>2, <3>1, <3>2, <3>4, LeftInv
    <3>6. w.tree[Root].dentry.dir
      BY <1>8, <2>2 DEF Left
    <3>7. Safe(w, "running")
      BY <3>5, <3>6, SafeRunning
    <3> QED BY <2>1, <2>4, <3>7 DEF IInv
  <2> QED BY <2>1, <2>3, <2>4
<1> QED BY <1>9, <1>10

\* A volume is mounted with the invariant.
LEMMA InitSafe == Init => IInv
<1>1. SUFFICES ASSUME Init PROVE IInv
  OBVIOUS
<1>2. PICK image \in Images : vol = Mounted(image)
  BY <1>1 DEF Init
<1>3. WellFormed(image)
  BY ImagesAssumption
<1>4. VolInv(vol) /\ vol.tree[Root].dentry.dir
  BY <1>2, <1>3, MountedInv
<1>5. status \in {"running", "crashed", "undefined"}
  BY <1>1 DEF Init
<1> QED BY <1>4, <1>5, SafeRunning DEF IInv

\* The root of a mounted volume has no entry read from the data of a file.
LEMMA InitClean == Init => CleanDirs
<1>1. SUFFICES ASSUME Init PROVE CleanDirs
  OBVIOUS
<1>2. PICK image \in Images : vol = Mounted(image)
  BY <1>1 DEF Init
<1>3. WellFormed(image)
  BY ImagesAssumption
<1>4. image.slots[2] \in [1..E -> Slot] /\ \A k \in 1..E : image.slots[2][k] \notin Leftovers
  <2>1. \A k \in 1..E : image.slots[2][k] \notin Leftovers
    BY <1>3 DEF WellFormed
  <2>2. image \in [fat : [Clusters -> Clusters \union {FREE, EOC}],
                   slots : [Clusters -> [1..E -> Entries \union {End, Junk}]],
                   data : [Clusters -> [1..U -> Units]]]
    BY <1>3 DEF WellFormed
  <2>3. image.slots \in [Clusters -> [1..E -> Slot]] /\ 2 \in Clusters
    BY <2>2, FatAssumption DEF Slot
  <2> QED BY <2>1, <2>3
<1>5. vol.slots = image.slots /\ DOMAIN vol.tree = {Root} /\ vol.tree[Root].start = 2
  BY <1>2 DEF Mounted, File, Entry
<1>6. \A k \in Live(image.slots[2]) : k \in 1..E
  BY <1>4, ProcessedFacts
<1> QED BY <1>4, <1>5, <1>6 DEF CleanDirs

\* The invariant of the runs: that of the driver, as long as they are clean.
CleanInv == clean \in BOOLEAN /\ (clean => IInv /\ CleanDirs)

\* Every step from a state with clean directories keeps it.
LEMMA NextSafe == IInv /\ CleanDirs /\ [Next]_vars => IInv'
<1> SUFFICES ASSUME CleanDirs, IInv, [Next]_vars PROVE IInv'
  OBVIOUS
<1>1. IInv
  OBVIOUS
<1>2. CASE UNCHANGED vars
  BY <1>1, <1>2 DEF vars, IInv
<1>3. CASE Operation
  <2>1. CASE \E p \in Paths \ {Root, Log} : GetattrMiss(p) \/ Mknod(p)
    BY <1>1, <2>1, GetattrMissSafe, MknodSafe
  <2>2. CASE \E p \in Dirs : Readdir(p)
    BY <1>1, <2>2, ReaddirSafe
  <2>3. CASE \E p \in Dirs \ {Root} : Mkdir(p) \/ Rmdir(p)
    BY <1>1, <2>3, MkdirSafe, RmdirSafe
  <2>4. CASE \E p \in Paths, off \in {0, U} : Read(p, off, U)
    BY <1>1, <2>4, ReadSafe
  <2>5. CASE \E p \in Paths \ {Log} : Utime(p)
    BY <1>1, <2>5, UtimeSafe
  <2>6. CASE \E p \in Paths \ {Log} : \E off \in 0..(2 * U), n \in 1..2, x \in Values : Write(p, off, [i \in 1..n |-> x])
    <3>1. PICK p \in Paths \ {Log}, off \in 0..(2 * U), n \in 1..2, x \in Values : Write(p, off, [i \in 1..n |-> x])
      BY <2>6
    <3> DEFINE vals == [i \in 1..n |-> x]
    <3>2. off \in Nat /\ n \in Nat /\ x \in Writable
      BY DEF Writable
    <3>3. vals \in Seq(Writable)
      BY <3>2
    <3>4. Write(p, off, vals)
      BY <3>1
    <3> HIDE DEF vals
    <3> QED BY <1>1, <3>2, <3>3, <3>4, WriteSafe
  <2>7. CASE \E p \in Paths \ {Log} : \E off \in 0..(2 * U + 1) : Truncate(p, off)
    <3>1. PICK p \in Paths \ {Log}, off \in 0..(2 * U + 1) : Truncate(p, off)
      BY <2>7
    <3>2. off \in Nat
      OBVIOUS
    <3> QED BY <1>1, <3>1, <3>2, TruncateSafe
  <2>8. CASE \E p \in Paths \ {Log} : Unlink(p)
    BY <1>1, <2>8, UnlinkSafe
  <2> QED BY <1>3, <2>1, <2>2, <2>3, <2>4, <2>5, <2>6, <2>7, <2>8 DEF Operation
<1> QED BY <1>1, <1>2, <1>3 DEF Next

\* It has the type invariant and the disjoint chains in it.
LEMMA IInvImplies == IInv /\ clean \in BOOLEAN => FatTypeOK /\ ChainsDisjoint
<1>1. SUFFICES ASSUME IInv, clean \in BOOLEAN PROVE FatTypeOK /\ ChainsDisjoint
  OBVIOUS
<1>2. Typed(vol) /\ DisjointChains(vol) /\ status \in {"running", "crashed", "undefined"}
  BY <1>1 DEF IInv, Safe
<1>3. ChainsDisjoint
  BY <1>2 DEF DisjointChains, ChainsDisjoint, ChainOf, ChainSet
<1>4. \A p \in DOMAIN vol.tree : p # Root /\ Running => IsDir(ParentOf[p])
  <2>1. CASE Running
    <3>1. TreeOK(vol)
      BY <1>1, <2>1, RunningFacts DEF VolInv
    <3> QED BY <3>1 DEF TreeOK, IsDir, Exists
  <2> QED BY <2>1
<1>5. FatTypeOK
  <2>1. /\ vol.fat \in [Clusters -> Clusters \union {FREE, EOC}]
        /\ vol.slots \in [Clusters -> [1..E -> Slot]]
        /\ vol.data \in [Clusters -> [1..U -> Units]]
        /\ DOMAIN vol.tree \subseteq Paths /\ vol.failed \in BOOLEAN
        /\ \A p \in DOMAIN vol.tree :
             vol.tree[p].dentry \in Entries /\ vol.tree[p].pos \in 0..(E - 1) /\ vol.tree[p].nentries \in 0..E
    BY <1>2, VolFacts DEF Typed
  <2> QED BY <1>1, <1>2, <1>4, <2>1 DEF FatTypeOK, Typed, Slot
<1> QED BY <1>3, <1>5

\* A volume is mounted clean, and a step that leaves it clean keeps the invariant.
LEMMA CleanSafe == (Init => CleanInv) /\ (CleanInv /\ [Next]_vars => CleanInv')
<1>1. Init => CleanInv
  BY InitSafe, InitClean DEF Init, CleanInv
<1>2. SUFFICES ASSUME CleanInv, [Next]_vars PROVE CleanInv'
  BY <1>1
<1>3. CASE UNCHANGED vars
  <2>1. clean' = clean /\ (CleanDirs => CleanDirs')
    BY <1>3 DEF vars, CleanDirs
  <2> QED BY <1>2, <2>1, NextSafe DEF CleanInv
<1>4. CASE Next
  <2>1. clean' = (clean /\ CleanDirs')
    BY <1>4 DEF Next
  <2>2. clean' \in BOOLEAN /\ (clean' => clean /\ CleanDirs')
    BY <2>1
  <2> QED BY <1>2, <2>2, NextSafe DEF CleanInv
<1> QED BY <1>2, <1>3, <1>4

\* The invariant of the driver holds until a directory is on a cluster where the
\* data of a file are read as an entry.
THEOREM InvariantAlways == Spec => []CleanInv
BY CleanSafe, PTL DEF Spec

\* Every variable has its type until then.
THEOREM TypeCorrect == Spec => [](clean => FatTypeOK)
<1>1. CleanInv => (clean => FatTypeOK)
  BY IInvImplies DEF CleanInv
<1> QED BY <1>1, InvariantAlways, PTL

\* The clusters of a file are used, hold the file, and are of no other file until
\* then: it is only by an entry that nobody wrote that files come to share a
\* cluster.
THEOREM ChainsSeparate == Spec => []ChainsDisjoint
<1>1. CleanInv => ChainsDisjoint
  <2>1. CASE clean
    BY <2>1, IInvImplies DEF CleanInv
  <2>2. CASE ~clean
    BY <2>2 DEF ChainsDisjoint
  <2> QED BY <2>1, <2>2
<1> QED BY <1>1, InvariantAlways, PTL

-----------------------------------------------------------------------------
(* The data of a file *)

\* The files in the tree, and their data.
FilesOf(v) == {q \in DOMAIN v.tree : ~v.tree[q].dentry.dir}
FileData(v, p) == Pread(v, p, 0, v.tree[p].dentry.size)

\* The i-th unit of a chain, in the table and the data of v.
CellOf(i) == ((i - 1) \div U) + 1
RestOf(i) == ((i - 1) % U) + 1
Cell(v, s, i) == v.data[s[CellOf(i)]][RestOf(i)]

\* A unit of a chain is in one of its clusters.
LEMMA CellFacts ==
  ASSUME NEW m, m \in Nat, NEW i, i \in 1..(U * m)
  PROVE  CellOf(i) \in 1..m /\ RestOf(i) \in 1..U
<1>1. U \in Nat /\ U > 0
  BY FatAssumption
<1> DEFINE a == i - 1
           q == a \div U
           r == a % U
<1>2. U * m \in Nat /\ a \in Nat /\ a < U * m
  BY <1>1
<1> HIDE DEF a
<1>3. q \in Nat /\ r \in Nat /\ r < U /\ a = U * q + r
  BY <1>1, <1>2
<1> HIDE DEF q, r
<1>4. q < m
  <2>1. SUFFICES ASSUME q >= m PROVE FALSE
    BY <1>3
  <2>2. U * q >= U * m
    BY <1>1, <1>3, <2>1
  <2> QED BY <1>1, <1>2, <1>3, <2>2
<1>5. q + 1 \in 1..m /\ r + 1 \in 1..U
  BY <1>1, <1>3, <1>4
<1> QED BY <1>5 DEF CellOf, RestOf, a, q, r

\* Two units are not in the same place.
LEMMA CellUnique ==
  ASSUME NEW i, i \in Nat \ {0}, NEW j, j \in Nat \ {0}, CellOf(i) = CellOf(j), RestOf(i) = RestOf(j)
  PROVE  i = j
<1>1. U \in Nat /\ U > 0
  BY FatAssumption
<1> DEFINE a == i - 1
           b == j - 1
<1>2. a \in Nat /\ b \in Nat
  OBVIOUS
<1>3. (a \div U) + 1 = (b \div U) + 1 /\ (a % U) + 1 = (b % U) + 1
  BY DEF CellOf, RestOf
<1> HIDE DEF a, b
<1>4. /\ a \div U \in Nat /\ b \div U \in Nat /\ a % U \in Nat /\ b % U \in Nat
      /\ a = U * (a \div U) + (a % U) /\ b = U * (b \div U) + (b % U)
  BY <1>1, <1>2
<1>5. a \div U = b \div U /\ a % U = b % U
  BY <1>3, <1>4
<1>6. a = b
  BY <1>4, <1>5
<1> QED BY <1>6 DEF a, b

\* What a file in the tree is.
FileIs(v, p, s, m) ==
  /\ p \in DOMAIN v.tree /\ s = Chain(v.fat, v.tree[p].start) /\ m = v.tree[p].dentry.size
  /\ s \in Seq(Clusters) /\ Len(s) \in Nat /\ DOMAIN s = 1..Len(s) /\ m \in Nat /\ m <= U * Len(s)
  /\ v.tree[p].start \in Clusters /\ v.data \in [Clusters -> [1..U -> Units]]

\* A file in the tree of a sound volume is one.
LEMMA FileIsFacts ==
  ASSUME NEW v, VolInv(v), NEW p, p \in DOMAIN v.tree
  PROVE  FileIs(v, p, Chain(v.fat, v.tree[p].start), v.tree[p].dentry.size)
<1>1. /\ v.tree[p].start \in Clusters /\ v.tree[p].dentry \in Entries /\ v.data \in [Clusters -> [1..U -> Units]]
  BY VolFacts DEF VolInv
<1>2. v.tree[p].dentry.size \in Nat
  BY <1>1 DEF Entries
<1> QED BY <1>1, <1>2, ChainFacts DEF FileIs, VolInv, TreeOK

\* fat_file_pread() of a whole file gives the units of its chain up to its size.
LEMMA DataIs ==
  ASSUME NEW v, NEW p, NEW s, NEW m, FileIs(v, p, s, m)
  PROVE  /\ FileData(v, p) = [i \in 1..m |-> Cell(v, s, i)]
         /\ \A i \in 1..m : CellOf(i) \in 1..Len(s) /\ RestOf(i) \in 1..U /\ s[CellOf(i)] \in Clusters
                            /\ Cell(v, s, i) \in Units
         /\ FileData(v, p) \in Seq(Units) /\ Len(FileData(v, p)) = m
         /\ \A i \in 1..m : FileData(v, p)[i] = Cell(v, s, i)
<1>1. /\ p \in DOMAIN v.tree /\ s = Chain(v.fat, v.tree[p].start) /\ m = v.tree[p].dentry.size
      /\ s \in Seq(Clusters) /\ Len(s) \in Nat /\ DOMAIN s = 1..Len(s) /\ m \in Nat /\ m <= U * Len(s)
      /\ v.tree[p].start \in Clusters /\ v.data \in [Clusters -> [1..U -> Units]]
  BY DEF FileIs
<1> DEFINE n == U * Len(s)
           data == ChainData(v, v.tree[p].start)
           t == [i \in 1..m |-> Cell(v, s, i)]
<1>2. n \in Nat /\ m <= n
  BY <1>1, FatAssumption
<1>3. \A i \in 1..n : /\ CellOf(i) \in 1..Len(s) /\ RestOf(i) \in 1..U /\ s[CellOf(i)] \in Clusters
                      /\ Cell(v, s, i) \in Units
  <2>1. TAKE i \in 1..n
  <2>2. CellOf(i) \in 1..Len(s) /\ RestOf(i) \in 1..U
    BY <1>1, CellFacts
  <2>3. s[CellOf(i)] \in Clusters
    BY <1>1, <2>2
  <2>4. v.data[s[CellOf(i)]] \in [1..U -> Units]
    BY <1>1, <2>3
  <2> QED BY <2>2, <2>3, <2>4 DEF Cell
<1>4. data = [i \in 1..n |-> Cell(v, s, i)]
  BY <1>1 DEF ChainData, Cell, CellOf, RestOf
<1> HIDE DEF n, data
<1>5. data \in Seq(Units) /\ Len(data) = n /\ \A i \in 1..n : data[i] = Cell(v, s, i)
  BY <1>2, <1>3, <1>4
<1>6. FileData(v, p) = SubSeq(data, 1, m)
  <2> DEFINE size == IF Len(data) < m THEN Len(data) ELSE m
             first == 0 + 1
             last == IF 0 + m > size THEN size ELSE 0 + m
  <2>1. FileData(v, p) = SubSeq(data, first, last)
    BY <1>1 DEF FileData, Pread, data
  <2>2. first = 1 /\ last = m
    BY <1>1, <1>2, <1>5
  <2> HIDE DEF first, last
  <2> QED BY <2>1, <2>2
<1>7. SubSeq(data, 1, m) \in Seq(Units) /\ Len(SubSeq(data, 1, m)) = m /\ \A i \in 1..m : SubSeq(data, 1, m)[i] = data[i]
  BY <1>1, <1>2, <1>5
<1>9. \A i \in 1..m : i \in 1..n
  BY <1>1, <1>2
<1>8. t \in Seq(Units) /\ Len(t) = m /\ \A i \in 1..m : t[i] = Cell(v, s, i)
  <2>1. \A i \in 1..m : Cell(v, s, i) \in Units
    BY <1>3, <1>9
  <2>2. t \in [1..m -> Units]
    BY <2>1
  <2> QED BY <1>1, <2>2
<1> HIDE DEF t
<1>10. \A i \in 1..m : SubSeq(data, 1, m)[i] = t[i]
  BY <1>5, <1>7, <1>8, <1>9
<1>11. SubSeq(data, 1, m) = t
  <2> DEFINE u == SubSeq(data, 1, m)
  <2>1. u \in Seq(Units) /\ t \in Seq(Units) /\ Len(u) = Len(t) /\ \A i \in 1..Len(u) : u[i] = t[i]
    BY <1>7, <1>8, <1>10
  <2> HIDE DEF u
  <2> QED BY <2>1, SeqEqual DEF u
<1> QED BY <1>3, <1>6, <1>8, <1>9, <1>11 DEF t

\* fat_file_pread() gives a part of that.
Part(data, off, n, m) == SubSeq(data, off + 1, IF off + n > m THEN m ELSE off + n)
LEMMA PreadIs ==
  ASSUME NEW v, NEW p, NEW s, NEW m, FileIs(v, p, s, m), NEW off, off \in Nat, NEW n, n \in Nat
  PROVE  Pread(v, p, off, n) = Part(FileData(v, p), off, n, m)
<1> DEFINE data == ChainData(v, v.tree[p].start)
           l == Len(data)
           k == IF off + n > m THEN m ELSE off + n
           f == FileData(v, p)
<1>1. /\ m \in Nat /\ m <= U * Len(s) /\ U * Len(s) \in Nat /\ m = v.tree[p].dentry.size
      /\ s = Chain(v.fat, v.tree[p].start) /\ Len(s) \in Nat
  BY FatAssumption DEF FileIs
<1>2. f \in Seq(Units) /\ Len(f) = m /\ \A i \in 1..m : f[i] = Cell(v, s, i)
  BY DataIs
<1>3. data = [i \in 1..(U * Len(s)) |-> Cell(v, s, i)]
  BY <1>1 DEF ChainData, Cell, CellOf, RestOf
<1>4. data \in Seq(Units) /\ l = U * Len(s) /\ \A i \in 1..l : data[i] = Cell(v, s, i)
  <2> DEFINE len == U * Len(s)
  <2>1. \A i \in 1..len : Cell(v, s, i) \in Units
    <3>1. TAKE i \in 1..len
    <3>2. CellOf(i) \in 1..Len(s) /\ RestOf(i) \in 1..U
      BY <1>1, CellFacts
    <3>3. s[CellOf(i)] \in Clusters /\ v.data \in [Clusters -> [1..U -> Units]]
      BY <3>2 DEF FileIs
    <3> QED BY <3>2, <3>3 DEF Cell
  <2>2. len \in Nat /\ data = [i \in 1..len |-> Cell(v, s, i)]
    BY <1>1, <1>3
  <2> HIDE DEF len, data
  <2>3. data \in Seq(Units) /\ Len(data) = len /\ \A i \in 1..len : data[i] = Cell(v, s, i)
    BY <2>1, <2>2
  <2> QED BY <2>3 DEF len
<1>5. Pread(v, p, off, n) = SubSeq(data, off + 1, k)
  <2> DEFINE size == IF l < m THEN l ELSE m
             last == IF off + n > size THEN size ELSE off + n
  <2>1. Pread(v, p, off, n) = SubSeq(data, off + 1, last)
    BY <1>1 DEF Pread
  <2>2. last = k
    BY <1>1, <1>4
  <2> HIDE DEF last, k
  <2> QED BY <2>1, <2>2
<1>6. k \in Nat /\ k <= m /\ k <= l
  BY <1>1, <1>4
<1> HIDE DEF data, f, k
<1>7. CASE k < off + 1
  <2>1. SubSeq(data, off + 1, k) = <<>> /\ SubSeq(f, off + 1, k) = <<>>
    BY <1>2, <1>4, <1>6, <1>7, SubSeqEmpty
  <2> QED BY <1>5, <2>1 DEF f, k, Part
<1>8. CASE k >= off + 1
  <2> DEFINE a == SubSeq(data, off + 1, k)
             b == SubSeq(f, off + 1, k)
             len == k - off
  <2>1. a \in Seq(Units) /\ Len(a) = len /\ \A i \in 1..len : a[i] = data[off + i]
    BY <1>4, <1>6, <1>8
  <2>2. b \in Seq(Units) /\ Len(b) = len /\ \A i \in 1..len : b[i] = f[off + i]
    BY <1>2, <1>6, <1>8
  <2>3. \A i \in 1..len : off + i \in 1..m /\ off + i \in 1..l
    BY <1>1, <1>4, <1>6, <1>8
  <2>4. \A i \in 1..len : a[i] = b[i]
    BY <1>2, <1>4, <2>1, <2>2, <2>3
  <2> HIDE DEF a, b, len
  <2>5. a = b
    BY <2>1, <2>2, <2>4, SeqEqual
  <2> QED BY <1>5, <2>5 DEF a, b, f, k, Part
<1> QED BY <1>6, <1>7, <1>8

\* A file that a step leaves alone: its clusters, and what is in them.
Untouched(v, w, q) ==
  /\ q \in DOMAIN w.tree /\ w.tree[q].start = v.tree[q].start
  /\ w.tree[q].dentry.size = v.tree[q].dentry.size /\ w.tree[q].dentry.dir = v.tree[q].dentry.dir
  /\ Chain(w.fat, v.tree[q].start) = Chain(v.fat, v.tree[q].start)
  /\ \A x \in ChainSet(v.fat, v.tree[q].start), j \in 1..U : w.data[x][j] = v.data[x][j]

\* A file has the data it had.
SameData(v, w, q) == q \in FilesOf(w) /\ FileData(w, q) = FileData(v, q)

\* All files but those in S have their data.
KeptBut(v, w, S) == \A q \in FilesOf(v) \ S : SameData(v, w, q)

\* Such a file has its data.
LEMMA UntouchedSame ==
  ASSUME NEW v, VolInv(v), NEW w, NEW q, q \in FilesOf(v), Untouched(v, w, q), w.data \in [Clusters -> [1..U -> Units]]
  PROVE  SameData(v, w, q)
<1> DEFINE s == Chain(v.fat, v.tree[q].start)
           m == v.tree[q].dentry.size
<1>1. q \in DOMAIN v.tree /\ FileIs(v, q, s, m)
  BY FileIsFacts DEF FilesOf
<1>2. FileIs(w, q, s, m)
  BY <1>1 DEF FileIs, Untouched
<1>3. \A i \in 1..Len(s) : s[i] \in ChainSet(v.fat, v.tree[q].start)
  BY <1>1, ChainFacts DEF FileIs
<1>4. \A x \in ChainSet(v.fat, v.tree[q].start), j \in 1..U : w.data[x][j] = v.data[x][j]
  BY DEF Untouched
<1> HIDE DEF s, m
<1>5. /\ FileData(v, q) = [i \in 1..m |-> Cell(v, s, i)]
      /\ \A i \in 1..m : CellOf(i) \in 1..Len(s) /\ RestOf(i) \in 1..U
  BY <1>1, DataIs
<1>6. FileData(w, q) = [i \in 1..m |-> Cell(w, s, i)]
  BY <1>2, DataIs
<1>7. \A i \in 1..m : Cell(w, s, i) = Cell(v, s, i)
  BY <1>3, <1>4, <1>5 DEF Cell
<1>8. FileData(w, q) = FileData(v, q)
  BY <1>5, <1>6, <1>7
<1>9. q \in FilesOf(w)
  BY DEF Untouched, FilesOf
<1> QED BY <1>8, <1>9 DEF SameData

\* Of a step between volumes: the log may have got records at its end.
LogGrew(s, t) ==
  /\ s \in Seq(Units) /\ t \in Seq(Units) /\ Len(s) <= Len(t)
  /\ \A i \in 1..Len(s) : t[i] = s[i]
  /\ \A i \in 1..Len(t) : i > Len(s) => t[i] = LogRecord
LogGrows(v, w) ==
  Log \in FilesOf(v) => Log \in FilesOf(w) /\ LogGrew(FileData(v, Log), FileData(w, Log))
Touches(v, w, S) == KeptBut(v, w, S \union {Log}) /\ LogGrows(v, w)

\* The data of a file are units, as many as its size says.
LEMMA FileIsSeq ==
  ASSUME NEW v, VolInv(v), NEW p, p \in FilesOf(v)
  PROVE  FileData(v, p) \in Seq(Units) /\ Len(FileData(v, p)) = v.tree[p].dentry.size
         /\ p \in DOMAIN v.tree /\ ~v.tree[p].dentry.dir
<1>1. p \in DOMAIN v.tree /\ ~v.tree[p].dentry.dir
  BY DEF FilesOf
<1> DEFINE s == Chain(v.fat, v.tree[p].start)
           m == v.tree[p].dentry.size
<1>2. FileIs(v, p, s, m)
  BY <1>1, FileIsFacts
<1> HIDE DEF s, m
<1>3. FileData(v, p) \in Seq(Units) /\ Len(FileData(v, p)) = m
  BY <1>2, DataIs
<1> QED BY <1>1, <1>3 DEF m

\* A step that keeps the log too.
LEMMA KeptTouches ==
  ASSUME NEW v, VolInv(v), NEW w, NEW S, Log \notin S, KeptBut(v, w, S)
  PROVE  Touches(v, w, S)
<1>1. KeptBut(v, w, S \union {Log})
  BY DEF KeptBut
<1>2. ASSUME Log \in FilesOf(v)
      PROVE  Log \in FilesOf(w) /\ LogGrew(FileData(v, Log), FileData(w, Log))
  <2> DEFINE s == FileData(v, Log)
  <2>1. Log \in FilesOf(w) /\ FileData(w, Log) = s
    BY <1>2 DEF KeptBut, SameData
  <2>2. s \in Seq(Units)
    BY <1>2, FileIsSeq
  <2> HIDE DEF s
  <2>3. LogGrew(s, s)
    BY <2>2 DEF LogGrew
  <2> QED BY <2>1, <2>3 DEF s
<1> QED BY <1>1, <1>2 DEF Touches, LogGrows

\* What a step leaves alone, it leaves alone.
LEMMA TouchesMore ==
  ASSUME NEW v, NEW w, NEW S, Touches(v, w, {})
  PROVE  Touches(v, w, S)
BY DEF Touches, KeptBut

\* Records on records.
LEMMA LogGrewTwice ==
  ASSUME NEW s, NEW t, NEW u, LogGrew(s, t), LogGrew(t, u)
  PROVE  LogGrew(s, u)
<1>1. /\ s \in Seq(Units) /\ t \in Seq(Units) /\ u \in Seq(Units) /\ Len(s) <= Len(t) /\ Len(t) <= Len(u)
      /\ Len(s) \in Nat /\ Len(t) \in Nat /\ Len(u) \in Nat
  BY DEF LogGrew
<1>2. \A i \in 1..Len(s) : u[i] = s[i]
  <2>1. TAKE i \in 1..Len(s)
  <2>2. i \in 1..Len(t)
    BY <1>1
  <2> QED BY <2>2 DEF LogGrew
<1>3. \A i \in 1..Len(u) : i > Len(s) => u[i] = LogRecord
  <2>1. TAKE i \in 1..Len(u)
  <2>2. i \in 1..Len(t) \/ i > Len(t)
    BY <1>1
  <2> QED BY <2>2 DEF LogGrew
<1> QED BY <1>1, <1>2, <1>3 DEF LogGrew

\* One step after another.
LEMMA TouchesTwice ==
  ASSUME NEW v, NEW w, NEW x, NEW S, Touches(v, w, S), Touches(w, x, S)
  PROVE  Touches(v, x, S)
<1>1. KeptBut(v, x, S \union {Log})
  BY DEF Touches, KeptBut, SameData
<1>2. LogGrows(v, x)
  BY LogGrewTwice DEF Touches, LogGrows
<1> QED BY <1>1, <1>2 DEF Touches

\* A file that a step spares, at the cost of the cluster of a directory.
Spared(v, w, d, q) ==
  /\ q \in DOMAIN w.tree /\ w.tree[q].start = v.tree[q].start
  /\ w.tree[q].dentry.size = v.tree[q].dentry.size /\ w.tree[q].dentry.dir = v.tree[q].dentry.dir
  /\ \A x \in ChainSet(v.fat, v.tree[q].start) :
       /\ w.fat[x] = v.fat[x]
       /\ \A j \in 1..U : w.data[x][j] = v.data[x][j] \/ x = v.tree[d].start

\* A file that is spared has its data: its clusters are no directory's.
LEMMA SparedKept ==
  ASSUME NEW v, VolInv(v), NEW d, d \in DOMAIN v.tree, v.tree[d].dentry.dir, NEW w, VolType(w), NEW S,
         \A q \in FilesOf(v) \ S : Spared(v, w, d, q)
  PROVE  KeptBut(v, w, S)
<1>1. SUFFICES ASSUME NEW q \in FilesOf(v) \ S PROVE SameData(v, w, q)
  BY DEF KeptBut
<1> DEFINE b == v.tree[d].start
           c == v.tree[q].start
<1>2. q \in DOMAIN v.tree /\ ~v.tree[q].dentry.dir /\ q # d /\ Spared(v, w, d, q)
  BY DEF FilesOf
<1>3. c \in Clusters
  BY <1>2, VolFacts DEF VolInv
<1>4. b \notin ChainSet(v.fat, c)
  <2>1. OfDirectory(v, d, b)
    BY DirectoryFacts
  <2> QED BY <1>2, <2>1 DEF OfDirectory
<1>5. /\ q \in DOMAIN w.tree /\ w.tree[q].start = c
      /\ w.tree[q].dentry.size = v.tree[q].dentry.size /\ w.tree[q].dentry.dir = v.tree[q].dentry.dir
      /\ \A x \in ChainSet(v.fat, c) : w.fat[x] = v.fat[x]
      /\ \A x \in ChainSet(v.fat, c), j \in 1..U : w.data[x][j] = v.data[x][j]
  BY <1>2, <1>4 DEF Spared
<1> HIDE DEF b, c
<1>6. Chain(w.fat, c) = Chain(v.fat, c)
  BY <1>3, <1>5, ChainSame
<1>7. Untouched(v, w, q)
  BY <1>5, <1>6 DEF Untouched, c
<1>8. w.data \in [Clusters -> [1..U -> Units]]
  BY VolFacts
<1> QED BY <1>7, <1>8, UntouchedSame

\* The same files, with the same data but for those in S.
Keeps(v, w, S) == KeptBut(v, w, S) /\ FilesOf(w) = FilesOf(v)

\* The same tree, the same files.
LEMMA SameFilesOf ==
  ASSUME NEW v, NEW w, SameFiles(v, w)
  PROVE  FilesOf(w) = FilesOf(v)
BY DEF SameFiles, FilesOf

\* Errno and entries are no data.
LEMMA SameVolumeKeeps ==
  ASSUME NEW v, NEW w, w.fat = v.fat, w.tree = v.tree, w.data = v.data
  PROVE  Keeps(v, w, {})
BY DEF Keeps, KeptBut, SameData, FilesOf, FileData, Pread, ChainData

\* One step after another.
LEMMA KeepsTwice ==
  ASSUME NEW v, NEW w, NEW x, NEW S, Keeps(v, w, S), Keeps(w, x, {})
  PROVE  Keeps(v, x, S)
BY DEF Keeps, KeptBut, SameData

\* A directory's entries are no file's data.
LEMMA WriteOwnKeeps ==
  ASSUME NEW v, VolInv(v), NEW p, p \in DOMAIN v.tree \ {Root}, NEW w, w = WriteOwnEntry(v, p)
  PROVE  Keeps(v, w, {})
<1> DEFINE d == ParentOf[p]
<1>1. /\ VolInv(w) /\ w.fat = v.fat /\ w.tree = v.tree
      /\ \A c \in Clusters, j \in 1..U : w.data[c][j] = v.data[c][j] \/ c = v.tree[d].start
  BY WriteOwnInv
<1>2. d \in DOMAIN v.tree /\ v.tree[d].dentry.dir
  BY DEF VolInv, TreeOK
<1> HIDE DEF d
<1>3. \A q \in FilesOf(v) \ {} : Spared(v, w, d, q)
  <2>1. TAKE q \in FilesOf(v) \ {}
  <2>2. q \in DOMAIN v.tree /\ v.tree[q].start \in Clusters
    BY VolFacts DEF FilesOf, VolInv
  <2>3. ChainSet(v.fat, v.tree[q].start) \subseteq Clusters
    BY <2>2, ChainFacts
  <2> QED BY <1>1, <2>2, <2>3 DEF Spared
<1>4. VolType(w)
  BY <1>1 DEF VolInv
<1>5. KeptBut(v, w, {})
  BY <1>2, <1>3, <1>4, SparedKept
<1> QED BY <1>1, <1>5 DEF Keeps, FilesOf

\* Where a unit of a chain is written from.
LEMMA LandsFacts ==
  ASSUME NEW s, s \in Seq(Clusters), IsInjective(s), NEW off, off \in Nat, NEW n, n \in Nat, off + n <= U * Len(s)
  PROVE  /\ \A c, j : c \notin Range(s) => Lands(s, off, n, c, j) = {}
         /\ \A i \in 1..(U * Len(s)) :
              Lands(s, off, n, s[CellOf(i)], RestOf(i)) = IF i - off \in 1..n THEN {i - off} ELSE {}
<1>1. Len(s) \in Nat /\ DOMAIN s = 1..Len(s) /\ U * Len(s) \in Nat /\ U \in Nat /\ U > 0
  BY FatAssumption
<1>2. \A k \in 1..n : /\ off + k \in 1..(U * Len(s)) /\ CellOf(off + k) \in 1..Len(s) /\ RestOf(off + k) \in 1..U
                      /\ CellOf(off + k) = ((off + k - 1) \div U) + 1 /\ RestOf(off + k) - 1 = (off + k - 1) % U
  <2>1. TAKE k \in 1..n
  <2> DEFINE i == off + k
             len == U * Len(s)
  <2>2. i \in Nat /\ 1 <= i /\ i <= off + n
    OBVIOUS
  <2>3. len \in Nat /\ off + n <= len
    BY <1>1
  <2> HIDE DEF i, len
  <2>4. i \in 1..len
    BY <2>2, <2>3
  <2>5. i \in 1..(U * Len(s))
    BY <2>4 DEF len
  <2>6. CellOf(i) \in 1..Len(s) /\ RestOf(i) \in 1..U
    BY <1>1, <2>5, CellFacts
  <2>7. CellOf(i) = ((i - 1) \div U) + 1 /\ RestOf(i) - 1 = (i - 1) % U
    <3>1. (i - 1) % U \in Nat
      BY <1>1, <2>2
    <3> QED BY <3>1 DEF CellOf, RestOf
  <2> QED BY <2>5, <2>6, <2>7 DEF i
<1>3. \A c, j, k : k \in Lands(s, off, n, c, j) => k \in 1..n /\ s[CellOf(off + k)] = c /\ RestOf(off + k) - 1 = j - 1
  BY <1>2 DEF Lands
<1>4. \A c, j : c \notin Range(s) => Lands(s, off, n, c, j) = {}
  <2>1. \A i \in 1..Len(s) : s[i] \in Range(s)
    BY <1>1 DEF Range
  <2>2. SUFFICES ASSUME NEW c, NEW j, NEW k \in Lands(s, off, n, c, j) PROVE c \in Range(s)
    OBVIOUS
  <2> QED BY <1>2, <1>3, <2>1
<1>5. ASSUME NEW i \in 1..(U * Len(s))
      PROVE  Lands(s, off, n, s[CellOf(i)], RestOf(i)) = IF i - off \in 1..n THEN {i - off} ELSE {}
  <2>1. CellOf(i) \in 1..Len(s) /\ RestOf(i) \in 1..U /\ i \in Nat \ {0}
    BY <1>1, CellFacts
  <2> DEFINE c == s[CellOf(i)]
             j == RestOf(i)
  <2>2. ASSUME NEW k \in Lands(s, off, n, c, j) PROVE k \in 1..n /\ k = i - off
    <3>1. k \in 1..n /\ s[CellOf(off + k)] = c /\ RestOf(off + k) - 1 = j - 1
      BY <1>3
    <3>2. CellOf(off + k) \in 1..Len(s) /\ RestOf(off + k) \in 1..U
      BY <1>2, <3>1
    <3>3. CellOf(off + k) = CellOf(i)
      BY <1>1, <2>1, <3>1, <3>2 DEF IsInjective
    <3>4. RestOf(off + k) = RestOf(i)
      BY <2>1, <3>1, <3>2
    <3> DEFINE a == off + k
    <3>5. a \in Nat \ {0}
      BY <3>1
    <3>6. CellOf(a) = CellOf(i) /\ RestOf(a) = RestOf(i)
      BY <3>3, <3>4
    <3> HIDE DEF a
    <3>7. a = i
      BY <2>1, <3>5, <3>6, CellUnique
    <3>8. off + k = i
      BY <3>7 DEF a
    <3> QED BY <2>1, <3>1, <3>8
  <2>3. ASSUME i - off \in 1..n PROVE i - off \in Lands(s, off, n, c, j)
    <3> DEFINE k == i - off
    <3>1. k \in 1..n /\ off + k = i
      BY <2>1, <2>3
    <3>2. CellOf(i) = ((off + k - 1) \div U) + 1 /\ RestOf(i) - 1 = (off + k - 1) % U
      BY <1>2, <3>1
    <3> HIDE DEF k
    <3>3. k \in Lands(s, off, n, c, j)
      BY <3>1, <3>2 DEF Lands
    <3> QED BY <3>3 DEF k
  <2> HIDE DEF c, j
  <2>4. Lands(s, off, n, c, j) = IF i - off \in 1..n THEN {i - off} ELSE {}
    BY <2>2, <2>3
  <2> QED BY <2>4 DEF c, j
<1> QED BY <1>4, <1>5

\* The data t of a file are s, but for n units of vals from off on.
PutIn(s, t, off, vals, n) ==
  /\ n \in 0..Len(vals) /\ off <= Len(s) /\ t \in Seq(Units)
  /\ Len(t) = IF off + n > Len(s) THEN off + n ELSE Len(s)
  /\ \A i \in 1..Len(t) : t[i] = IF i - off \in 1..n THEN vals[i - off] ELSE s[i]

\* Data are written where they were meant to be, and nowhere else.
LEMMA WroteData ==
  ASSUME NEW v, VolInv(v), NEW p, p \in FilesOf(v), p # Root, NEW off, off \in Nat, NEW vals, vals \in Seq(Units),
         NEW n, NEW x, Wrote(v, x, p, off, vals, n)
  PROVE  /\ Keeps(v, x, {p}) /\ VolInv(x) /\ p \in DOMAIN x.tree \ {Root}
         /\ PutIn(FileData(v, p), FileData(x, p), off, vals, n)
         /\ n = Len(vals) \/ off + n >= Len(FileData(v, p))
<1> DEFINE s == Chain(v.fat, v.tree[p].start)
           m == v.tree[p].dentry.size
           k == x.tree[p].dentry.size
<1>1. p \in DOMAIN v.tree /\ ~v.tree[p].dentry.dir
  BY DEF FilesOf
<1>2. /\ VolInv(x) /\ x.fat = v.fat /\ SameFiles(v, x)
      /\ \A q \in DOMAIN v.tree : q # p => x.tree[q] = v.tree[q]
      /\ n \in 0..Len(vals) /\ off <= m /\ off + n <= U * Len(s)
      /\ n = Len(vals) \/ off + n >= U * Len(s)
      /\ k = IF off + n > m THEN off + n ELSE m
  BY DEF Wrote
<1>3. \A c \in Clusters, j \in 1..U :
        x.data[c][j] = IF Lands(s, off, n, c, j) = {} THEN v.data[c][j]
                       ELSE vals[CHOOSE i \in Lands(s, off, n, c, j) : TRUE]
  BY DEF Wrote
<1>4. FilesOf(x) = FilesOf(v) /\ DOMAIN x.tree = DOMAIN v.tree /\ x.tree[p].start = v.tree[p].start
  BY <1>1, <1>2, SameFilesOf DEF SameFiles
<1>5. p \in DOMAIN x.tree /\ ~x.tree[p].dentry.dir
  BY <1>1, <1>4 DEF FilesOf
<1>6. FileIs(v, p, s, m) /\ FileIs(x, p, s, k)
  <2>1. FileIs(v, p, s, m)
    BY <1>1, FileIsFacts
  <2>2. FileIs(x, p, Chain(x.fat, x.tree[p].start), k)
    BY <1>2, <1>5, FileIsFacts
  <2> QED BY <1>2, <1>4, <2>1, <2>2
<1>7. IsInjective(s) /\ Range(s) = ChainSet(v.fat, v.tree[p].start) /\ s \in Seq(Clusters)
  BY <1>1, <1>6, Disjoint DEF DisjointChains, ChainSet, FileIs
<1>8. \A q \in DOMAIN v.tree : q # p => Range(s) \intersect ChainSet(v.fat, v.tree[q].start) = {}
  BY <1>1, <1>7, Disjoint DEF DisjointChains
<1>9. m \in Nat /\ Len(s) \in Nat /\ m <= U * Len(s)
  BY <1>6 DEF FileIs
<1>10. n \in Nat
  BY <1>2
<1> HIDE DEF s, m, k
<1>11. /\ \A c, j : c \notin Range(s) => Lands(s, off, n, c, j) = {}
       /\ \A i \in 1..(U * Len(s)) :
            Lands(s, off, n, s[CellOf(i)], RestOf(i)) = IF i - off \in 1..n THEN {i - off} ELSE {}
  BY <1>2, <1>7, <1>10, LandsFacts
<1>12. KeptBut(v, x, {p})
  <2>1. Root \in DOMAIN v.tree /\ ParentOf[p] \in DOMAIN v.tree /\ v.tree[ParentOf[p]].dentry.dir
    BY <1>1, VolFacts DEF VolInv, TreeOK
  <2>2. ASSUME NEW q \in FilesOf(v) \ {p} PROVE Spared(v, x, ParentOf[p], q)
    <3>1. q \in DOMAIN v.tree /\ q # p /\ v.tree[q].start \in Clusters
      BY VolFacts DEF FilesOf, VolInv
    <3>2. ASSUME NEW c \in ChainSet(v.fat, v.tree[q].start), NEW j \in 1..U PROVE x.data[c][j] = v.data[c][j]
      <4>1. c \in Clusters
        BY <3>1, ChainFacts
      <4>2. c \notin Range(s)
        BY <1>8, <3>1
      <4> DEFINE landed == Lands(s, off, n, c, j)
      <4>3. landed = {}
        BY <1>11, <4>2
      <4>4. x.data[c][j] = IF landed = {} THEN v.data[c][j] ELSE vals[CHOOSE i \in landed : TRUE]
        BY <1>3, <4>1
      <4> HIDE DEF landed
      <4> QED BY <4>3, <4>4
    <3>3. x.tree[q] = v.tree[q]
      BY <1>2, <3>1
    <3> QED BY <1>2, <1>4, <3>1, <3>2, <3>3 DEF Spared
  <2>3. VolType(x)
    BY <1>2 DEF VolInv
  <2> DEFINE d == ParentOf[p]
  <2>4. d \in DOMAIN v.tree /\ v.tree[d].dentry.dir /\ \A q \in FilesOf(v) \ {p} : Spared(v, x, d, q)
    BY <2>1, <2>2
  <2> HIDE DEF d
  <2> QED BY <2>3, <2>4, SparedKept
<1>13. /\ \A i \in 1..m : CellOf(i) \in 1..Len(s) /\ RestOf(i) \in 1..U /\ s[CellOf(i)] \in Clusters
       /\ FileData(v, p) \in Seq(Units) /\ Len(FileData(v, p)) = m
       /\ \A i \in 1..m : FileData(v, p)[i] = Cell(v, s, i)
  BY <1>6, DataIs
<1>14. /\ \A i \in 1..k : CellOf(i) \in 1..Len(s) /\ RestOf(i) \in 1..U /\ s[CellOf(i)] \in Clusters
       /\ FileData(x, p) \in Seq(Units) /\ Len(FileData(x, p)) = k
       /\ \A i \in 1..k : FileData(x, p)[i] = Cell(x, s, i)
  BY <1>6, DataIs
<1>15. k \in Nat /\ k <= U * Len(s)
  BY <1>6 DEF FileIs
<1>16. \A i \in 1..k : FileData(x, p)[i] = IF i - off \in 1..n THEN vals[i - off] ELSE FileData(v, p)[i]
  <2>1. TAKE i \in 1..k
  <2> DEFINE c == s[CellOf(i)]
             j == RestOf(i)
             landed == Lands(s, off, n, c, j)
             len == U * Len(s)
  <2>2. c \in Clusters /\ j \in 1..U
    BY <1>14
  <2>3. i \in 1..len
    <3>1. len \in Nat /\ k <= len
      BY <1>9, <1>15, FatAssumption
    <3> HIDE DEF len
    <3> QED BY <1>15, <3>1
  <2>4. landed = IF i - off \in 1..n THEN {i - off} ELSE {}
    BY <1>11, <2>3
  <2>5. FileData(x, p)[i] = x.data[c][j]
    BY <1>14 DEF Cell
  <2>6. x.data[c][j] = IF landed = {} THEN v.data[c][j] ELSE vals[CHOOSE y \in landed : TRUE]
    BY <1>3, <2>2
  <2>7. Cell(v, s, i) = v.data[c][j]
    BY DEF Cell
  <2> HIDE DEF landed, c, j
  <2>8. CASE i - off \in 1..n
    <3>1. (CHOOSE y \in landed : TRUE) = i - off
      BY <2>4, <2>8
    <3>2. landed # {}
      BY <2>4, <2>8
    <3> QED BY <2>5, <2>6, <2>8, <3>1, <3>2
  <2>9. CASE i - off \notin 1..n
    <3>1. FileData(x, p)[i] = Cell(v, s, i)
      BY <2>4, <2>5, <2>6, <2>7, <2>9
    <3>2. i \in 1..m
      BY <1>2, <1>9, <1>10, <2>9
    <3> QED BY <1>13, <2>9, <3>1, <3>2
  <2> QED BY <2>8, <2>9
<1>17. PutIn(FileData(v, p), FileData(x, p), off, vals, n)
  <2>1. Len(FileData(x, p)) = IF off + n > Len(FileData(v, p)) THEN off + n ELSE Len(FileData(v, p))
    BY <1>2, <1>13, <1>14
  <2> QED BY <1>2, <1>13, <1>14, <1>16, <2>1 DEF PutIn
<1>18. n = Len(vals) \/ off + n >= Len(FileData(v, p))
  <2>1. U * Len(s) \in Nat
    BY <1>9, FatAssumption
  <2> QED BY <1>2, <1>9, <1>10, <1>13, <2>1
<1> QED BY <1>2, <1>4, <1>5, <1>12, <1>17, <1>18 DEF Keeps

-----------------------------------------------------------------------------
(* What each function does to the data *)

\* Files enter the tree; the others are as they were.
LEMMA TreeKeeps ==
  ASSUME NEW v, NEW w, w.fat = v.fat, w.data = v.data,
         \A q \in DOMAIN v.tree :
           /\ q \in DOMAIN w.tree /\ w.tree[q].start = v.tree[q].start
           /\ w.tree[q].dentry.size = v.tree[q].dentry.size /\ w.tree[q].dentry.dir = v.tree[q].dentry.dir
  PROVE  KeptBut(v, w, {})
<1>1. SUFFICES ASSUME NEW q \in FilesOf(v) PROVE SameData(v, w, q)
  BY DEF KeptBut
<1>2. q \in DOMAIN v.tree /\ ~v.tree[q].dentry.dir
  BY DEF FilesOf
<1>3. FileData(w, q) = FileData(v, q)
  BY <1>2 DEF FileData, Pread, ChainData
<1> QED BY <1>2, <1>3 DEF SameData, FilesOf

\* What a call of fat_file_pwrite() does to the files, and what it answers.
LEMMA PwriteData ==
  ASSUME NEW v, VolInv(v), NEW p, p \in FilesOf(v), p # Root, NEW off, off \in Nat, NEW vals, vals \in Seq(Writable),
         off <= v.tree[p].dentry.size, NEW w, w = Pwrite(v, p, off, vals), NEW n, n = PwriteAnswer(v, p, off, vals)
  PROVE  /\ Keeps(v, w, {p}) /\ p \in FilesOf(w)
         /\ PutIn(FileData(v, p), FileData(w, p), off, vals, n)
         /\ n \in {0, Len(vals)} \/ off + n >= Len(FileData(v, p))
<1>1. p \in DOMAIN v.tree \ {Root} /\ ~v.tree[p].dentry.dir
  BY DEF FilesOf
<1>4. vals \in Seq(Units)
  <2>1. \A i \in 1..Len(vals) : vals[i] \in Units
    BY DEF Writable, Units
  <2>2. vals = [i \in 1..Len(vals) |-> vals[i]] /\ Len(vals) \in Nat
    OBVIOUS
  <2> QED BY <2>1, <2>2
<1>2. CASE SameVolume(v, w) /\ n = 0
  <2>1. Keeps(v, w, {})
    BY <1>2, SameVolumeKeeps DEF SameVolume
  <2>2. p \in FilesOf(w) /\ FileData(w, p) = FileData(v, p)
    BY <2>1 DEF Keeps, KeptBut, SameData
  <2> DEFINE s == FileData(v, p)
  <2>3. s \in Seq(Units) /\ Len(s) = v.tree[p].dentry.size
    BY FileIsSeq
  <2> HIDE DEF s
  <2>4. PutIn(s, s, off, vals, n)
    BY <1>2, <2>3 DEF PutIn
  <2> QED BY <1>2, <2>1, <2>2, <2>4 DEF Keeps, KeptBut, s
<1>3. CASE \E x : Wrote(v, x, p, off, vals, n) /\ w = WriteOwnEntry(x, p)
  <2>1. PICK x : Wrote(v, x, p, off, vals, n) /\ w = WriteOwnEntry(x, p)
    BY <1>3
  <2>2. /\ Keeps(v, x, {p}) /\ VolInv(x) /\ p \in DOMAIN x.tree \ {Root}
        /\ PutIn(FileData(v, p), FileData(x, p), off, vals, n)
        /\ n = Len(vals) \/ off + n >= Len(FileData(v, p))
    BY <1>4, <2>1, WroteData
  <2>3. Keeps(x, w, {})
    BY <2>1, <2>2, WriteOwnKeeps
  <2>4. Keeps(v, w, {p})
    BY <2>2, <2>3, KeepsTwice
  <2>5. p \in FilesOf(w) /\ FileData(w, p) = FileData(x, p)
    BY <2>2, <2>3 DEF Keeps, KeptBut, SameData
  <2> QED BY <2>2, <2>4, <2>5
<1> QED BY <1>1, <1>2, <1>3, PwriteSteps

\* The log in the tree is a file.
LEMMA LogIn ==
  ASSUME NEW v, VolInv(v), Log \in DOMAIN v.tree
  PROVE  Log \in FilesOf(v)
BY LogFacts DEF VolInv, TreeOK, FilesOf, LogIsFile

\* Logging a call only adds a record to the log.
LEMMA LogActivityTouches ==
  ASSUME NEW v, VolInv(v), Log \in DOMAIN v.tree, NEW w, w = LogActivity(v)
  PROVE  Touches(v, w, {}) /\ FilesOf(w) = FilesOf(v)
<1> DEFINE off == v.tree[Log].dentry.size
           vals == <<LogRecord>>
           p == Log
           s == FileData(v, p)
           t == FileData(w, p)
<1>1. w = Pwrite(v, p, off, vals)
  BY DEF LogActivity
<1>2. p \in FilesOf(v) /\ p # Root /\ vals \in Seq(Writable) /\ Len(vals) = 1 /\ vals[1] = LogRecord
  BY LogIn, LogFacts DEF LogIsFile
<1> DEFINE n == PwriteAnswer(v, p, off, vals)
<1>8. off = v.tree[p].dentry.size
  OBVIOUS
<1>3. s \in Seq(Units) /\ Len(s) = off
  BY <1>2, FileIsSeq
<1> HIDE DEF off, vals
<1>4. off \in Nat
  BY <1>3
<1>9. off <= v.tree[p].dentry.size
  BY <1>4, <1>8
<1> HIDE DEF p
<1>5. Keeps(v, w, {p}) /\ p \in FilesOf(w) /\ PutIn(FileData(v, p), FileData(w, p), off, vals, n)
  BY <1>1, <1>2, <1>4, <1>9, PwriteData
<1>6. LogGrew(s, t)
  <2>1. PutIn(s, t, off, vals, n)
    BY <1>5
  <2> HIDE DEF s, t, n
  <2>2. /\ n \in 0..1 /\ t \in Seq(Units) /\ Len(t) = off + n
        /\ \A i \in 1..Len(t) : t[i] = IF i - off \in 1..n THEN vals[i - off] ELSE s[i]
    BY <1>2, <1>3, <1>4, <2>1 DEF PutIn
  <2>3. \A i \in 1..Len(s) : t[i] = s[i]
    BY <1>3, <1>4, <2>2
  <2>4. \A i \in 1..Len(t) : i > Len(s) => t[i] = LogRecord
    <3>1. SUFFICES ASSUME NEW i \in 1..Len(t), i > Len(s) PROVE t[i] = LogRecord
      OBVIOUS
    <3>2. i - off = 1 /\ i - off \in 1..n
      BY <1>3, <1>4, <2>2, <3>1
    <3> QED BY <1>2, <2>2, <3>2
  <2> QED BY <1>3, <1>4, <2>2, <2>3, <2>4 DEF LogGrew
<1>7. KeptBut(v, w, {} \union {p})
  BY <1>5 DEF Keeps
<1> QED BY <1>5, <1>6, <1>7 DEF Touches, LogGrows, p, Keeps

\* The first record, and the name that hides the log.
LEMMA HideLogTouches ==
  ASSUME NEW v, VolInv(v), Log \in DOMAIN v.tree, NEW w, w = HideLog(v)
  PROVE  Touches(v, w, {})
<1> DEFINE logged == LogActivity(v)
           y == IF logged.tree[Log].dentry.path = Log THEN Hidden ELSE Ruined
           x == [logged EXCEPT !.tree[Log].dentry.path = IF @ = Log THEN Hidden ELSE Ruined]
           p == Log
<1>1. w = WriteOwnEntry(x, p)
  BY DEF HideLog
<1>2. VolInv(logged) /\ SameFiles(v, logged)
  BY LogActivityInv
<1>3. x = Rename(logged, p, y)
  BY DEF Rename
<1>4. p \in DOMAIN logged.tree \ {Root} /\ y \in Paths \union {Erased, Hidden, Ruined}
      /\ (y = Erased \/ y = Ruined \/ (IF y = Hidden THEN Log ELSE y) = p)
  BY <1>2, LogFacts DEF SameFiles, LogIsFile
<1>5. Touches(v, logged, {})
  BY LogActivityTouches
<1> HIDE DEF logged, y, x, p
<1>6. /\ VolInv(x) /\ x.fat = logged.fat /\ x.data = logged.data /\ SameFiles(logged, x)
      /\ x.tree[p].dentry.size = logged.tree[p].dentry.size
      /\ \A q \in DOMAIN logged.tree : q # p => x.tree[q] = logged.tree[q]
  BY <1>2, <1>3, <1>4, Renamed
<1>7. KeptBut(logged, x, {})
  <2>1. \A q \in DOMAIN logged.tree :
          /\ q \in DOMAIN x.tree /\ x.tree[q].start = logged.tree[q].start
          /\ x.tree[q].dentry.size = logged.tree[q].dentry.size /\ x.tree[q].dentry.dir = logged.tree[q].dentry.dir
    BY <1>6 DEF SameFiles
  <2> QED BY <1>6, <2>1, TreeKeeps
<1>8. p \in DOMAIN x.tree \ {Root}
  BY <1>4, <1>6 DEF SameFiles
<1>9. KeptBut(x, w, {})
  BY <1>1, <1>6, <1>8, WriteOwnKeeps DEF Keeps
<1> DEFINE S == {}
<1>10. Touches(v, logged, S) /\ KeptBut(logged, x, S) /\ KeptBut(x, w, S) /\ Log \notin S
  BY <1>5, <1>7, <1>9
<1> HIDE DEF S
<1>11. Touches(logged, x, S) /\ Touches(x, w, S)
  BY <1>2, <1>6, <1>10, KeptTouches
<1>12. Touches(v, w, S)
  BY <1>10, <1>11, TouchesTwice
<1> QED BY <1>12 DEF S

\* Making a file leaves the others alone.
LEMMA CreateKeeps ==
  ASSUME NEW v, NEW p, NEW dir, CanCreate(v, p, dir), NEW w, w = Create(v, p, dir)
  PROVE  KeptBut(v, w, {})
<1> DEFINE d == ParentOf[p]
<1>1. VolInv(v) /\ d \in DOMAIN v.tree /\ v.tree[d].dentry.dir
  BY DEF CanCreate
<1>2. /\ VolInv(w) /\ DOMAIN w.tree = DOMAIN v.tree \union {p}
      /\ \A q \in DOMAIN v.tree : w.tree[q].dentry = v.tree[q].dentry
      /\ Spares(v, w, d)
  BY CreateInv
<1> HIDE DEF d
<1>3. ASSUME NEW q \in FilesOf(v) \ {} PROVE Spared(v, w, d, q)
  <2>1. q \in DOMAIN v.tree /\ q \in DOMAIN w.tree /\ w.tree[q].dentry = v.tree[q].dentry
    BY <1>2 DEF FilesOf
  <2>2. w.tree[q].start = v.tree[q].start
    <3>1. v.tree[q].dentry.start = v.tree[q].start
      BY <1>1, <2>1 DEF VolInv, TreeOK
    <3>2. w.tree[q].dentry.start = w.tree[q].start
      BY <1>2, <2>1 DEF VolInv, TreeOK
    <3> QED BY <2>1, <3>1, <3>2
  <2>3. \A x \in ChainSet(v.fat, v.tree[q].start) : x \in Clusters /\ v.fat[x] # FREE
    BY <1>1, <2>1, ChainSets
  <2> QED BY <1>2, <2>1, <2>2, <2>3 DEF Spared, Spares
<1>4. VolType(w)
  BY <1>2 DEF VolInv
<1> QED BY <1>1, <1>3, <1>4, SparedKept

\* Making a file leaves the others alone, and adds a record to the log at most.
LEMMA NewFileTouches ==
  ASSUME NEW v, NEW p, CanCreate(v, p, FALSE), NEW w, w = NewFile(v, p)
  PROVE  Touches(v, w, {})
<1> DEFINE x == Create(v, p, FALSE)
           dir == FALSE
           S == {}
<1>1. CanCreate(v, p, dir) /\ x = Create(v, p, dir) /\ VolInv(v)
  BY DEF CanCreate
<1> HIDE DEF dir, x
<1>2. VolInv(x) /\ DOMAIN x.tree = DOMAIN v.tree \union {p}
  BY <1>1, CreateInv
<1>3. KeptBut(v, x, S) /\ Log \notin S
  BY <1>1, CreateKeeps
<1>4. CASE p # Log
  <2>1. w = x
    BY <1>4 DEF NewFile, x
  <2> QED BY <1>1, <1>3, <2>1, KeptTouches
<1>5. CASE p = Log
  <2>1. w = HideLog(x) /\ Log \in DOMAIN x.tree
    BY <1>2, <1>5 DEF NewFile, x
  <2>2. Touches(x, w, S)
    BY <1>2, <2>1, HideLogTouches
  <2> HIDE DEF S
  <2>3. Touches(v, x, S)
    BY <1>1, <1>3, KeptTouches
  <2>4. Touches(v, w, S)
    BY <2>2, <2>3, TouchesTwice
  <2> QED BY <2>4 DEF S
<1> QED BY <1>4, <1>5

\* Reading a directory leaves the files in the tree alone.
LEMMA DirReadKeeps ==
  ASSUME NEW v, NEW w, NEW d, NEW n, DirRead(v, w, d, n), w.fat = v.fat, w.data = v.data
  PROVE  KeptBut(v, w, {})
<1>1. \A q \in DOMAIN v.tree :
        /\ q \in DOMAIN w.tree /\ w.tree[q].start = v.tree[q].start
        /\ w.tree[q].dentry.size = v.tree[q].dentry.size /\ w.tree[q].dentry.dir = v.tree[q].dentry.dir
  BY DEF DirRead
<1> QED BY <1>1, TreeKeeps

\* t is the beginning of s.
Begins(t, s) ==
  t \in Seq(Units) /\ s \in Seq(Units) /\ Len(t) <= Len(s) /\ \A k \in 1..Len(t) : t[k] = s[k]

\* A chain that is cut has the beginning of the data.
LEMMA CutData ==
  ASSUME NEW v, VolInv(v), NEW p, p \in FilesOf(v), p # Root, NEW off, off \in Nat, NEW y, NEW i, Cut(v, y, p, off, i)
  PROVE  Keeps(v, y, {p}) /\ Begins(FileData(y, p), FileData(v, p)) /\ Len(FileData(y, p)) = off
<1> DEFINE c == v.tree[p].start
           s == Chain(v.fat, c)
           t == SubSeq(s, 1, i)
           m == v.tree[p].dentry.size
<1>1. p \in DOMAIN v.tree /\ ~v.tree[p].dentry.dir
  BY DEF FilesOf
<1>2. /\ VolInv(y) /\ SameFiles(v, y) /\ y.data = v.data
      /\ \A q \in DOMAIN v.tree : q # p => y.tree[q] = v.tree[q]
      /\ y.tree[p].dentry.size = off /\ off < m /\ off <= U * i
  BY DEF Cut
<1>3. /\ i \in 1..Len(s) /\ y.fat[s[i]] = EOC
      /\ \A j \in 1..(i - 1) : y.fat[s[j]] = v.fat[s[j]]
      /\ \A a \in Clusters : a \notin Range(s) => y.fat[a] = v.fat[a]
  BY DEF Cut, CutAfter
<1>4. FilesOf(y) = FilesOf(v) /\ DOMAIN y.tree = DOMAIN v.tree /\ y.tree[p].start = c
  BY <1>1, <1>2, SameFilesOf DEF SameFiles
<1>5. FileIs(v, p, s, m)
  BY <1>1, FileIsFacts
<1>6. c \in Clusters /\ s \in Seq(Clusters) /\ Len(s) \in Nat /\ m \in Nat
  BY <1>5 DEF FileIs
<1>7. y.fat[s[i]] \notin Clusters
  BY <1>3 DEF EOC, Clusters
<1> HIDE DEF c
<1> DEFINE fat == y.fat
<1>12. fat[s[i]] \notin Clusters /\ \A j \in 1..(i - 1) : fat[s[j]] = v.fat[s[j]]
  BY <1>3, <1>7
<1> HIDE DEF fat
<1>8. Chain(fat, c) = t
  BY <1>3, <1>6, <1>12, ChainCut
<1>9. FileIs(y, p, t, off)
  <2>1. p \in DOMAIN y.tree
    BY <1>1, <1>4
  <2>2. FileIs(y, p, Chain(y.fat, y.tree[p].start), y.tree[p].dentry.size)
    BY <1>2, <2>1, FileIsFacts
  <2> QED BY <1>2, <1>4, <1>8, <2>2 DEF fat
<1> HIDE DEF s, m
<1>10. Len(t) = i /\ \A j \in 1..i : t[j] = s[j]
  BY <1>3, <1>6
<1> HIDE DEF t
<1>11. Begins(FileData(y, p), FileData(v, p)) /\ Len(FileData(y, p)) = off
  <2>1. /\ FileData(v, p) \in Seq(Units) /\ Len(FileData(v, p)) = m
        /\ \A k \in 1..m : FileData(v, p)[k] = Cell(v, s, k)
    BY <1>5, DataIs
  <2>2. /\ FileData(y, p) \in Seq(Units) /\ Len(FileData(y, p)) = off
        /\ \A k \in 1..off : FileData(y, p)[k] = Cell(y, t, k) /\ CellOf(k) \in 1..i
    BY <1>9, <1>10, DataIs
  <2>3. \A k \in 1..off : k \in 1..m /\ Cell(y, t, k) = Cell(v, s, k)
    BY <1>2, <1>6, <1>10, <2>2 DEF Cell
  <2> QED BY <1>2, <1>6, <2>1, <2>2, <2>3 DEF Begins
<1>13. KeptBut(v, y, {p})
  <2> DEFINE d == ParentOf[p]
  <2>1. d \in DOMAIN v.tree /\ v.tree[d].dentry.dir
    BY <1>1 DEF VolInv, TreeOK
  <2> HIDE DEF d
  <2>2. ASSUME NEW q \in FilesOf(v) \ {p} PROVE Spared(v, y, d, q)
    <3>1. q \in DOMAIN v.tree /\ q # p /\ v.tree[q].start \in Clusters
      BY VolFacts DEF FilesOf, VolInv
    <3>2. ChainSet(v.fat, v.tree[p].start) \intersect ChainSet(v.fat, v.tree[q].start) = {}
      BY <1>1, <3>1, Disjoint DEF DisjointChains
    <3>3. \A a \in ChainSet(v.fat, v.tree[q].start) : a \in Clusters /\ a \notin Range(s)
      BY <3>1, <3>2, ChainFacts DEF ChainSet, s, c
    <3>4. y.tree[q] = v.tree[q] /\ q \in DOMAIN y.tree
      BY <1>2, <1>4, <3>1
    <3> QED BY <1>2, <1>3, <3>3, <3>4 DEF Spared
  <2>3. VolType(y)
    BY <1>2 DEF VolInv
  <2> QED BY <2>1, <2>2, <2>3, SparedKept
<1> QED BY <1>4, <1>11, <1>13 DEF Keeps

\* The beginning of a sequence.
FirstOf(s, off) == SubSeq(s, 1, off)
LEMMA BeginsIs ==
  ASSUME NEW s, NEW t, NEW off, off \in Nat, Begins(t, s), Len(t) = off
  PROVE  t = FirstOf(s, off)
<1> DEFINE a == SubSeq(s, 1, off)
<1>1. t \in Seq(Units) /\ s \in Seq(Units) /\ off <= Len(s) /\ \A k \in 1..off : t[k] = s[k]
  BY DEF Begins
<1>2. a \in Seq(Units) /\ Len(a) = off /\ \A k \in 1..off : a[k] = s[k]
  BY <1>1
<1> HIDE DEF a
<1>3. Len(a) = Len(t) /\ \A k \in 1..Len(a) : a[k] = t[k]
  BY <1>1, <1>2
<1>4. a = t
  BY <1>1, <1>2, <1>3, SeqEqual
<1> QED BY <1>4 DEF a, FirstOf

\* fat_file_truncate() keeps the beginning of the data, or all of them.
LEMMA TruncateData ==
  ASSUME NEW v, VolInv(v), NEW p, p \in FilesOf(v), p # Root, NEW off, off \in Nat, NEW w, w = TruncateTo(v, p, off)
  PROVE  /\ Keeps(v, w, {p}) /\ p \in FilesOf(w)
         /\ FileData(w, p) = FileData(v, p) \/ FileData(w, p) = FirstOf(FileData(v, p), off)
<1>1. p \in DOMAIN v.tree \ {Root} /\ ~v.tree[p].dentry.dir
  BY DEF FilesOf
<1>2. CASE w = v
  BY <1>2 DEF Keeps, KeptBut, SameData
<1>3. CASE \E y, i : Cut(v, y, p, off, i) /\ w = WriteOwnEntry(y, p)
  <2>1. PICK y, i : Cut(v, y, p, off, i) /\ w = WriteOwnEntry(y, p)
    BY <1>3
  <2>2. VolInv(y) /\ SameFiles(v, y)
    BY <2>1 DEF Cut
  <2> DEFINE s == FileData(v, p)
             t == FileData(y, p)
  <2>8. Keeps(v, y, {p}) /\ Begins(t, s) /\ Len(t) = off
    BY <2>1, CutData
  <2> HIDE DEF s, t
  <2>9. t = FirstOf(s, off)
    BY ONLY <2>8, off \in Nat, BeginsIs
  <2>3. Keeps(v, y, {p}) /\ FileData(y, p) = FirstOf(FileData(v, p), off)
    BY <2>8, <2>9 DEF s, t
  <2>4. p \in DOMAIN y.tree \ {Root}
    BY <1>1, <2>2 DEF SameFiles
  <2>5. Keeps(y, w, {})
    BY <2>1, <2>2, <2>4, WriteOwnKeeps
  <2>6. Keeps(v, w, {p})
    BY <2>3, <2>5, KeepsTwice
  <2>7. p \in FilesOf(w) /\ FileData(w, p) = FileData(y, p)
    BY <2>3, <2>5 DEF Keeps, KeptBut, SameData
  <2> QED BY <2>3, <2>6, <2>7
<1> QED BY <1>1, <1>2, <1>3, TruncateSteps

\* A file or directory that is removed.
LEMMA UnlinkData ==
  ASSUME NEW v, VolInv(v), NEW p, p \in DOMAIN v.tree \ {Root}, NEW w, w = Without(UnlinkFile(v, p), p)
  PROVE  KeptBut(v, w, {p}) /\ FilesOf(w) = FilesOf(v) \ {p}
<1> DEFINE d == ParentOf[p]
           s == v.tree[p].start
<1>1. d \in DOMAIN v.tree /\ v.tree[d].dentry.dir
  BY DEF VolInv, TreeOK
<1>2. /\ VolType(w) /\ Left(v, w, p)
      /\ \A a \in Clusters, j \in 1..U : w.data[a][j] = v.data[a][j] \/ a = v.tree[d].start
  BY UnlinkLeft
<1>3. \A a \in Owned(v) \ {s} : \A x \in ChainSet(v.fat, a) : w.fat[x] = v.fat[x]
  BY <1>2, LeftChains
<1>4. DOMAIN w.tree = DOMAIN v.tree \ {p} /\ \A q \in DOMAIN v.tree \ {p} : w.tree[q] = v.tree[q]
  BY <1>2 DEF Left
<1> HIDE DEF d
<1>5. ASSUME NEW q \in FilesOf(v) \ {p} PROVE Spared(v, w, d, q)
  <2>1. q \in DOMAIN v.tree \ {p} /\ v.tree[q].start \in Owned(v)
    BY ChainSets DEF FilesOf
  <2>2. v.tree[q].start # s
    BY <2>1 DEF VolInv, TreeOK
  <2>3. \A x \in ChainSet(v.fat, v.tree[q].start) : x \in Clusters /\ w.fat[x] = v.fat[x]
    BY <1>3, <2>1, <2>2, ChainSets
  <2> QED BY <1>2, <1>4, <2>1, <2>3 DEF Spared
<1>6. KeptBut(v, w, {p})
  BY <1>1, <1>2, <1>5, SparedKept
<1> QED BY <1>4, <1>6 DEF FilesOf

-----------------------------------------------------------------------------
(* The driver keeps the data of files: steps of AbstractFiles *)

\* The files, as AbstractFiles has them.
FilesAre(v) == [p \in FilesOf(v) |-> FileData(v, p)]

\* The files of a volume.
LEMMA FilesAreFacts ==
  ASSUME NEW v
  PROVE  DOMAIN FilesAre(v) = FilesOf(v) /\ \A p \in FilesOf(v) : FilesAre(v)[p] = FileData(v, p)
BY DEF FilesAre

\* A step of the files is one of Data.
LEMMA StepIs ==
  ASSUME Data!Step(FilesAre(vol), FilesAre(vol'), io')
  PROVE  Data!AbsNext
<1> DEFINE f == [p \in {q \in DOMAIN vol.tree : IsFile(q)} |-> Contents(p)]
<1>1. f = FilesAre(vol)
  BY DEF FilesAre, FilesOf, FileData, Contents, IsFile, Exists
<1>2. f' = FilesAre(vol')
  BY DEF FilesAre, FilesOf, FileData, Contents, IsFile, Exists
<1> DEFINE a == FilesAre(vol)
           b == FilesAre(vol')
<1>3. f = a /\ f' = b /\ Data!Step(a, b, io')
  BY <1>1, <1>2
<1> HIDE DEF a, b
<1>4. \E old \in {f}, new \in {f'}, call \in {io'} : Data!Step(old, new, call)
  BY <1>3
<1> QED BY <1>4 DEF Data!AbsNext

\* Two ways to say that a sequence begins another.
LEMMA PrefixIs ==
  ASSUME NEW s, NEW t, s \in Seq(Units), t \in Seq(Units), Len(s) <= Len(t), \A i \in 1..Len(s) : t[i] = s[i]
  PROVE  Data!IsPrefix(s, t)
<1> DEFINE n == Len(s)
           a == SubSeq(s, 1, n)
           b == SubSeq(t, 1, n)
<1>1. n \in Nat /\ n <= Len(t) /\ Len(t) \in Nat
  OBVIOUS
<1>2. a \in Seq(Units) /\ Len(a) = n /\ \A i \in 1..n : a[i] = s[i]
  BY <1>1
<1>3. b \in Seq(Units) /\ Len(b) = n /\ \A i \in 1..n : b[i] = t[i]
  BY <1>1
<1>4. Len(a) = Len(b) /\ \A i \in 1..Len(a) : a[i] = b[i]
  BY <1>2, <1>3
<1> HIDE DEF a, b
<1>5. a = b
  BY <1>2, <1>3, <1>4, SeqEqual
<1> QED BY <1>1, <1>5 DEF Data!IsPrefix, a, b

\* What Touches says is what OnlyTouches promises.
LEMMA TouchesAbs ==
  ASSUME NEW v, NEW w, NEW S, Touches(v, w, S)
  PROVE  Data!OnlyTouches(FilesAre(v), FilesAre(w), S)
<1> DEFINE f == FilesAre(v)
           g == FilesAre(w)
<1>1. /\ DOMAIN f = FilesOf(v) /\ \A p \in FilesOf(v) : f[p] = FileData(v, p)
      /\ DOMAIN g = FilesOf(w) /\ \A p \in FilesOf(w) : g[p] = FileData(w, p)
  BY FilesAreFacts
<1> HIDE DEF f, g
<1>2. \A q \in DOMAIN f \ (S \union {Log}) : q \in DOMAIN g /\ g[q] = f[q]
  BY <1>1 DEF Touches, KeptBut, SameData
<1>3. ASSUME Log \in DOMAIN f
      PROVE  /\ Log \in DOMAIN g /\ Data!IsPrefix(f[Log], g[Log])
             /\ \A i \in DOMAIN g[Log] \ DOMAIN f[Log] : g[Log][i] = LogRecord
  <2> DEFINE s == f[Log]
             t == g[Log]
  <2>1. Log \in DOMAIN g /\ LogGrew(s, t)
    BY <1>1, <1>3 DEF Touches, LogGrows
  <2> HIDE DEF s, t
  <2>2. /\ s \in Seq(Units) /\ t \in Seq(Units) /\ Len(s) <= Len(t)
        /\ \A i \in 1..Len(s) : t[i] = s[i]
        /\ \A i \in 1..Len(t) : i > Len(s) => t[i] = LogRecord
    BY <2>1 DEF LogGrew
  <2>3. Data!IsPrefix(s, t)
    BY <2>2, PrefixIs
  <2>4. DOMAIN s = 1..Len(s) /\ DOMAIN t = 1..Len(t) /\ Len(s) \in Nat /\ Len(t) \in Nat
    BY <2>2
  <2>5. \A i \in DOMAIN t \ DOMAIN s : t[i] = LogRecord
    BY <2>2, <2>4
  <2> QED BY <2>1, <2>3, <2>5 DEF s, t
<1>4. Data!OnlyTouches(f, g, S)
  BY <1>2, <1>3 DEF Data!OnlyTouches
<1> QED BY <1>4 DEF f, g

\* A step that touches no file, of Data.
LEMMA StepQuiet ==
  ASSUME NEW v, NEW w, Touches(v, w, {})
  PROVE  Data!OnlyTouches(FilesAre(v), FilesAre(w), {})
<1> DEFINE S == {}
<1>1. Touches(v, w, S)
  OBVIOUS
<1> HIDE DEF S
<1>2. Data!OnlyTouches(FilesAre(v), FilesAre(w), S)
  BY <1>1, TouchesAbs
<1> QED BY <1>2 DEF S

\* A step that gives a file other data, of Data.
LEMMA StepFile ==
  ASSUME NEW v, NEW w, NEW p, p \in FilesOf(v) \ {Log}, Touches(v, w, {p}), FilesOf(w) = FilesOf(v)
  PROVE  Data!Sets(FilesAre(v), FilesAre(w), p, FileData(w, p))
<1> DEFINE f == FilesAre(v)
           g == FilesAre(w)
           S == {p}
           t == FileData(w, p)
<1>1. DOMAIN f = FilesOf(v) /\ DOMAIN g = FilesOf(w) /\ g[p] = t
  BY FilesAreFacts
<1>2. Touches(v, w, S)
  OBVIOUS
<1> HIDE DEF S, t
<1>3. Data!OnlyTouches(f, g, S)
  BY <1>2, TouchesAbs
<1>4. Data!OnlyTouches(f, g, {p})
  BY <1>3 DEF S
<1> HIDE DEF f, g
<1>5. Data!Sets(f, g, p, t)
  BY <1>1, <1>4 DEF Data!Sets
<1> QED BY <1>5 DEF f, g, t

\* A step that removes a file, of Data.
LEMMA StepGone ==
  ASSUME NEW v, NEW w, NEW p, p \in FilesOf(v) \ {Log}, Touches(v, w, {p}), FilesOf(w) = FilesOf(v) \ {p},
         NEW call, call.path = p
  PROVE  Data!UnlinkStep(FilesAre(v), FilesAre(w), call)
<1> DEFINE f == FilesAre(v)
           g == FilesAre(w)
           S == {p}
<1>1. DOMAIN f = FilesOf(v) /\ DOMAIN g = FilesOf(w)
  BY FilesAreFacts
<1>2. Touches(v, w, S)
  OBVIOUS
<1> HIDE DEF S
<1>3. Data!OnlyTouches(f, g, S)
  BY <1>2, TouchesAbs
<1>4. Data!OnlyTouches(f, g, {p})
  BY <1>3 DEF S
<1> HIDE DEF f, g
<1>5. p \in DOMAIN f \ {Log} /\ DOMAIN g = DOMAIN f \ {p}
  BY <1>1
<1>6. Data!UnlinkStep(f, g, call)
  BY <1>4, <1>5 DEF Data!UnlinkStep
<1> QED BY <1>6 DEF f, g

\* A sequence after another.
LEMMA Joined ==
  ASSUME NEW a, a \in Seq(Units), NEW b, b \in Seq(Units), NEW k, k = Len(a), NEW n, n = Len(b)
  PROVE  /\ a \o b \in Seq(Units) /\ Len(a \o b) = k + n
         /\ \A i \in 1..(k + n) : (a \o b)[i] = IF i <= k THEN a[i] ELSE b[i - k]
BY ConcatProperties

\* How much is left of the data after what was written.
LEMMA RestLength ==
  ASSUME NEW off, off \in Nat, NEW k, k \in Nat, NEW l, l \in Nat, NEW e, e = (IF off + k > l THEN off + k ELSE l),
         NEW m, m = IF off + k > l THEN 0 ELSE l - (off + k)
  PROVE  m \in Nat /\ off + k + m = e
OBVIOUS

\* What fat_file_pwrite() leaves is what Overwritten promises.
LEMMA WrittenIs ==
  ASSUME NEW s, s \in Seq(Units), NEW t, NEW off, off \in Nat, NEW vals, vals \in Seq(Units),
         NEW k, PutIn(s, t, off, vals, k)
  PROVE  t = Data!Overwritten(s, off, SubSeq(vals, 1, k))
<1>2. /\ k \in 0..Len(vals) /\ off <= Len(s) /\ t \in Seq(Units) /\ Len(vals) \in Nat
      /\ Len(t) = IF off + k > Len(s) THEN off + k ELSE Len(s)
      /\ \A i \in 1..Len(t) : t[i] = IF i - off \in 1..k THEN vals[i - off] ELSE s[i]
  BY DEF PutIn
<1>3. Len(s) \in Nat /\ Len(t) \in Nat /\ k \in Nat
  BY <1>2
<1> DEFINE b == SubSeq(vals, 1, k)
           a == SubSeq(s, 1, off)
           c == SubSeq(s, off + k + 1, Len(s))
           m == IF off + k > Len(s) THEN 0 ELSE Len(s) - (off + k)
           u == (a \o b) \o c
<1>5. b \in Seq(Units) /\ Len(b) = k /\ \A i \in 1..k : b[i] = vals[i]
  BY <1>2, <1>3
<1>6. a \in Seq(Units) /\ Len(a) = off /\ \A i \in 1..off : a[i] = s[i]
  BY <1>2, <1>3
<1>7. c \in Seq(Units) /\ Len(c) = m /\ \A i \in 1..m : c[i] = s[off + k + i]
  <2>1. CASE off + k > Len(s)
    BY <1>2, <1>3, <2>1, SubSeqEmpty
  <2>2. CASE off + k <= Len(s)
    <3>1. off + k + 1 \in 1..(Len(s) + 1)
      BY <1>3, <2>2
    <3>2. c \in Seq(Units) /\ Len(c) = Len(s) - (off + k + 1) + 1
      BY <1>3, <3>1
    <3>3. \A i \in 1..m : c[i] = s[off + k + 1 + i - 1]
      BY <1>3, <2>2, <3>1
    <3>4. \A i \in 1..m : off + k + 1 + i - 1 = off + k + i
      BY <1>3
    <3> QED BY <1>3, <2>2, <3>2, <3>3, <3>4
  <2> QED BY <1>3, <2>1, <2>2
<1>8. m \in Nat /\ off + k + m = Len(t)
  <2> DEFINE l == Len(s)
             e == Len(t)
  <2>1. l \in Nat /\ k \in Nat /\ e = (IF off + k > l THEN off + k ELSE l) /\ m = IF off + k > l THEN 0 ELSE l - (off + k)
    BY <1>2, <1>3
  <2> HIDE DEF l, e, m
  <2> QED BY <2>1, RestLength DEF e
<1> HIDE DEF a, b, c, m
<1>17. a \in Seq(Units) /\ b \in Seq(Units) /\ off = Len(a) /\ k = Len(b)
  BY <1>5, <1>6
<1>9. /\ a \o b \in Seq(Units) /\ Len(a \o b) = off + k
      /\ \A i \in 1..(off + k) : (a \o b)[i] = IF i <= off THEN a[i] ELSE b[i - off]
  BY <1>17, Joined
<1> DEFINE ab == a \o b
<1>10. ab \in Seq(Units) /\ Len(ab) = off + k
  BY <1>9
<1> HIDE DEF ab
<1>11. /\ ab \o c \in Seq(Units) /\ Len(ab \o c) = off + k + m
       /\ \A i \in 1..(off + k + m) : (ab \o c)[i] = IF i <= off + k THEN ab[i] ELSE c[i - (off + k)]
  <2> DEFINE j == off + k
  <2>1. c \in Seq(Units) /\ m = Len(c) /\ ab \in Seq(Units) /\ j = Len(ab)
    BY <1>7, <1>10
  <2> HIDE DEF j
  <2>2. /\ ab \o c \in Seq(Units) /\ Len(ab \o c) = j + m
        /\ \A i \in 1..(j + m) : (ab \o c)[i] = IF i <= j THEN ab[i] ELSE c[i - j]
    BY ONLY <2>1, Joined
  <2> QED BY <2>2 DEF j
<1>12. u \in Seq(Units) /\ Len(u) = Len(t)
  BY <1>8, <1>11 DEF ab
<1>13. \A i \in 1..Len(u) : u[i] = t[i]
  <2>1. TAKE i \in 1..Len(u)
  <2>2. i \in 1..(off + k + m) /\ i \in 1..Len(t)
    BY <1>8, <1>12
  <2>3. u[i] = IF i <= off + k THEN ab[i] ELSE c[i - (off + k)]
    BY <1>11, <2>2 DEF ab
  <2>4. t[i] = IF i - off \in 1..k THEN vals[i - off] ELSE s[i]
    BY <1>2, <2>2
  <2> HIDE DEF u
  <2>5. CASE i <= off
    <3>1. i \in 1..off /\ i \in 1..(off + k) /\ i - off \notin 1..k
      BY <1>3, <2>2, <2>5
    <3> QED BY <1>3, <1>6, <1>9, <2>3, <2>4, <2>5, <3>1 DEF ab
  <2>6. CASE i > off /\ i <= off + k
    <3>1. i \in 1..(off + k) /\ i - off \in 1..k
      BY <1>2, <1>3, <2>2, <2>6
    <3>2. u[i] = b[i - off]
      BY <1>3, <1>9, <2>3, <2>6, <3>1 DEF ab
    <3> QED BY <1>5, <2>4, <3>1, <3>2
  <2>7. CASE i > off + k
    <3>1. i - (off + k) \in 1..m /\ i - off \notin 1..k /\ off + k + (i - (off + k)) = i
      BY <1>3, <1>8, <2>2, <2>7
    <3>2. u[i] = c[i - (off + k)]
      BY <1>3, <2>3, <2>7
    <3>3. c[i - (off + k)] = s[off + k + (i - (off + k))]
      BY <1>7, <3>1
    <3> QED BY <2>4, <3>1, <3>2, <3>3
  <2> QED BY <1>3, <2>2, <2>5, <2>6, <2>7
<1> HIDE DEF u
<1>14. u = t
  BY <1>2, <1>12, <1>13, SeqEqual
<1>15. t = Data!Overwritten(s, off, b)
  BY <1>5, <1>14 DEF Data!Overwritten, u, a, c
<1> QED BY <1>15 DEF b

\* A step that no program should see.
Quiet(v, w) == Touches(v, w, {})

\* A step that keeps every file is quiet.
LEMMA QuietKept ==
  ASSUME NEW v, VolInv(v), NEW w, KeptBut(v, w, {})
  PROVE  Quiet(v, w)
<1> DEFINE S == {}
<1>1. KeptBut(v, w, S) /\ Log \notin S
  OBVIOUS
<1> HIDE DEF S
<1>2. Touches(v, w, S)
  BY <1>1, KeptTouches
<1> QED BY <1>2 DEF Quiet, S

\* One quiet step after another.
LEMMA QuietTwice ==
  ASSUME NEW v, NEW w, NEW x, Quiet(v, w), Quiet(w, x)
  PROVE  Quiet(v, x)
<1> DEFINE S == {}
<1>1. Touches(v, w, S) /\ Touches(w, x, S)
  BY DEF Quiet
<1> HIDE DEF S
<1>2. Touches(v, x, S)
  BY <1>1, TouchesTwice
<1> QED BY <1>2 DEF Quiet, S

\* Errno and entries are nothing that programs see.
LEMMA QuietSame ==
  ASSUME NEW v, VolInv(v), NEW w, w.fat = v.fat, w.tree = v.tree, w.data = v.data
  PROVE  Quiet(v, w)
<1>1. KeptBut(v, w, {})
  BY SameVolumeKeeps DEF Keeps
<1> QED BY <1>1, QuietKept

\* A step of the driver as the programs see it.
Moves == Data!Step(FilesAre(vol), FilesAre(vol'), io')

\* A quiet step is one of Data.
LEMMA QuietMoves ==
  ASSUME NEW w, vol' = w, Quiet(vol, w), Silent
  PROVE  Moves
<1>1. io'.op = "none"
  BY DEF Silent
<1> DEFINE f == FilesAre(vol)
           g == FilesAre(w)
<1>2. Data!OnlyTouches(f, g, {})
  BY StepQuiet DEF Quiet
<1>3. FilesAre(vol') = g
  OBVIOUS
<1> HIDE DEF f, g
<1>4. Data!Step(f, g, io')
  BY <1>1, <1>2 DEF Data!Step
<1> QED BY <1>3, <1>4 DEF Moves, f

\* A crash changes no file.
LEMMA CrashQuiet ==
  ASSUME IInv, Running, Crash
  PROVE  vol' = vol /\ Quiet(vol, vol)
<1>1. VolInv(vol) /\ vol' = vol
  BY RunningFacts DEF Crash
<1> QED BY <1>1, QuietSame

\* A crash with no answer.
LEMMA CrashMoves ==
  ASSUME IInv, Running, Crash, Silent
  PROVE  Moves
BY CrashQuiet, QuietMoves

\* The step of GetattrMiss is one that Data allows.
LEMMA GetattrMissMoves ==
  ASSUME IInv, NEW p, GetattrMiss(p)
  PROVE  Moves
<1> DEFINE w == [vol EXCEPT !.failed = TRUE]
<1>1. Running /\ vol' = w /\ Silent
  BY DEF GetattrMiss, Becomes
<1>2. VolInv(vol)
  BY <1>1, RunningFacts
<1>3. w.fat = vol.fat /\ w.tree = vol.tree /\ w.data = vol.data
  BY <1>2, FailedFacts
<1> HIDE DEF w
<1>4. Quiet(vol, w)
  BY <1>2, <1>3, QuietSame
<1> QED BY <1>1, <1>4, QuietMoves

\* The step of Readdir is one that Data allows.
LEMMA ReaddirMoves ==
  ASSUME IInv, CleanDirs, NEW p, Readdir(p)
  PROVE  Moves
<1>1. Running /\ Silent /\ p \in DOMAIN vol.tree /\ vol.tree[p].dentry.dir
  BY DEF Readdir, IsDir, Exists
<1>2. VolInv(vol) /\ vol.tree[Root].dentry.dir /\ Root \in DOMAIN vol.tree
  BY <1>1, RunningFacts
<1>3. CASE vol.tree[p].read
  <2> DEFINE w == Cleared(vol)
  <2>1. vol' = w
    BY <1>3 DEF Readdir, Listed
  <2>2. w.fat = vol.fat /\ w.tree = vol.tree /\ w.data = vol.data
    BY <1>2, ClearedFacts
  <2> HIDE DEF w
  <2>3. Quiet(vol, w)
    BY <1>2, <2>2, QuietSame
  <2> QED BY <1>1, <2>1, <2>3, QuietMoves
<1>4. CASE ~vol.tree[p].read /\ FreeClusters(vol.fat) = {}
  <2>1. Crash
    BY <1>4 DEF Readdir
  <2> QED BY <1>1, <2>1, CrashMoves
<1>5. CASE ~vol.tree[p].read /\ FreeClusters(vol.fat) # {}
  <2> DEFINE x == ReadChildren(vol, p)
             w == NewFile(x, Log)
             n == Processed(vol.slots[vol.tree[p].start])
  <2>1. vol' = w
    BY <1>5 DEF Readdir, Listed
  <2> Clean(vol, p)
    BY <1>1 DEF CleanDirs, Clean
  <2>2. VolInv(x) /\ x.fat = vol.fat /\ x.data = vol.data /\ DirRead(vol, x, p, n)
    BY <1>1, <1>2, <1>5, ReadChildrenInv
  <2> HIDE DEF x, n
  <2>3. Root \in DOMAIN x.tree /\ x.tree[Root].dentry.dir
    BY <1>2, <2>2 DEF DirRead
  <2>4. Log \in Paths \ {Root} /\ ParentOf[Log] = Root /\ Log \notin Dirs
    BY FatAssumption
  <2>5. CanCreate(x, Log, FALSE)
    BY <1>5, <2>2, <2>3, <2>4 DEF CanCreate
  <2>6. Quiet(x, w)
    BY <2>5, NewFileTouches DEF Quiet
  <2> HIDE DEF w
  <2>7. KeptBut(vol, x, {})
    BY <2>2, DirReadKeeps
  <2>8. Quiet(vol, x)
    BY <1>2, <2>7, QuietKept
  <2>9. Quiet(vol, w)
    BY <2>6, <2>8, QuietTwice
  <2> QED BY <1>1, <2>1, <2>9, QuietMoves
<1> QED BY <1>3, <1>4, <1>5

\* The step of Mknod is one that Data allows.
LEMMA MknodMoves ==
  ASSUME IInv, NEW p, p \in Paths \ {Root, Log}, Mknod(p)
  PROVE  Moves
<1>1. Running /\ Silent /\ p \notin DOMAIN vol.tree /\ ParentOf[p] \in DOMAIN vol.tree /\ vol.tree[ParentOf[p]].dentry.dir
  BY DEF Mknod, IsDir, Exists
<1>2. VolInv(vol)
  BY <1>1, RunningFacts
<1>3. CASE FreeClusters(vol.fat) = {}
  <2>1. Crash
    BY <1>3 DEF Mknod
  <2> QED BY <1>1, <2>1, CrashMoves
<1>4. CASE FreeClusters(vol.fat) # {}
  <2> DEFINE w == NewFile(vol, p)
  <2>1. vol' = w
    BY <1>4 DEF Mknod, Becomes
  <2>2. CanCreate(vol, p, FALSE)
    BY <1>1, <1>2, <1>4 DEF CanCreate
  <2>3. Quiet(vol, w)
    BY <2>2, NewFileTouches DEF Quiet
  <2> HIDE DEF w
  <2> QED BY <1>1, <2>1, <2>3, QuietMoves
<1> QED BY <1>3, <1>4

\* The step of Mkdir is one that Data allows.
LEMMA MkdirMoves ==
  ASSUME IInv, NEW p, p \in Dirs \ {Root}, Mkdir(p)
  PROVE  Moves
<1>1. Running /\ Silent /\ p \notin DOMAIN vol.tree /\ ParentOf[p] \in DOMAIN vol.tree /\ vol.tree[ParentOf[p]].dentry.dir
  BY DEF Mkdir, IsDir, Exists
<1>2. VolInv(vol)
  BY <1>1, RunningFacts
<1>3. CASE FreeClusters(vol.fat) = {}
  <2>1. Crash
    BY <1>3 DEF Mkdir
  <2> QED BY <1>1, <2>1, CrashMoves
<1>4. CASE FreeClusters(vol.fat) # {}
  <2> DEFINE dir == TRUE
             w == Create(vol, p, dir)
  <2>1. vol' = w
    BY <1>4 DEF Mkdir, Becomes
  <2>2. p \in Paths \ {Root} /\ p # Log
    BY FatAssumption
  <2>3. CanCreate(vol, p, dir)
    BY <1>1, <1>2, <1>4, <2>2 DEF CanCreate
  <2> HIDE DEF dir
  <2>4. KeptBut(vol, w, {})
    BY <2>3, CreateKeeps
  <2> HIDE DEF w
  <2>5. Quiet(vol, w)
    BY <1>2, <2>4, QuietKept
  <2> QED BY <1>1, <2>1, <2>5, QuietMoves
<1> QED BY <1>3, <1>4

\* A read answers what the file has.
LEMMA ReadIs ==
  ASSUME VolInv(vol), NEW p, p \in FilesOf(vol), NEW off, off \in Nat, NEW n, n \in Nat,
         NEW v, v.tree = vol.tree, v.fat = vol.fat, v.data = vol.data, NEW w, vol' = w, Quiet(vol, w),
         io' = [op |-> "read", path |-> p, off |-> off, len |-> n, data |-> Pread(v, p, off, n)]
  PROVE  Moves
<1> DEFINE f == FilesAre(vol)
           g == FilesAre(w)
           s == FileData(vol, p)
           m == Len(s)
<1>1. Pread(v, p, off, n) = Pread(vol, p, off, n)
  BY DEF Pread, ChainData
<1>2. FileIs(vol, p, Chain(vol.fat, vol.tree[p].start), vol.tree[p].dentry.size) /\ m = vol.tree[p].dentry.size
  BY FileIsFacts, FileIsSeq DEF FilesOf
<1>3. Pread(v, p, off, n) = Part(s, off, n, m)
  <2> DEFINE clusters == Chain(vol.fat, vol.tree[p].start)
  <2>1. FileIs(vol, p, clusters, m)
    BY <1>2
  <2> HIDE DEF clusters, m
  <2>2. Pread(vol, p, off, n) = Part(FileData(vol, p), off, n, m)
    BY ONLY <2>1, off \in Nat, n \in Nat, PreadIs
  <2> QED BY <1>1, <2>2
<1>4. p \in DOMAIN f /\ f[p] = s
  BY FilesAreFacts
<1>5. Data!OnlyTouches(f, g, {})
  BY StepQuiet DEF Quiet
<1> DEFINE call == io'
           d == Pread(v, p, off, n)
<1>6. call.op = "read" /\ call.path = p /\ call.off = off /\ call.len = n /\ call.data = d
  OBVIOUS
<1>7. FilesAre(vol') = g
  OBVIOUS
<1> HIDE DEF f, g, s, d, call
<1>8. d = SubSeq(s, off + 1, IF off + n > m THEN m ELSE off + n)
  BY <1>3 DEF d, Part
<1>9. Data!ReadStep(f, g, call)
  BY <1>4, <1>5, <1>6, <1>8 DEF Data!ReadStep
<1>10. Data!Step(f, g, call)
  BY <1>6, <1>9 DEF Data!Step
<1> QED BY <1>7, <1>10 DEF Moves, f, call

\* The step of Read is one that Data allows.
LEMMA ReadMoves ==
  ASSUME IInv, NEW p, NEW off, off \in Nat, NEW n, n \in Nat, Read(p, off, n)
  PROVE  Moves
<1> DEFINE v == Cleared(vol)
           x == WriteOwnEntry(v, p)
           data == Pread(v, p, off, n)
           read == IF data = <<>> THEN v ELSE x
           answer == [op |-> "read", path |-> p, off |-> off, len |-> n, data |-> data]
<1>1. Running /\ p \in DOMAIN vol.tree /\ ~vol.tree[p].dentry.dir
  BY DEF Read, IsFile, Exists
<1>2. VolInv(vol) /\ vol.tree[Root].dentry.dir /\ Root \in DOMAIN vol.tree
  BY <1>1, RunningFacts
<1>3. IF off > vol.tree[p].dentry.size
        THEN Becomes([v EXCEPT !.failed = TRUE]) /\ Silent
        ELSE (IF Exists(Log) THEN Becomes(LogActivity(read)) ELSE Crash) /\ io' = answer
  BY DEF Read
<1>4. VolInv(v) /\ v.tree = vol.tree /\ v.fat = vol.fat /\ v.data = vol.data
  BY <1>2, ClearedFacts
<1> HIDE DEF v
<1>8. p \in FilesOf(vol)
  BY <1>1 DEF FilesOf
<1>5. CASE off > vol.tree[p].dentry.size
  <2> DEFINE w == [v EXCEPT !.failed = TRUE]
  <2>1. vol' = w /\ Silent
    BY <1>3, <1>5 DEF Becomes
  <2>2. w.fat = vol.fat /\ w.tree = vol.tree /\ w.data = vol.data
    BY <1>4, FailedFacts
  <2> HIDE DEF w
  <2>3. Quiet(vol, w)
    BY <1>2, <2>2, QuietSame
  <2> QED BY <2>1, <2>3, QuietMoves
<1>6. CASE ~(off > vol.tree[p].dentry.size) /\ ~Exists(Log)
  <2>1. Crash /\ io' = answer
    BY <1>3, <1>6
  <2> DEFINE w == vol
  <2>2. vol' = w /\ Quiet(vol, w)
    BY <1>1, <2>1, CrashQuiet
  <2> HIDE DEF w
  <2> QED BY <1>2, <1>4, <1>8, <2>1, <2>2, ReadIs
<1>7. CASE ~(off > vol.tree[p].dentry.size) /\ Exists(Log)
  <2> DEFINE w == LogActivity(read)
  <2>1. vol' = w /\ io' = answer
    BY <1>3, <1>7 DEF Becomes
  <2>2. p \in DOMAIN v.tree \ {Root}
    BY <1>1, <1>2, <1>4
  <2>3. VolInv(x) /\ x.tree = v.tree /\ KeptBut(v, x, {})
    BY <1>4, <2>2, WriteOwnInv, WriteOwnKeeps DEF Keeps
  <2> HIDE DEF x
  <2>4. Quiet(vol, v) /\ Quiet(v, v)
    BY <1>2, <1>4, QuietSame
  <2>5. Quiet(v, x)
    BY <1>4, <2>3, QuietKept
  <2>6. VolInv(read) /\ read.tree = v.tree /\ Quiet(v, read)
    BY <1>4, <2>3, <2>4, <2>5
  <2> HIDE DEF read
  <2>7. Log \in DOMAIN read.tree
    BY <1>4, <1>7, <2>6 DEF Exists
  <2>8. Quiet(read, w)
    BY <2>6, <2>7, LogActivityTouches DEF Quiet
  <2> HIDE DEF w
  <2>9. Quiet(vol, read)
    BY <2>4, <2>6, QuietTwice
  <2>10. Quiet(vol, w)
    BY <2>8, <2>9, QuietTwice
  <2> QED BY <1>2, <1>4, <1>8, <2>1, <2>10, ReadIs
<1> QED BY <1>5, <1>6, <1>7

\* The step of Utime is one that Data allows.
LEMMA UtimeMoves ==
  ASSUME IInv, NEW p, Utime(p)
  PROVE  Moves
<1>1. Running /\ Silent /\ p \in DOMAIN vol.tree
  BY DEF Utime, Exists
<1>2. VolInv(vol)
  BY <1>1, RunningFacts
<1>3. CASE p = Root
  <2> DEFINE w == [vol EXCEPT !.failed = TRUE]
  <2>1. vol' = w
    BY <1>3 DEF Utime, Becomes
  <2>2. w.fat = vol.fat /\ w.tree = vol.tree /\ w.data = vol.data
    BY <1>2, FailedFacts
  <2> HIDE DEF w
  <2>3. Quiet(vol, w)
    BY <1>2, <2>2, QuietSame
  <2> QED BY <1>1, <2>1, <2>3, QuietMoves
<1>4. CASE p # Root
  <2> DEFINE v == Cleared(vol)
             w == WriteOwnEntry(v, p)
  <2>1. vol' = w
    BY <1>4 DEF Utime, Becomes
  <2>2. VolInv(v) /\ v.fat = vol.fat /\ v.tree = vol.tree /\ v.data = vol.data
    BY <1>2, ClearedFacts
  <2> HIDE DEF v
  <2>3. p \in DOMAIN v.tree \ {Root}
    BY <1>1, <1>4, <2>2
  <2>4. KeptBut(v, w, {})
    BY <2>2, <2>3, WriteOwnKeeps DEF Keeps
  <2> HIDE DEF w
  <2>5. Quiet(vol, v) /\ Quiet(v, w)
    BY <1>2, <2>2, <2>4, QuietSame, QuietKept
  <2>6. Quiet(vol, w)
    BY <2>5, QuietTwice
  <2> QED BY <1>1, <2>1, <2>6, QuietMoves
<1> QED BY <1>3, <1>4

-----------------------------------------------------------------------------
(* Each operation is a step of AbstractFiles *)

\* One file changes, other than the log.
LEMMA FileMoves ==
  ASSUME NEW v, VolInv(v), NEW x, Quiet(v, x), VolInv(x), NEW p, p \in FilesOf(v) \ {Log}, NEW w, KeptBut(x, w, {p})
  PROVE  Touches(v, w, {p})
<1> DEFINE S == {p}
<1>1. Log \notin S /\ KeptBut(x, w, S)
  OBVIOUS
<1>2. Touches(v, x, S)
  BY TouchesMore DEF Quiet
<1> HIDE DEF S
<1>3. Touches(x, w, S)
  BY <1>1, KeptTouches
<1>4. Touches(v, w, S)
  BY <1>2, <1>3, TouchesTwice
<1> QED BY <1>4 DEF S

\* Writing changes the file that is written, where it is written, and the log.
LEMMA WriteMoves ==
  ASSUME IInv, NEW p, p \in Paths \ {Log}, NEW off, off \in Nat, NEW vals, vals \in Seq(Writable), Write(p, off, vals)
  PROVE  Moves
<1>1. Running /\ p \in DOMAIN vol.tree /\ ~vol.tree[p].dentry.dir /\ off <= vol.tree[p].dentry.size
  BY DEF Write, IsFile, Exists
<1>2. VolInv(vol) /\ vol.tree[Root].dentry.dir /\ Root \in DOMAIN vol.tree
  BY <1>1, RunningFacts
<1>3. CASE ~Exists(Log)
  <2>1. Crash /\ Silent
    BY <1>3 DEF Write
  <2> QED BY <1>1, <2>1, CrashMoves
<1>4. CASE Exists(Log)
  <2> DEFINE y == LogActivity(vol)
             w == Pwrite(y, p, off, vals)
             s == FileData(vol, p)
             t == FileData(w, p)
             n == PwriteAnswer(y, p, off, vals)
             answer == [op |-> "write", path |-> p, off |-> off, vals |-> vals, n |-> n]
  <2>1. vol' = w /\ io' = answer
    BY <1>4 DEF Write, Becomes
  <2>2. VolInv(y) /\ Quiet(vol, y) /\ FilesOf(y) = FilesOf(vol)
    BY <1>2, <1>4, LogActivityInv, LogActivityTouches DEF Exists, Quiet
  <2> HIDE DEF y
  <2>3. p \in FilesOf(vol) \ {Log} /\ p \in FilesOf(y) /\ p # Root
    BY <1>1, <1>2, <2>2 DEF FilesOf
  <2>4. FileData(y, p) = s
    BY <2>2, <2>3 DEF Quiet, Touches, KeptBut, SameData
  <2>5. off <= y.tree[p].dentry.size
    <3>1. Len(FileData(y, p)) = y.tree[p].dentry.size /\ Len(s) = vol.tree[p].dentry.size
      BY <1>2, <2>2, <2>3, FileIsSeq
    <3> QED BY <1>1, <2>4, <3>1
  <2>6. vals \in Seq(Units)
    <3>1. \A i \in 1..Len(vals) : vals[i] \in Units
      BY DEF Writable, Units
    <3>2. vals = [i \in 1..Len(vals) |-> vals[i]] /\ Len(vals) \in Nat
      OBVIOUS
    <3> QED BY <3>1, <3>2
  <2>7. /\ Keeps(y, w, {p}) /\ p \in FilesOf(w)
        /\ PutIn(s, t, off, vals, n)
        /\ n \in {0, Len(vals)} \/ off + n >= Len(s)
    BY <2>2, <2>3, <2>4, <2>5, PwriteData
  <2> HIDE DEF w, n
  <2>8. Touches(vol, w, {p})
    BY <1>2, <2>2, <2>3, <2>7, FileMoves DEF Keeps
  <2>9. s \in Seq(Units)
    BY <1>2, <2>3, FileIsSeq
  <2>10. FilesOf(w) = FilesOf(vol)
    BY <2>2, <2>7 DEF Keeps
  <2>11. Data!Sets(FilesAre(vol), FilesAre(w), p, t)
    BY <2>3, <2>8, <2>10, StepFile
  <2> DEFINE f == FilesAre(vol)
             g == FilesAre(w)
             call == answer
  <2>12. f[p] = s
    BY <2>3, FilesAreFacts
  <2> HIDE DEF f, g, s, t
  <2>19. PutIn(s, t, off, vals, n)
    BY <2>7
  <2>13. t = Data!Overwritten(s, off, SubSeq(vals, 1, n)) /\ n \in 0..Len(vals)
    <3>1. n \in 0..Len(vals)
      BY <2>19 DEF PutIn
    <3> QED BY ONLY <2>6, <2>9, <2>19, <3>1, off \in Nat, WrittenIs
  <2>14. call.op = "write" /\ call.path = p /\ call.off = off /\ call.vals = vals /\ call.n = n
    OBVIOUS
  <2>15. Data!Sets(f, g, p, t)
    BY <2>11 DEF f, g
  <2> HIDE DEF call
  <2>16. Data!WriteStep(f, g, call)
    BY <2>7, <2>12, <2>13, <2>14, <2>15 DEF Data!WriteStep
  <2>17. Data!Step(f, g, call)
    BY <2>14, <2>16 DEF Data!Step
  <2>18. FilesAre(vol') = g /\ io' = call
    BY <2>1 DEF g, call
  <2> QED BY <2>17, <2>18 DEF Moves, f
<1> QED BY <1>3, <1>4

\* The step of Truncate is one that Data allows.
LEMMA TruncateMoves ==
  ASSUME IInv, NEW p, p \in Paths \ {Log}, NEW off, off \in Nat, Truncate(p, off)
  PROVE  Moves
<1> DEFINE v == Cleared(vol)
           w == TruncateTo(v, p, off)
           s == FileData(vol, p)
           t == FileData(w, p)
<1>1. Running /\ p \in DOMAIN vol.tree /\ ~vol.tree[p].dentry.dir /\ vol' = w /\ io' = [op |-> "truncate", path |-> p, off |-> off]
  BY DEF Truncate, IsFile, Exists, Becomes
<1>2. VolInv(vol) /\ vol.tree[Root].dentry.dir
  BY <1>1, RunningFacts
<1>3. VolInv(v) /\ v.tree = vol.tree /\ v.fat = vol.fat /\ v.data = vol.data
  BY <1>2, ClearedFacts
<1> HIDE DEF v
<1>4. p \in FilesOf(vol) \ {Log} /\ p \in FilesOf(v) /\ p # Root /\ FilesOf(v) = FilesOf(vol)
  BY <1>1, <1>2, <1>3 DEF FilesOf
<1>5. Keeps(v, w, {p}) /\ (t = FileData(v, p) \/ t = FirstOf(FileData(v, p), off))
  BY <1>3, <1>4, TruncateData
<1> HIDE DEF w
<1>6. Quiet(vol, v)
  BY <1>2, <1>3, QuietSame
<1>7. FileData(v, p) = FileData(vol, p)
  BY <1>4, <1>6 DEF Quiet, Touches, KeptBut, SameData
<1>8. Touches(vol, w, {p}) /\ FilesOf(w) = FilesOf(vol)
  BY <1>2, <1>3, <1>4, <1>5, <1>6, FileMoves DEF Keeps
<1>9. Data!Sets(FilesAre(vol), FilesAre(w), p, t)
  BY <1>4, <1>8, StepFile
<1> DEFINE f == FilesAre(vol)
           g == FilesAre(w)
           call == io'
<1>10. f[p] = s
  BY <1>4, FilesAreFacts
<1>11. FilesAre(vol') = g /\ call.op = "truncate" /\ call.path = p /\ call.off = off
  BY <1>1
<1>12. t = s \/ t = SubSeq(s, 1, off)
  BY <1>5, <1>7 DEF FirstOf
<1> HIDE DEF f, g, s, t, call
<1>13. Data!Sets(f, g, p, t)
  BY <1>9 DEF f, g, t
<1>14. Data!TruncateStep(f, g, call)
  BY <1>10, <1>11, <1>12, <1>13 DEF Data!TruncateStep
<1>15. Data!Step(f, g, call)
  BY <1>11, <1>14 DEF Data!Step
<1> QED BY <1>11, <1>15 DEF Moves, f, call

\* The step of Unlink is one that Data allows.
LEMMA UnlinkMoves ==
  ASSUME IInv, NEW p, p \in Paths \ {Log}, Unlink(p)
  PROVE  Moves
<1> DEFINE v == Cleared(vol)
           w == Without(UnlinkFile(v, p), p)
<1>1. Running /\ p \in DOMAIN vol.tree /\ ~vol.tree[p].dentry.dir /\ vol' = w /\ io' = [op |-> "unlink", path |-> p]
  BY DEF Unlink, IsFile, Exists
<1>2. VolInv(vol) /\ vol.tree[Root].dentry.dir
  BY <1>1, RunningFacts
<1>3. VolInv(v) /\ v.tree = vol.tree /\ v.fat = vol.fat /\ v.data = vol.data
  BY <1>2, ClearedFacts
<1> HIDE DEF v
<1>4. p \in FilesOf(vol) \ {Log} /\ p \in DOMAIN v.tree \ {Root} /\ FilesOf(v) = FilesOf(vol)
  BY <1>1, <1>2, <1>3 DEF FilesOf
<1>5. KeptBut(v, w, {p}) /\ FilesOf(w) = FilesOf(v) \ {p}
  BY <1>3, <1>4, UnlinkData
<1> HIDE DEF w
<1>6. Quiet(vol, v)
  BY <1>2, <1>3, QuietSame
<1>7. Touches(vol, w, {p})
  BY <1>2, <1>3, <1>4, <1>5, <1>6, FileMoves
<1> DEFINE f == FilesAre(vol)
           g == FilesAre(w)
           call == io'
<1>8. FilesAre(vol') = g /\ call.op = "unlink" /\ call.path = p
  BY <1>1
<1> HIDE DEF call
<1>9. Data!UnlinkStep(f, g, call)
  BY <1>4, <1>5, <1>7, <1>8, StepGone
<1> HIDE DEF f, g
<1>10. Data!Step(f, g, call)
  BY <1>8, <1>9 DEF Data!Step
<1> QED BY <1>8, <1>10 DEF Moves, f, call

\* Removing a directory changes no file.
LEMMA RmdirMoves ==
  ASSUME IInv, NEW p, p \in Dirs, Rmdir(p)
  PROVE  Moves
<1> DEFINE u == Cleared(vol)
           v == Counted(u, p)
           w == Without(UnlinkFile(v, p), p)
           x == [v EXCEPT !.failed = TRUE]
           n == Processed(u.slots[u.tree[p].start])
<1>1. Running /\ Silent /\ p \in DOMAIN vol.tree /\ vol.tree[p].dentry.dir /\ p # Root
  BY DEF Rmdir, IsDir, Exists
<1>2. VolInv(vol)
  BY <1>1, RunningFacts
<1>3. vol' = x \/ vol' = w
  BY DEF Rmdir, Becomes
<1>4. VolInv(u) /\ u.tree = vol.tree /\ u.fat = vol.fat /\ u.data = vol.data
  BY <1>2, ClearedFacts
<1> HIDE DEF u
<1>5. p \in DOMAIN u.tree /\ u.tree[p].dentry.dir
  BY <1>1, <1>4
<1>6. VolInv(v)
  BY <1>4, <1>5, CountedInv
<1>7. DirRead(u, v, p, n) /\ v.fat = u.fat /\ v.data = u.data /\ DOMAIN v.tree = DOMAIN u.tree
  BY <1>4, <1>5, CountedFacts
<1> HIDE DEF v, n
<1>8. p \in DOMAIN v.tree \ {Root} /\ v.tree[p].dentry.dir
  BY <1>1, <1>5, <1>7 DEF DirRead
<1>9. Quiet(vol, u) /\ Quiet(u, v)
  <2>1. KeptBut(u, v, {})
    BY <1>7, DirReadKeeps
  <2> QED BY <1>2, <1>4, <2>1, QuietSame, QuietKept
<1>10. Quiet(vol, v)
  BY <1>9, QuietTwice
<1>11. CASE vol' = x
  <2>1. x.fat = v.fat /\ x.tree = v.tree /\ x.data = v.data
    BY <1>6, FailedFacts
  <2> HIDE DEF x
  <2>2. Quiet(v, x)
    BY <1>6, <2>1, QuietSame
  <2>3. Quiet(vol, x)
    BY <1>10, <2>2, QuietTwice
  <2> QED BY <1>1, <1>11, <2>3, QuietMoves
<1>12. CASE vol' = w
  <2>1. KeptBut(v, w, {p})
    BY <1>6, <1>8, UnlinkData
  <2> HIDE DEF w
  <2>2. KeptBut(v, w, {})
    BY <1>8, <2>1 DEF KeptBut, FilesOf
  <2>3. Quiet(v, w)
    BY <1>6, <2>2, QuietKept
  <2>4. Quiet(vol, w)
    BY <1>10, <2>3, QuietTwice
  <2> QED BY <1>1, <1>12, <2>4, QuietMoves
<1> QED BY <1>3, <1>11, <1>12

\* A volume is mounted with no file in the tree.
LEMMA InitData == Init => Data!AbsInit
<1>1. SUFFICES ASSUME Init PROVE Data!AbsInit
  OBVIOUS
<1>2. PICK image \in Images : vol = Mounted(image)
  BY <1>1 DEF Init
<1> DEFINE f == File(Entry(Root, TRUE, 2), 0)
<1>3. f.dentry.dir = TRUE
  BY RootFacts
<1> HIDE DEF f
<1>4. vol.tree = [q \in {Root} |-> f]
  BY <1>2 DEF Mounted, f
<1>5. \A q : ~IsFile(q)
  BY <1>3, <1>4 DEF IsFile, Exists
<1>6. {q \in DOMAIN vol.tree : IsFile(q)} = {}
  BY <1>5
<1>7. io = [op |-> "none"]
  BY <1>1 DEF Init
<1> QED BY <1>6, <1>7 DEF Data!AbsInit

\* Every operation is a step of Data.
LEMMA NextData ==
  ASSUME IInv, CleanDirs, Operation
  PROVE  Moves
<1>1. CASE \E p \in Paths \ {Root, Log} : GetattrMiss(p) \/ Mknod(p)
  BY <1>1, GetattrMissMoves, MknodMoves
<1>2. CASE \E p \in Dirs : Readdir(p)
  BY <1>2, ReaddirMoves
<1>3. CASE \E p \in Dirs \ {Root} : Mkdir(p) \/ Rmdir(p)
  BY <1>3, MkdirMoves, RmdirMoves
<1>4. CASE \E p \in Paths, off \in {0, U} : Read(p, off, U)
  BY <1>4, ReadMoves, FatAssumption
<1>5. CASE \E p \in Paths \ {Log} : Utime(p)
  BY <1>5, UtimeMoves
<1>6. CASE \E p \in Paths \ {Log} : \E off \in 0..(2 * U), n \in 1..2, x \in Values : Write(p, off, [i \in 1..n |-> x])
  <2>1. PICK p \in Paths \ {Log}, off \in 0..(2 * U), n \in 1..2, x \in Values : Write(p, off, [i \in 1..n |-> x])
    BY <1>6
  <2> DEFINE vals == [i \in 1..n |-> x]
  <2>2. off \in Nat /\ n \in Nat /\ x \in Writable
    BY DEF Writable
  <2>3. Write(p, off, vals) /\ vals \in Seq(Writable)
    BY <2>1, <2>2
  <2> HIDE DEF vals
  <2> QED BY <2>2, <2>3, WriteMoves
<1>7. CASE \E p \in Paths \ {Log} : \E off \in 0..(2 * U + 1) : Truncate(p, off)
  <2>1. PICK p \in Paths \ {Log}, off \in 0..(2 * U + 1) : Truncate(p, off)
    BY <1>7
  <2>2. off \in Nat
    OBVIOUS
  <2> QED BY <2>1, <2>2, TruncateMoves
<1>8. CASE \E p \in Paths \ {Log} : Unlink(p)
  BY <1>8, UnlinkMoves
<1> QED BY <1>1, <1>2, <1>3, <1>4, <1>5, <1>6, <1>7, <1>8 DEF Operation

\* A file has what the driver has answered that it has written there, a read
\* answers just that, and no operation on another file, on a directory or on the
\* log changes it, until a directory is on a cluster where the data of a file are
\* read as an entry: until then the driver implements AbstractFiles.
THEOREM DataKept == Spec => KeepsData
<1> DEFINE f == [p \in {q \in DOMAIN vol.tree : IsFile(q)} |-> Contents(p)]
<1>1. CleanInv /\ [Next]_vars => [clean' => Data!AbsNext]_<<f, io>>
  <2>1. SUFFICES ASSUME CleanInv, [Next]_vars PROVE [clean' => Data!AbsNext]_<<f, io>>
    OBVIOUS
  <2>2. CASE UNCHANGED vars
    <3>1. vol' = vol /\ io' = io
      BY <2>2 DEF vars
    <3>2. f' = f
      BY <3>1 DEF IsFile, Exists, Contents
    <3> QED BY <3>1, <3>2
  <2>3. CASE Next
    <3>1. ASSUME clean' PROVE Data!AbsNext
      <4>1. IInv /\ CleanDirs
        BY <2>1, <2>3, <3>1 DEF Next, CleanInv
      <4>2. Moves
        BY <2>3, <4>1, NextData DEF Next
      <4> QED BY <4>2, StepIs DEF Moves
    <3> QED BY <3>1
  <2> QED BY <2>1, <2>2, <2>3
<1> QED BY <1>1, InitData, InvariantAlways, PTL DEF Spec, KeepsData

=============================================================================
