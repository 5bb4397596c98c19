-------------------------------- MODULE Fat --------------------------------
(***************************************************************************)
(* The FAT file system over FUSE (LAB4/esqueleto): the table of cluster    *)
(* chains (fat_table.c), files and directories on it (fat_file.c), the     *)
(* tree of the files that the driver has read (fat_fs_tree.c) and the      *)
(* operations that FUSE calls, one at a time (fat_fuse_ops.c), with the    *)
(* hidden log that each read and write adds a record to (big_brother.c).   *)
(*                                                                         *)
(* The driver is one thread: its state is one record, the volume, and each *)
(* function of the driver a function from volumes to volumes.  Data are    *)
(* counted in units, U of them to a cluster; E directory entries fill one. *)
(*                                                                         *)
(* A new directory's cluster is not cleared: what a file left there is     *)
(* read as entries.  What then happens to the files is in the model, and   *)
(* `clean' tells the properties whether it has happened.                   *)
(***************************************************************************)
EXTENDS Integers, Sequences, FiniteSets, SequencesExt, TLC

CONSTANTS
  LastCluster,   \* the table has clusters 2..LastCluster: any number it has is valid to the driver
  U, E,          \* units, and directory entries, in a cluster
  Paths,         \* the paths programs use
  Dirs,          \* those of them that may be directories
  Root, Log,     \* "/" and "/fs.log"
  ParentOf,      \* the directory each path is in
  Values,        \* what programs write in a unit
  LogRecord,     \* a record of the log
  ReadAs,        \* what the slots of a unit with those data are read as
  Stray,         \* in each directory, the path of an entry read from a file's data
  Images,        \* the volumes that may be mounted
  MaxOps         \* bound: how many operations a mounted volume is used for

Clusters == 2..LastCluster

\* Entries of the table.
FREE == 0
EOC == -1

\* What a directory's slot may hold besides an entry: what ends the directory;
\* what no entry is read from.
End == [path |-> "end"]
Junk == [path |-> "junk"]

\* Data that no file has: of a directory, or of a cluster never written.
Stale == "stale"

\* Names on disk that are nobody's path: of a deleted file; of the log, once it is
\* hidden, and once its name has been shifted twice.
Erased == "erased"
Hidden == "hidden"
Ruined == "ruined"

\* The name of an entry that nobody wrote: a file's data, read as an entry.
Leftover == "leftover"
Leftovers == [path : {Leftover}, dir : BOOLEAN, start : Clusters, size : Nat]

ASSUME FatAssumption ==
  /\ LastCluster \in Nat /\ 2 \in Clusters
  /\ U \in Nat \ {0} /\ E \in Nat \ {0} /\ E % U = 0
  /\ {Root, Log} \subseteq Paths /\ Root \in Dirs /\ Log \notin Dirs /\ Dirs \subseteq Paths
  /\ {Erased, Hidden, Ruined, Leftover} \intersect Paths = {}
  /\ ParentOf \in [Paths \ {Root} -> Dirs] /\ ParentOf[Log] = Root
  /\ ReadAs \in [Values \union {LogRecord} -> [1..(E \div U) -> Leftovers \union {End, Junk}]]
  /\ \A d \in Dirs : Stray[d] \in Paths \ {Root} /\ ParentOf[Stray[d]] = d

VARIABLES
  vol,     \* the volume and the driver's memory
  status,  \* running; crashed: it has read outside its memory; undefined: it uses memory it does not have
  io,      \* what the last operation on a file's data was, and its answer
  nops,    \* how many operations there were
  clean    \* history: no directory was ever on a cluster where a file's data would be read as an entry

vars == <<vol, status, io, nops, clean>>

-----------------------------------------------------------------------------
(* fat_table.c *)

\* The clusters from c on.  fat_table_get_next_cluster() takes what is not a
\* cluster's number for the end.  (A chain is no longer than the table.)
Chain(fat, c) ==
  LET walk[clusters \in Seq(Clusters)] ==
        IF fat[Last(clusters)] \in Clusters /\ Len(clusters) < LastCluster
          THEN walk[Append(clusters, fat[Last(clusters)])]
          ELSE clusters
  IN walk[<<c>>]

\* Free clusters, and the first of them.
FreeClusters(fat) == {c \in Clusters : fat[c] = FREE}
NextFree(fat) == CHOOSE c \in FreeClusters(fat) : \A d \in FreeClusters(fat) : c <= d

\* fat_table_get_clusters_for_size()
ClustersFor(size) == (size + U - 1) \div U

\* The table with the clusters freed.
Freed(fat, clusters) == [c \in Clusters |-> IF c \in clusters THEN FREE ELSE fat[c]]

-----------------------------------------------------------------------------
(* fat_file.c *)

AtLeast(m, n) == IF n > m THEN n ELSE m

\* The unit of a cluster that its k-th directory slot is in, and where in the unit.
UnitOf(k) == ((k - 1) \div (E \div U)) + 1
PlaceIn(k) == ((k - 1) % (E \div U)) + 1

\* (mutant of WriteEntry: no test that the directory's cluster has the slot)
WriteEntryPast(v, dir, entry, slot) ==
  [v EXCEPT !.slots[v.tree[dir].start][slot + 1] = entry]

\* write_dir_entry(): write the entry in a slot of the directory's cluster.
WriteEntry(v, dir, entry, slot) ==
  IF slot >= E
    THEN [v EXCEPT !.failed = TRUE]
    ELSE LET c == v.tree[dir].start IN
           [v EXCEPT !.slots[c][slot + 1] = entry, !.data[c][UnitOf(slot + 1)] = Stale]

\* The file's entry, at its position in the directory it is in.
WriteOwnEntry(v, p) == WriteEntry(v, ParentOf[p], v.tree[p].dentry, v.tree[p].pos)

\* A file as init_file_from_dentry() and fat_file_init() make it.
File(dentry, pos) ==
  [dentry |-> dentry, start |-> dentry.start, pos |-> pos, nentries |-> 0, read |-> FALSE]

\* fat_tree_insert(), of files: it ignores a path that the tree has.
Insert(tree, files) ==
  [q \in DOMAIN tree \union DOMAIN files |-> IF q \in DOMAIN tree THEN tree[q] ELSE files[q]]

Entry(p, dir, start) == [path |-> p, dir |-> dir, start |-> start, size |-> 0]

\* fat_file_pwrite() does nothing if the offset is past the end, or if errno is
\* set when it has found the first cluster, by this call or an earlier one; else
\* it writes as much as fits the chain, which never grows.
PastEnd(v, p, off) == off > v.tree[p].dentry.size \/ off \div U > Len(Chain(v.fat, v.tree[p].start))
Room(v, p, off) == AtLeast(0, U * Len(Chain(v.fat, v.tree[p].start)) - off)
Fits(v, p, off, vals) == IF Len(vals) < Room(v, p, off) THEN Len(vals) ELSE Room(v, p, off)

\* (mutant of Pwrite: takes the clusters of a file to be one after another)
PwriteContiguous(v, p, off, vals) ==
  LET n == Fits(v, p, off, vals)
      put(c, j) == LET i == U * (c - v.tree[p].start) + j - off IN
                     IF i \in 1..n THEN vals[i] ELSE v.data[c][j]
  IN IF PastEnd(v, p, off) \/ v.failed
       THEN v
       ELSE WriteOwnEntry([v EXCEPT !.data = [c \in Clusters |-> [j \in 1..U |-> put(c, j)]],
                                    !.tree[p].dentry.size = IF off + n > @ THEN off + n ELSE @], p)

Pwrite(v, p, off, vals) ==
  LET clusters == Chain(v.fat, v.tree[p].start)
      n == Fits(v, p, off, vals)
      \* what is written to unit j of cluster c: the index in vals
      written(c, j) == {i \in 1..n : clusters[((off + i - 1) \div U) + 1] = c /\ (off + i - 1) % U = j - 1}
      put(c, j) == IF written(c, j) = {} THEN v.data[c][j] ELSE vals[CHOOSE i \in written(c, j) : TRUE]
      keep(c, k) == IF written(c, UnitOf(k)) = {} THEN v.slots[c][k] ELSE ReadAs[put(c, UnitOf(k))][PlaceIn(k)]
  IN IF PastEnd(v, p, off)
       THEN [v EXCEPT !.failed = TRUE]
       ELSE IF v.failed
              THEN v
              ELSE WriteOwnEntry([v EXCEPT !.data = [c \in Clusters |-> [j \in 1..U |-> put(c, j)]],
                                           !.slots = [c \in Clusters |-> [k \in 1..E |-> keep(c, k)]],
                                           !.tree[p].dentry.size = IF off + n > @ THEN off + n ELSE @], p)

\* What it answers: how much it has written.
PwriteAnswer(v, p, off, vals) == IF PastEnd(v, p, off) \/ v.failed THEN 0 ELSE Fits(v, p, off, vals)

\* The data of a chain, and what fat_file_pread() reads of it: units that the
\* chain has, up to the file's size.
ChainData(v, c) == LET clusters == Chain(v.fat, c) IN
  [i \in 1..(U * Len(clusters)) |-> v.data[clusters[((i - 1) \div U) + 1]][((i - 1) % U) + 1]]

Pread(v, p, off, n) ==
  LET data == ChainData(v, v.tree[p].start)
      size == IF Len(data) < v.tree[p].dentry.size THEN Len(data) ELSE v.tree[p].dentry.size
  IN SubSeq(data, off + 1, IF off + n > size THEN size ELSE off + n)

\* fat_file_truncate()
TruncateTo(v, p, off) ==
  LET file == v.tree[p]
      clusters == Chain(v.fat, file.start)
      last == (off \div U) + 1
      rest == {clusters[i] : i \in (last + 1)..Len(clusters)}
  IN IF off > file.dentry.size \/ AtLeast(1, ClustersFor(off)) >= AtLeast(1, ClustersFor(file.dentry.size))
       THEN v
       ELSE WriteOwnEntry([v EXCEPT !.fat = [Freed(v.fat, rest) EXCEPT ![clusters[last]] = EOC],
                                    !.tree[p].dentry.size = off], p)

\* fat_file_unlink(): free the chain and mark the entry deleted.
UnlinkFile(v, p) ==
  WriteEntry([v EXCEPT !.fat = Freed(@, Range(Chain(@, v.tree[p].start)))],
             ParentOf[p], [v.tree[p].dentry EXCEPT !.path = Erased], v.tree[p].pos)

-----------------------------------------------------------------------------
(* Reading a directory *)

\* The slots up to the end mark, those that an entry is read from, and the path
\* an entry has in a directory: the log's name is recovered from its hidden form.
Processed(slots) ==
  LET ends == {k \in 1..E : slots[k] = End} IN
    IF ends = {} THEN E ELSE (CHOOSE k \in ends : \A j \in ends : k <= j) - 1
Live(slots) == {k \in 1..Processed(slots) : slots[k] # Junk /\ slots[k].path \notin {Erased, Ruined}}
PathOf(entry, dir) ==
  CASE entry.path = Hidden -> Log [] entry.path = Leftover -> Stray[dir] [] OTHER -> entry.path

\* fat_file_read_children() counts the entries of the directory and marks it read.
Counted(v, dir) ==
  [v EXCEPT !.tree[dir].nentries = Processed(v.slots[v.tree[dir].start]), !.tree[dir].read = TRUE]

\* It makes a file of each entry, with the number of entries the directory had
\* before as its position, and inserts them.
ReadChildren(v, dir) ==
  LET slots == v.slots[v.tree[dir].start]
      new == {PathOf(slots[k], dir) : k \in Live(slots)} \ DOMAIN v.tree
      first(p) == CHOOSE k \in Live(slots) :
                    PathOf(slots[k], dir) = p /\ \A j \in Live(slots) : PathOf(slots[j], dir) = p => k <= j
      files == [p \in new |-> File([slots[first(p)] EXCEPT !.path = p], v.tree[dir].nentries)]
  IN [Counted(v, dir) EXCEPT !.tree = Insert(@, files)]

-----------------------------------------------------------------------------
(* The volumes that may be mounted *)

Entries == [path : Paths \union {Erased, Hidden, Ruined, Leftover}, dir : BOOLEAN, start : Clusters, size : Nat]
Units == Values \union {LogRecord, Stale}

\* The slot holds the entry that was written for a file, and the path it has.
IsEntry(slot) == slot \notin {End, Junk} /\ slot.path \notin {Erased, Ruined, Leftover}
PathIn(slot) == IF slot.path = Hidden THEN Log ELSE slot.path

\* As mkfs and other drivers leave them: every entry is of a file in the
\* directory its cluster is of, every file has one entry and a chain of its own
\* that ends and holds its size, the chain of a directory is one cluster, no
\* entry follows the end mark, and the root, which mkfs has cleared, has no
\* leftovers.
WellFormed(image) ==
  LET At(l) == image.slots[l[1]][l[2]]
      places == {l \in Clusters \X (1..E) : IsEntry(At(l))}
      starts == {2} \union {At(l).start : l \in places}
  IN /\ image \in [fat : [Clusters -> Clusters \union {FREE, EOC}],
                    slots : [Clusters -> [1..E -> Entries \union {End, Junk}]],
                    data : [Clusters -> [1..U -> Units]]]
     /\ image.fat[2] = EOC /\ \A k \in 1..E : image.slots[2][k] \notin Leftovers
     /\ \A l \in places :
          /\ PathIn(At(l)) # Root /\ At(l).start # 2
          /\ At(l).dir => PathIn(At(l)) \in Dirs /\ image.fat[At(l).start] = EOC
          /\ At(l).size <= U * Len(Chain(image.fat, At(l).start))
          /\ \/ l[1] = 2 /\ ParentOf[PathIn(At(l))] = Root
             \/ \E m \in places : At(m).dir /\ At(m).start = l[1] /\ ParentOf[PathIn(At(l))] = PathIn(At(m))
          /\ \A k \in 1..(l[2] - 1) : image.slots[l[1]][k] # End
          /\ \A m \in places : At(l).start = At(m).start => l = m
     /\ \A a \in starts :
          LET clusters == Chain(image.fat, a) IN
            /\ IsInjective(clusters) /\ image.fat[Last(clusters)] = EOC
            /\ \A b \in starts \ {a} : Range(clusters) \intersect Range(Chain(image.fat, b)) = {}

ASSUME ImagesAssumption == \A image \in Images : WellFormed(image)

-----------------------------------------------------------------------------
(* The handlers (fat_fuse_ops.c), on volumes *)

Cleared(v) == [v EXCEPT !.failed = FALSE]

\* fat_fuse_log_activity(): a record at the end of the log.
LogActivity(v) == Pwrite(v, Log, v.tree[Log].dentry.size, <<LogRecord>>)

\* (mutant of Create: the new file's cluster stays free)
CreateUnmarked(v, p, dir) ==
  LET entry == Entry(p, dir, NextFree(v.fat)) IN
    [v EXCEPT !.failed = FALSE, !.tree = Insert(@, [q \in {p} |-> File(entry, 0)])]

\* What fat_fuse_mknod() and fat_fuse_mkdir() do: fat_file_init() takes the
\* first free cluster, the file enters the tree, if it has none with its path,
\* and fat_file_dentry_add_child() writes its entry after the last one.  If
\* the directory is full, the file keeps position 0.
Create(v, p, dir) ==
  LET entry == Entry(p, dir, NextFree(v.fat))
      parent == ParentOf[p]
      nentries == v.tree[parent].nentries
      added == WriteEntry([v EXCEPT !.failed = FALSE, !.fat[entry.start] = EOC, !.tree = Insert(@, [q \in {p} |-> File(entry, 0)])],
                          parent, entry, nentries)
      counted == [added EXCEPT !.tree[parent].nentries = @ + 1]
  IN IF added.failed THEN added
     ELSE IF p \in DOMAIN v.tree THEN counted ELSE [counted EXCEPT !.tree[p].pos = nentries]

\* The rest of fat_fuse_mknod() for the log: the first record, then the name that
\* hides the log, made from the one it has.
HideLog(v) ==
  LET logged == LogActivity(v) IN
    WriteOwnEntry([logged EXCEPT !.tree[Log].dentry.path = IF @ = Log THEN Hidden ELSE Ruined], Log)

NewFile(v, p) == IF p = Log THEN HideLog(Create(v, p, FALSE)) ELSE Create(v, p, FALSE)

-----------------------------------------------------------------------------
(* The operations FUSE calls.  It looks a path up before it calls them. *)

Exists(p) == p \in DOMAIN vol.tree
IsDir(p) == Exists(p) /\ vol.tree[p].dentry.dir
IsFile(p) == Exists(p) /\ ~vol.tree[p].dentry.dir

Running == status = "running"
Becomes(v) == vol' = v /\ UNCHANGED status

\* The driver reads outside its memory.
Crash == status' = "crashed" /\ UNCHANGED vol

\* An operation that gives no answer about data.
Silent == io' = [op |-> "none"]

\* fat_fuse_getattr() of a path that is not in the tree sets errno.
GetattrMiss(p) ==
  /\ Running /\ ~Exists(p) /\ IsDir(ParentOf[p])
  /\ Becomes([vol EXCEPT !.failed = TRUE])
  /\ Silent

\* The children of a directory's node in the tree.
Children(tree, p) == {q \in DOMAIN tree \ {Root} : ParentOf[q] = p}

\* fat_tree_flatten_h_children() makes room for as many children as the directory
\* has entries, and for the end of the list.
Listed(v, p) ==
  /\ vol' = v
  /\ status' \in IF Cardinality(Children(v.tree, p)) <= v.tree[p].nentries
                  THEN {"running"} ELSE {"running", "undefined"}

\* fat_fuse_readdir(): the first time, read the directory and make the log; then
\* list the children.
Readdir(p) ==
  /\ Running /\ IsDir(p)
  /\ IF vol.tree[p].read THEN Listed(Cleared(vol), p)
       ELSE IF FreeClusters(vol.fat) = {} THEN Crash
       ELSE Listed(NewFile(ReadChildren(vol, p), Log), p)
  /\ Silent

\* fat_table_get_next_free_cluster() looks no further than the table's end only if
\* the table has a free cluster.  (It would refuse a number with no data cluster,
\* but num_data_clusters, from a 16-bit field that is 0 on FAT32, is huge.)
Mknod(p) ==
  /\ Running /\ ~Exists(p) /\ IsDir(ParentOf[p])
  /\ IF FreeClusters(vol.fat) = {} THEN Crash ELSE Becomes(NewFile(vol, p))
  /\ Silent

Mkdir(p) ==
  /\ Running /\ ~Exists(p) /\ IsDir(ParentOf[p])
  /\ IF FreeClusters(vol.fat) = {} THEN Crash ELSE Becomes(Create(vol, p, TRUE))
  /\ Silent

\* fat_fuse_read(): also logs, which fails unless some directory was read.
Read(p, off, n) ==
  /\ Running /\ IsFile(p)
  /\ LET v == Cleared(vol)
         data == Pread(v, p, off, n)
         read == IF data = <<>> THEN v ELSE WriteOwnEntry(v, p)
     IN IF off > vol.tree[p].dentry.size
          THEN Becomes([v EXCEPT !.failed = TRUE]) /\ Silent
          ELSE /\ IF Exists(Log) THEN Becomes(LogActivity(read)) ELSE Crash
               /\ io' = [op |-> "read", path |-> p, off |-> off, len |-> n, data |-> data]

\* fat_fuse_write() logs first, and leaves errno as it is.
Write(p, off, vals) ==
  /\ Running /\ IsFile(p)
  /\ off <= vol.tree[p].dentry.size
  /\ IF Exists(Log)
       THEN LET v == LogActivity(vol) IN
              /\ Becomes(Pwrite(v, p, off, vals))
              /\ io' = [op |-> "write", path |-> p, off |-> off, vals |-> vals, n |-> PwriteAnswer(v, p, off, vals)]
       ELSE Crash /\ Silent

Truncate(p, off) ==
  /\ Running /\ IsFile(p)
  /\ Becomes(TruncateTo(Cleared(vol), p, off))
  /\ io' = [op |-> "truncate", path |-> p, off |-> off]

\* fat_fuse_utime(): the entry is written with other dates.  For the root, that
\* it has no parent sets errno.
Utime(p) ==
  /\ Running /\ Exists(p)
  /\ Becomes(IF p = Root THEN [vol EXCEPT !.failed = TRUE] ELSE WriteOwnEntry(Cleared(vol), p))
  /\ Silent

Without(v, p) == [v EXCEPT !.tree = [q \in DOMAIN @ \ {p} |-> @[q]]]

\* fat_fuse_unlink(): the file is destroyed, but its node stays in the tree, and
\* every later search may compare with the path that was freed.
Unlink(p) ==
  /\ Running /\ IsFile(p)
  /\ vol' = Without(UnlinkFile(Cleared(vol), p), p)
  /\ status' = "undefined"
  /\ io' = [op |-> "unlink", path |-> p]

\* fat_fuse_rmdir(): it reads the children to see whether there are any.  Files
\* of the tree that have no entry do not count, and keep a pointer to the node
\* that h_tree_delete() frees; and where the node is in the search tree decides
\* whether its file is freed twice (delete_root()).
Rmdir(p) ==
  /\ Running /\ IsDir(p) /\ p # Root
  /\ LET v == Counted(Cleared(vol), p) IN
       IF Live(v.slots[v.tree[p].start]) # {}
         THEN Becomes([v EXCEPT !.failed = TRUE])
         ELSE /\ vol' = Without(UnlinkFile(v, p), p)
              /\ status' \in {"running", "undefined"}
              /\ Children(vol.tree, p) # {} => status' = "undefined"
  /\ Silent

\* fat_volume_mount(): the tree has the root only, whose first cluster is 2.
Mounted(image) ==
  [fat |-> image.fat, slots |-> image.slots, data |-> image.data,
   tree |-> [q \in {Root} |-> File(Entry(Root, TRUE, 2), 0)], failed |-> FALSE]

Init ==
  /\ \E image \in Images : vol = Mounted(image)
  /\ status = "running" /\ io = [op |-> "none"] /\ nops = 0 /\ clean = TRUE

\* Programs use every path but the log, which they only read.
Operation ==
  \/ \E p \in Paths \ {Root, Log} : GetattrMiss(p) \/ Mknod(p)
  \/ \E p \in Dirs : Readdir(p)
  \/ \E p \in Dirs \ {Root} : Mkdir(p) \/ Rmdir(p)
  \/ \E p \in Paths, off \in {0, U} : Read(p, off, U)
  \/ \E p \in Paths \ {Log} :
       \/ Utime(p)
       \/ \E off \in 0..(2 * U), n \in 1..2, x \in Values : Write(p, off, [i \in 1..n |-> x])
       \/ \E off \in 0..(2 * U + 1) : Truncate(p, off)
       \/ Unlink(p)

\* No directory that the driver knows is on a cluster where data of a file would
\* be read as an entry.
CleanDirs ==
  \A d \in DOMAIN vol.tree : vol.tree[d].dentry.dir =>
    LET slots == vol.slots[vol.tree[d].start] IN \A k \in Live(slots) : slots[k] \notin Leftovers

Next == nops < MaxOps /\ nops' = nops + 1 /\ Operation /\ clean' = (clean /\ CleanDirs')

Spec == Init /\ [][Next]_vars

-----------------------------------------------------------------------------
(* Properties *)

FatTypeOK ==
  /\ vol.fat \in [Clusters -> Clusters \union {FREE, EOC}]
  /\ vol.slots \in [Clusters -> [1..E -> Entries \union {End, Junk}]]
  /\ vol.data \in [Clusters -> [1..U -> Units]]
  /\ DOMAIN vol.tree \subseteq Paths
  /\ \A p \in DOMAIN vol.tree :
       /\ vol.tree[p].dentry \in Entries /\ vol.tree[p].dentry.start = vol.tree[p].start
       /\ vol.tree[p].pos \in 0..(E - 1) /\ vol.tree[p].nentries \in 0..E
       /\ p # Root /\ Running => IsDir(ParentOf[p])
  /\ vol.failed \in BOOLEAN
  /\ status \in {"running", "crashed", "undefined"} /\ clean \in BOOLEAN

ChainOf(p) == Chain(vol.fat, vol.tree[p].start)

\* The chains of the files that the driver knows end, hold the whole file, are
\* marked as used, and share no cluster, whatever was created, truncated and
\* removed, with the table full and the directories full, until a directory is on
\* a cluster where a file's data would be read as an entry: nothing else
\* (read_cluster_dir_entries()) leads two files to a cluster.
ChainsDisjoint == clean =>
  /\ \A p \in DOMAIN vol.tree :
       /\ \A c \in Range(ChainOf(p)) : vol.fat[c] # FREE
       /\ IsInjective(ChainOf(p))
       /\ vol.tree[p].dentry.size <= U * Len(ChainOf(p))
  /\ \A p, q \in DOMAIN vol.tree : p # q => Range(ChainOf(p)) \intersect Range(ChainOf(q)) = {}

\* The data of a file.
Contents(p) == Pread(vol, p, 0, vol.tree[p].dentry.size)

\* A file has what the driver has answered that it has written, wherever its
\* clusters are, and a read answers just that, until a directory is on a cluster
\* where a file's data would be read as an entry.
Data == INSTANCE AbstractFiles WITH
  files <- [p \in {q \in DOMAIN vol.tree : IsFile(q)} |-> Contents(p)]

KeepsData ==
  /\ Data!AbsInit
  /\ [][clean' => Data!AbsNext]_<<[p \in {q \in DOMAIN vol.tree : IsFile(q)} |-> Contents(p)], io>>

\* "debemos mantener la consistencia entre la informacion en memoria y la
\* informacion en la imagen" (README.md): the entries on the disk of a directory
\* that was read are those of its files in the tree.
ImageMatchesTree ==
  Running => \A d \in Dirs :
    IsDir(d) /\ vol.tree[d].read =>
      LET slots == vol.slots[vol.tree[d].start] IN
        {slots[k] : k \in Live(slots)} = {vol.tree[p].dentry : p \in Children(vol.tree, d)}

=============================================================================
