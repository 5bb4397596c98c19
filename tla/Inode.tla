------------------------------- MODULE Inode -------------------------------
(***************************************************************************)
(* The inodes of the file system (LAB2/kernel/fs.c): on disk, and in the   *)
(* table of inodes in use.  An entry of the table has a reference count,   *)
(* guarded by the table's spinlock, and a copy of the inode, guarded by    *)
(* the entry's sleep lock and valid once somebody has locked it.           *)
(*                                                                         *)
(* The disk is as the log shows it to the file system (Log, AtomicDisk).   *)
(* A file's content is a sequence of blocks, a directory's a function from *)
(* names to inode numbers, in one block.                                   *)
(***************************************************************************)
EXTENDS Naturals, Sequences, FiniteSets, FiniteSetsExt, TLC

CONSTANTS
  Inums,    \* the inodes of the disk
  Root,     \* the root directory's
  NINODE,   \* entries of the table
  NBLOCK,   \* blocks for content
  MAXFILE,  \* blocks a file can have
  Procs,    \* processes
  Nobody    \* no process

ASSUME InodeAssumption == Root \in Inums /\ Nobody \notin Procs /\ NINODE \in Nat

VARIABLES
  dinode,   \* the inodes on disk, with their content
  itable    \* the entries of the table

Slots == 1..NINODE

\* An inode that is not allocated.  A file can have a spare block, beyond its size.
Free == [type |-> "free", nlink |-> 0, dir |-> <<>>, data |-> <<>>, spare |-> 0]

Unreferenced == [inum |-> Root, ref |-> 0, valid |-> FALSE, lock |-> Nobody, type |-> "free", nlink |-> 0]

\* balloc(): how many blocks are free.
BlocksOf(inode) == IF inode.dir = <<>> THEN Len(inode.data) + inode.spare ELSE 1
FreeBlocks == NBLOCK - MapThenSumSet(LAMBDA i : BlocksOf(dinode[i]), Inums)

\* iget(): the entry of an inode, a new one if it is not in the table.  When no
\* entry is left, because NINODE inodes are in use, iget() panics, and Min() has no value:
\* TLC stops there.
EntryFor(table, inum) ==
  LET using == {s \in Slots : table[s].ref > 0 /\ table[s].inum = inum}
      empty == {s \in Slots : table[s].ref = 0}
  IN IF using # {} THEN CHOOSE s \in using : TRUE ELSE Min(empty)

Iget(table, inum) == LET s == EntryFor(table, inum) IN
  IF table[s].ref > 0
    THEN [table EXCEPT ![s].ref = @ + 1]
    ELSE [table EXCEPT ![s] = [Unreferenced EXCEPT !.inum = inum, !.ref = 1]]

\* idup()
Idup(table, s) == [table EXCEPT ![s].ref = @ + 1]

\* ilock(): possible when nobody has the lock; the copy is read if it is not valid.
OnDisk(s) == dinode[itable[s].inum]
Loaded(table, s) ==
  IF table[s].valid THEN table
  ELSE [table EXCEPT ![s].valid = TRUE, ![s].type = dinode[table[s].inum].type,
                     ![s].nlink = dinode[table[s].inum].nlink]
Locked(s, p) == [Loaded(itable, s) EXCEPT ![s].lock = p]

\* It panics when the inode is free, "ilock: no type".
NoType(s) == itable[s].lock = Nobody /\ Loaded(itable, s)[s].type = "free"
Lockable(s) == itable[s].lock = Nobody /\ ~NoType(s)

\* (mutant of Unlocked: iunlock() without releasesleep())
UnlockedNever(table, s) == table

Unlocked(table, s) == [table EXCEPT ![s].lock = Nobody]

\* The table and the disk after iupdate() of a copy whose link count has changed.
Linked(table, s, n) == [table EXCEPT ![s].nlink = n]
\* (mutant of LinkedOnDisk: without iupdate())
LinkedInTable(disk, s, n) == disk

LinkedOnDisk(disk, s, n) == [disk EXCEPT ![itable[s].inum].nlink = n]

\* ialloc(): the first inode that is free.
FreeInums == {i \in Inums : dinode[i].type = "free"}

\* dirlookup(), in a directory that is locked or can be; dirlink() of a name it has not.
HasName(s, name) == name \in DOMAIN OnDisk(s).dir
Dirlookup(s, name) == OnDisk(s).dir[name]
WithName(disk, s, name, inum) == [disk EXCEPT ![itable[s].inum].dir = (name :> inum) @@ @]

\* (mutant of IsDirEmpty: one entry is missed)
IsDirEmptyButOne(dir) == Cardinality(DOMAIN dir) <= 3

\* isdirempty()
IsDirEmpty(dir) == DOMAIN dir \subseteq {".", ".."}

\* (mutant of MustFree: frees an inode that others have references to)
MustFreeAny(s) == itable[s].valid /\ itable[s].nlink = 0

\* (mutant of MustFree: the count is tested as if it had been decremented)
MustFreeLate(s) == itable[s].ref = 0 /\ itable[s].valid /\ itable[s].nlink = 0

\* iput(): whether to free the inode, which nobody else has a reference or a link to.
MustFree(s) == itable[s].ref = 1 /\ itable[s].valid /\ itable[s].nlink = 0

=============================================================================
