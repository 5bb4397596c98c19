------------------------------- MODULE Memory -------------------------------
(***************************************************************************)
(* Physical pages (LAB2/kernel/kalloc.c) and the address spaces made of    *)
(* them (vm.c).  Pages are taken and given back one at a time, from a      *)
(* list; nothing depends on which page it is, so that a number of free     *)
(* pages stands for the list.  An address space maps the pages from        *)
(* address 0 to its size, and keeps the page-table pages it ever needed.   *)
(* The contents of memory are left out.                                    *)
(***************************************************************************)
EXTENDS Integers, Sequences, FiniteSets, FiniteSetsExt

CONSTANTS
  NPAGES,   \* pages that processes, page tables and pipes can have
  PGSIZE,   \* bytes in a page
  PTES      \* pages that a page-table page of the lowest level maps

ASSUME MemoryAssumption == NPAGES \in Nat /\ PGSIZE \in Nat \ {0} /\ PTES \in Nat \ {0}

\* proc_pagetable(): the root, and the two beneath it that map the trampoline and the trapframe.
FIXED == 3

\* The size in bytes, the pages that are mapped, the page-table pages for them, and the
\* page of the stack, beneath which is the guard page that uvmclear() makes inaccessible.
NoSpace == [sz |-> 0, pages |-> 0, tables |-> 0, stack |-> 0]

PageRoundUp(sz) == (sz + PGSIZE - 1) \div PGSIZE

\* walk(): the page-table pages that n pages need, one of them of the middle level.
TablesFor(n) == IF n = 0 THEN 0 ELSE 1 + (n + PTES - 1) \div PTES

\* What uvmalloc() takes until n pages are mapped; how many it maps of them when there
\* are so many free pages; and the space then.
Growth(space, n) == n - space.pages + Max({0, TablesFor(n) - space.tables})
Reached(space, n, free) == Max({m \in space.pages..n : Growth(space, m) <= free})
Grows(space, n, free) == Growth(space, n) <= free
Mapped(space, n) == [space EXCEPT !.pages = n, !.tables = Max({@, TablesFor(n)})]

\* uvmdealloc(): the page-table pages are kept.
Unmapped(space, n) == [space EXCEPT !.pages = Min({@, n})]

\* All that a space has: what proc_freepagetable() gives back.
PagesOf(space) == FIXED + space.tables + space.pages

\* walkaddr(): user addresses that can be read; the kernel writes to them too, whatever
\* the page allows.  How many of n bytes copyin() or copyout() copy.
UserPage(space, k) == k < space.pages /\ k # space.stack - 1
CanCopy(space, addr, n) == \A b \in addr..(addr + n - 1) : UserPage(space, b \div PGSIZE)
Copied(space, addr, n) == Max({m \in 0..n : CanCopy(space, addr, m)})

\* What the process itself may do at an address: the text, the first page, is not writable.
CanTouch(space, addr, store) == UserPage(space, addr \div PGSIZE) /\ (store => addr >= PGSIZE)

\* exec(): the strings and the array of their addresses must fit in the page of the stack.
ArgumentsFit(args) ==
  MapThenSumSet(LAMBDA i : Len(args[i]) + 1, DOMAIN args) + Len(args) + 1 <= PGSIZE
=============================================================================
