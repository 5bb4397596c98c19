------------------------------ MODULE Syscalls ------------------------------
(***************************************************************************)
(* The system calls on files (LAB2/kernel/sysfile.c, file.c), pipes        *)
(* (pipe.c), inodes (fs.c) and memory (vm.c, exec.c), by concurrent        *)
(* processes.                                                              *)
(*                                                                         *)
(* A step is what a process does between two points where it may have to   *)
(* wait, for an inode's lock or asleep on a pipe, or where another process *)
(* may see what it left: each iput() is a step of its own, and the freeing *)
(* of an inode three.  A call holds the registers that name the inodes it  *)
(* has references to.  begin_op() and end_op() are in Log: here a call     *)
(* always has a transaction.  A call takes the pages it needs in a step;   *)
(* when they run out it has taken all there are, and gives them back in    *)
(* another, so that other calls find none meanwhile.                       *)
(***************************************************************************)
EXTENDS Inode, Pipe, Memory, SequencesExt

CONSTANTS
  Files,    \* the entries of the file table
  Fds,      \* the file descriptors of a process
  Pipes,    \* the pages pipes are made of
  MaxWrite, \* how many blocks filewrite() writes in a transaction
  MAXPATH,  \* a path of so many elements is too long
  Elf,      \* the blocks that a program's file begins with
  Main(_, _)  \* what a program does, given that block and its arguments

ASSUME SyscallAssumption ==
  /\ Procs \subseteq Nat \ {0} /\ Files \subseteq Nat \ {0} /\ Pipes \subseteq Nat \ {0}
  /\ Fds \subseteq Nat /\ MaxWrite \in Nat \ {0}

VARIABLES
  ftable,   \* the open files
  pipes,    \* the pipes; freed ones have no open end
  proc,     \* the processes
  call,     \* the call each process is in
  kmem      \* the number of free pages

vars == <<dinode, itable, ftable, pipes, proc, call, kmem>>

Closed == [ref |-> 0, type |-> "none", ip |-> 0, pipe |-> NULL, off |-> 0, readable |-> FALSE, writable |-> FALSE]

\* Registers: where the process is; the inode of the path so far, or the
\* directory it is in; the new or old inode beside it; the rest of the path,
\* where to go when it is walked or cannot be; the inodes to put, the files to
\* close, and where to go then; the file or the pipe; how much is written; the result;
\* the slot of a child; pages, and an address space, that no process has yet.
NoCall == [pc |-> "user", dp |-> 0, ip |-> 0, rest |-> <<>>, name |-> NULL, parent |-> FALSE,
           then |-> NULL, onfail |-> NULL, puts |-> <<>>, after |-> NULL, files |-> <<>>,
           closed |-> NULL, file |-> 0, pipe |-> 0, writable |-> FALSE, done |-> 0, result |-> <<>>,
           child |-> 0, pages |-> 0, space |-> NoSpace]

\* The programs processes run are sequences of calls; chan is what a process sleeps on.
Process(parent, program, fds, cwd, space) ==
  [state |-> "running", parent |-> parent, program |-> program, fds |-> fds, cwd |-> cwd,
   space |-> space, killed |-> FALSE, chan |-> NULL, xstate |-> 0]

NoProcess == [Process(Nobody, <<>>, [fd \in Fds |-> 0], 0, NoSpace) EXCEPT !.state = "unused"]

\* What a process has in memory: its trapframe too.
PagesOfProcess(q) == 1 + PagesOf(proc[q].space)

\* Results of calls; read() has the data, wait() the child and its status, sbrk() the
\* address, fstat() the type, links and size (of a directory 0), and a write to a pipe that stops early how much is written. (Numbers as
\* strings, so that any two results can be compared.)
Ok == <<>>
Failed == <<"fails">>
Short(n) == <<"short", ToString(n)>>
Reaped(q, status) == <<ToString(q), ToString(status)>>
Address(addr) == <<ToString(addr)>>
Stat(type, nlink, size) == <<type, ToString(nlink), ToString(size)>>

Runs(p) == proc[p].state = "running" /\ proc[p].chan = NULL
At(p, pc) == Runs(p) /\ call[p].pc = pc
Op(p) == Head(proc[p].program)

\* A process that runs needs its text and its stack, which are not beyond its size.
Executes(p) == At(p, "user") /\ ~proc[p].killed /\ proc[p].space.pages > proc[p].space.stack
Calls(p, name) == Executes(p) /\ proc[p].program # <<>> /\ Op(p).call = name

\* The call goes on elsewhere, or puts references first, or ends.
Goto(p, pc) == call' = [call EXCEPT ![p].pc = pc]
Putting(c, slots, after) == [c EXCEPT !.pc = "iput", !.puts = slots, !.after = after]
Closing(c, files, after) == [c EXCEPT !.pc = "fileclose", !.files = files, !.closed = after]
Returning(c, result) == [c EXCEPT !.pc = "ok", !.result = result]

-----------------------------------------------------------------------------
(* iput() *)

Unreference(p) == LET c == call[p] IN
  /\ itable' = [itable EXCEPT ![Head(c.puts)].ref = @ - 1]
  /\ call' = [call EXCEPT ![p].puts = Tail(@), ![p].pc = IF Len(c.puts) = 1 THEN c.after ELSE "iput"]

\* The reference goes, and with the last one to an inode without links the inode, before.
Iput(p) == LET s == Head(call[p].puts) IN
  /\ At(p, "iput")
  /\ IF MustFree(s) THEN itable' = Locked(s, p) /\ Goto(p, "itrunc") ELSE Unreference(p)
  /\ UNCHANGED <<dinode, ftable, pipes, proc, kmem>>

Itrunc(p) == LET s == Head(call[p].puts) IN
  /\ At(p, "itrunc")
  /\ itable' = [itable EXCEPT ![s].type = "free"]
  /\ dinode' = [dinode EXCEPT ![itable[s].inum] = Free]
  /\ Goto(p, "ifreed")
  /\ UNCHANGED <<ftable, pipes, proc, kmem>>

Ifreed(p) == LET s == Head(call[p].puts) IN
  /\ At(p, "ifreed")
  /\ itable' = Unlocked([itable EXCEPT ![s].valid = FALSE], s)
  /\ Goto(p, "irelse")
  /\ UNCHANGED <<dinode, ftable, pipes, proc, kmem>>

\* The table was unlocked meanwhile.
Irelse(p) == At(p, "irelse") /\ Unreference(p) /\ UNCHANGED <<dinode, ftable, pipes, proc, kmem>>

-----------------------------------------------------------------------------
(* namex() *)

\* The registers and the table when a call starts to walk a path.
Walking(c, path, parent, then, onfail) ==
  [c EXCEPT !.pc = "walk", !.rest = path, !.parent = parent, !.then = then, !.onfail = onfail]
StartOf(p, abs) == IF abs THEN EntryFor(itable, Root) ELSE proc[p].cwd
StartTable(p, abs) == IF abs THEN Iget(itable, Root) ELSE Idup(itable, proc[p].cwd)

Walk(p, path, abs, parent, then, onfail) ==
  /\ itable' = StartTable(p, abs)
  /\ call' = [call EXCEPT ![p] = Walking([@ EXCEPT !.dp = StartOf(p, abs)], path, parent, then, onfail)]
  /\ UNCHANGED <<dinode, ftable, pipes, proc, kmem>>

\* argstr(): the path, at an address of the process, and one byte that ends it.
ArgStr(p, path) == CanCopy(proc[p].space, Op(p).addr, 2) /\ Len(path) < MAXPATH
Rejected(p) == Goto(p, "fail") /\ UNCHANGED <<dinode, itable, ftable, pipes, proc, kmem>>

\* (mutant of PathFails: the directory is not put)
PathFailsAndKeeps(c) == [c EXCEPT !.dp = 0, !.pc = c.onfail]

\* There is no such path.
PathFails(c) == Putting([c EXCEPT !.dp = 0], <<c.dp>>, c.onfail)

\* One element of the path: lock the directory, look the name up and get its
\* inode, unlock the directory, and put it.  The whole path is walked when no element
\* is left, or one if the parent is wanted.
Namex(p) ==
  LET c == call[p]
      table == Loaded(itable, c.dp)
  IN /\ At(p, "walk")
     /\ IF c.rest = <<>>
          THEN /\ call' = [call EXCEPT ![p] = IF c.parent THEN PathFails(c)
                                              ELSE [c EXCEPT !.pc = c.then, !.ip = c.dp, !.dp = 0]]
               /\ UNCHANGED itable
          ELSE /\ Lockable(c.dp)
               /\ IF table[c.dp].type = "dir" /\ c.parent /\ Len(c.rest) = 1
                    THEN /\ itable' = table
                         /\ call' = [call EXCEPT ![p].pc = c.then, ![p].name = Head(c.rest)]
                    ELSE IF table[c.dp].type # "dir" \/ ~HasName(c.dp, Head(c.rest))
                      THEN /\ itable' = table
                           /\ call' = [call EXCEPT ![p] = PathFails(c)]
                      ELSE /\ itable' = Iget(table, Dirlookup(c.dp, Head(c.rest)))
                           /\ call' = [call EXCEPT ![p] =
                                Putting([c EXCEPT !.dp = EntryFor(table, Dirlookup(c.dp, Head(c.rest))), !.rest = Tail(@)],
                                        <<c.dp>>, "walk")]
     /\ UNCHANGED <<dinode, ftable, pipes, proc, kmem>>

\* ilock() panics in the call that has walked, or goes on walking, with the lock taken:
\* that CPU does nothing more.  (The others go on, until they print.)
Locking == {"walk", "create", "exists", "opened", "link", "dirlink", "unlink", "unlinkinode", "chdir", "exec"}
IlockPanics(p) == LET c == call[p] IN
  /\ c.pc \in Locking /\ At(p, c.pc) /\ (c.pc = "walk" => c.rest # <<>>)
  /\ \E s \in {c.dp, c.ip} \ {0} : NoType(s) /\ itable' = Locked(s, p)
  /\ Goto(p, "panic")
  /\ UNCHANGED <<dinode, ftable, pipes, proc, kmem>>

-----------------------------------------------------------------------------
(* create(), open(), mkdir(), mknod() *)

\* The registers after create() fails in the directory, which is put.
PutDir(c, after) == Putting([c EXCEPT !.dp = 0], <<c.dp>>, after)

Open(p) ==
  /\ Calls(p, "open")
  /\ IF ~ArgStr(p, Op(p).path) THEN Rejected(p)
     ELSE IF Op(p).create THEN Walk(p, Op(p).path, Op(p).abs, TRUE, "create", "fail")
     ELSE Walk(p, Op(p).path, Op(p).abs, FALSE, "opened", "fail")

Mkdir(p) ==
  /\ Calls(p, "mkdir") \/ Calls(p, "mknod")
  /\ IF ArgStr(p, Op(p).path) THEN Walk(p, Op(p).path, Op(p).abs, TRUE, "create", "fail") ELSE Rejected(p)

TypeToCreate(op) == CASE op.call = "mkdir" -> "dir" [] op.call = "mknod" -> "device" [] OTHER -> "file"

\* In the directory: the inode the name has; or a new one, with the directory still locked.
Create(p) ==
  LET c == call[p]
      table == Loaded(itable, c.dp)
  IN /\ At(p, "create") /\ Lockable(c.dp)
     /\ IF HasName(c.dp, c.name)
          THEN /\ itable' = Iget(table, Dirlookup(c.dp, c.name))
               /\ call' = [call EXCEPT ![p] = PutDir([c EXCEPT !.ip = EntryFor(table, Dirlookup(c.dp, c.name))], "exists")]
               /\ UNCHANGED dinode
          ELSE IF FreeInums = {}
            THEN itable' = table /\ call' = [call EXCEPT ![p] = PutDir(c, "fail")] /\ UNCHANGED dinode
            ELSE LET inum == Min(FreeInums) IN
              /\ itable' = Iget(Locked(c.dp, p), inum)
              /\ dinode' = [dinode EXCEPT ![inum] = [Free EXCEPT !.type = TypeToCreate(Op(p))]]
              /\ call' = [call EXCEPT ![p].pc = "created", ![p].ip = EntryFor(table, inum)]
     /\ UNCHANGED <<ftable, pipes, proc, kmem>>

\* The name had an inode: open() takes a file or a device, mkdir() and mknod() nothing.
Exists(p) == LET c == call[p] IN
  /\ At(p, "exists") /\ Lockable(c.ip)
  /\ IF Op(p).call = "open" /\ Loaded(itable, c.ip)[c.ip].type \in {"file", "device"}
       THEN itable' = Locked(c.ip, p) /\ Goto(p, "opened")
       ELSE /\ itable' = Loaded(itable, c.ip)
            /\ call' = [call EXCEPT ![p] = Putting([c EXCEPT !.ip = 0], <<c.ip>>, "fail")]
  /\ UNCHANGED <<dinode, ftable, pipes, proc, kmem>>

\* The new inode gets its link and the directory its entry, and a new directory
\* "." and "..", unless no block is left for them.  (A directory is one block, with room for
\* any name, so that the entry itself never fails for want of a block.)
Created(p) ==
  LET c == call[p]
      new == itable[c.ip].inum
      parent == itable[c.dp].inum
      isdir == Op(p).call = "mkdir"
      table == Linked(Locked(c.ip, p), c.ip, 1)
  IN /\ At(p, "created") /\ Lockable(c.ip)
     /\ IF isdir /\ FreeBlocks = 0
          THEN /\ itable' = Unlocked(Linked(table, c.ip, 0), c.ip)
               /\ call' = [call EXCEPT ![p] = Putting([c EXCEPT !.ip = 0], <<c.ip>>, "unlockdir")]
               /\ UNCHANGED dinode
          ELSE /\ itable' = IF isdir THEN Unlocked(Linked(table, c.dp, table[c.dp].nlink + 1), c.dp)
                            ELSE Unlocked(table, c.dp)
               /\ dinode' = [WithName(dinode, c.dp, c.name, new) EXCEPT
                    ![new].nlink = 1,
                    ![new].dir = IF isdir THEN ("." :> new) @@ (".." :> parent) ELSE <<>>,
                    ![parent].nlink = IF isdir THEN @ + 1 ELSE @]
               /\ call' = [call EXCEPT ![p] = PutDir(c, IF Op(p).call = "open" THEN "opened" ELSE "made")]
     /\ UNCHANGED <<ftable, pipes, proc, kmem>>

\* The failed call unlocks the directory and puts it.
UnlockDir(p) == LET c == call[p] IN
  /\ At(p, "unlockdir")
  /\ itable' = Unlocked(itable, c.dp)
  /\ call' = [call EXCEPT ![p] = PutDir(c, "fail")]
  /\ UNCHANGED <<dinode, ftable, pipes, proc, kmem>>

\* mkdir() and mknod() unlock and put what create() made.
Made(p) == LET c == call[p] IN
  /\ At(p, "made")
  /\ itable' = Unlocked(itable, c.ip)
  /\ call' = [call EXCEPT ![p] = Putting([c EXCEPT !.ip = 0], <<c.ip>>, "ok")]
  /\ UNCHANGED <<dinode, ftable, pipes, proc, kmem>>

\* filealloc() and fdalloc() take the first that is free.
FreeFiles == {f \in Files : ftable[f].ref = 0}
FreeFds(p) == {fd \in Fds : proc[p].fds[fd] = 0}

\* The rest of open(), with the inode locked by create() or to be locked.
Opened(p) ==
  LET c == call[p]
      op == Op(p)
      table == Loaded(itable, c.ip)
      fails == (~op.create /\ table[c.ip].type = "dir" /\ (op.mode # "read" \/ op.trunc)) \/ FreeFiles = {} \/ FreeFds(p) = {}
  IN /\ At(p, "opened") /\ (Lockable(c.ip) \/ itable[c.ip].lock = p)
     /\ itable' = Unlocked(table, c.ip)
     /\ IF fails
          THEN /\ call' = [call EXCEPT ![p] = Putting([c EXCEPT !.ip = 0], <<c.ip>>, "fail")]
               /\ UNCHANGED <<dinode, ftable, proc>>
          ELSE /\ ftable' = [ftable EXCEPT ![Min(FreeFiles)] =
                    [Closed EXCEPT !.ref = 1, !.type = IF table[c.ip].type = "device" THEN "device" ELSE "inode", !.ip = c.ip,
                                   !.readable = op.mode # "write", !.writable = op.mode # "read"]]
               /\ proc' = [proc EXCEPT ![p].fds[Min(FreeFds(p))] = Min(FreeFiles)]
               /\ dinode' = IF op.trunc /\ table[c.ip].type = "file" THEN [dinode EXCEPT ![table[c.ip].inum].data = <<>>, ![table[c.ip].inum].spare = 0]
                            ELSE dinode
               /\ call' = [call EXCEPT ![p].pc = "ok", ![p].ip = 0]
     /\ UNCHANGED <<pipes, kmem>>

-----------------------------------------------------------------------------
(* link(), unlink(), chdir() *)

Link(p) ==
  /\ Calls(p, "link")
  /\ IF ArgStr(p, Op(p).old) /\ ArgStr(p, Op(p).path) THEN Walk(p, Op(p).old, FALSE, FALSE, "link", "fail")
     ELSE Rejected(p)

\* The old inode gets one more link before the new name's directory is looked for.
LinkOld(p) == LET c == call[p] IN
  /\ At(p, "link") /\ Lockable(c.ip)
  /\ LET table == Loaded(itable, c.ip) IN
       IF table[c.ip].type = "dir"
         THEN /\ itable' = table
              /\ call' = [call EXCEPT ![p] = Putting([c EXCEPT !.ip = 0], <<c.ip>>, "fail")]
              /\ UNCHANGED dinode
         ELSE /\ itable' = Linked(table, c.ip, table[c.ip].nlink + 1)
              /\ dinode' = LinkedOnDisk(dinode, c.ip, table[c.ip].nlink + 1)
              /\ Goto(p, "linknew")
  /\ UNCHANGED <<ftable, pipes, proc, kmem>>

LinkNew(p) == At(p, "linknew") /\ Walk(p, Op(p).path, Op(p).abs, TRUE, "dirlink", "unlinkold")

\* dirlink() into the new name's directory, unless it has the name; there is room (see Created).
Dirlink(p) == LET c == call[p] IN
  /\ At(p, "dirlink") /\ Lockable(c.dp)
  /\ itable' = Loaded(itable, c.dp)
  /\ IF HasName(c.dp, c.name)
       THEN call' = [call EXCEPT ![p] = PutDir(c, "unlinkold")] /\ UNCHANGED dinode
       ELSE /\ dinode' = WithName(dinode, c.dp, c.name, itable[c.ip].inum)
            /\ call' = [call EXCEPT ![p] = Putting([c EXCEPT !.dp = 0, !.ip = 0], <<c.dp, c.ip>>, "ok")]
  /\ UNCHANGED <<ftable, pipes, proc, kmem>>

\* The failed call takes the link back.
UnlinkOld(p) == LET c == call[p] IN
  /\ At(p, "unlinkold") /\ Lockable(c.ip)
  /\ itable' = Linked(itable, c.ip, itable[c.ip].nlink - 1)
  /\ dinode' = LinkedOnDisk(dinode, c.ip, itable[c.ip].nlink - 1)
  /\ call' = [call EXCEPT ![p] = Putting([c EXCEPT !.ip = 0], <<c.ip>>, "fail")]
  /\ UNCHANGED <<ftable, pipes, proc, kmem>>

Unlink(p) ==
  /\ Calls(p, "unlink")
  /\ IF ArgStr(p, Op(p).path) THEN Walk(p, Op(p).path, Op(p).abs, TRUE, "unlink", "fail") ELSE Rejected(p)

\* In the directory, which stays locked while the inode's lock is waited for.
UnlinkName(p) ==
  LET c == call[p]
      table == Loaded(itable, c.dp)
  IN /\ At(p, "unlink") /\ Lockable(c.dp)
     /\ IF c.name \in {".", ".."} \/ ~HasName(c.dp, c.name)
          THEN itable' = table /\ call' = [call EXCEPT ![p] = PutDir(c, "fail")]
          ELSE /\ itable' = Iget(Locked(c.dp, p), Dirlookup(c.dp, c.name))
               /\ call' = [call EXCEPT ![p].pc = "unlinkinode", ![p].ip = EntryFor(table, Dirlookup(c.dp, c.name))]
     /\ UNCHANGED <<dinode, ftable, pipes, proc, kmem>>

\* A directory must be empty.  The entry goes; then the directory is unlocked and put.
UnlinkInode(p) ==
  LET c == call[p]
      table == Locked(c.ip, p)
      isdir == table[c.ip].type = "dir"
      parent == itable[c.dp].inum
  IN /\ At(p, "unlinkinode") /\ Lockable(c.ip)
     /\ IF isdir /\ ~IsDirEmpty(OnDisk(c.ip).dir)
          THEN /\ itable' = Loaded(itable, c.ip)
               /\ call' = [call EXCEPT ![p] = Putting([c EXCEPT !.ip = 0], <<c.ip>>, "unlockdir")]
               /\ UNCHANGED dinode
          ELSE /\ itable' = Unlocked(IF isdir THEN Linked(table, c.dp, table[c.dp].nlink - 1) ELSE table, c.dp)
               /\ dinode' = [dinode EXCEPT ![parent].dir = [n \in DOMAIN @ \ {c.name} |-> @[n]],
                                           ![parent].nlink = IF isdir THEN @ - 1 ELSE @]
               /\ call' = [call EXCEPT ![p] = PutDir(c, "unlinked")]
     /\ UNCHANGED <<ftable, pipes, proc, kmem>>

\* Then the inode loses its link.
Unlinked(p) == LET c == call[p] IN
  /\ At(p, "unlinked")
  /\ itable' = Unlocked(Linked(itable, c.ip, itable[c.ip].nlink - 1), c.ip)
  /\ dinode' = LinkedOnDisk(dinode, c.ip, itable[c.ip].nlink - 1)
  /\ call' = [call EXCEPT ![p] = Putting([c EXCEPT !.ip = 0], <<c.ip>>, "ok")]
  /\ UNCHANGED <<ftable, pipes, proc, kmem>>

Chdir(p) ==
  /\ Calls(p, "chdir")
  /\ IF ArgStr(p, Op(p).path) THEN Walk(p, Op(p).path, Op(p).abs, FALSE, "chdir", "fail") ELSE Rejected(p)

Chdired(p) == LET c == call[p] IN
  /\ At(p, "chdir") /\ Lockable(c.ip)
  /\ itable' = Loaded(itable, c.ip)
  /\ IF itable'[c.ip].type = "dir"
       THEN /\ proc' = [proc EXCEPT ![p].cwd = c.ip]
            /\ call' = [call EXCEPT ![p] = Putting([c EXCEPT !.ip = 0], <<proc[p].cwd>>, "ok")]
       ELSE /\ call' = [call EXCEPT ![p] = Putting([c EXCEPT !.ip = 0], <<c.ip>>, "fail")]
            /\ UNCHANGED proc
  /\ UNCHANGED <<dinode, ftable, pipes, kmem>>

-----------------------------------------------------------------------------
(* dup(), pipe() *)

\* Where a call that closes files goes on.
NextToClose(c, files) == IF files = <<>> THEN c.closed ELSE "fileclose"

\* fileclose(): the reference goes, and with the last the inode's or the end of the pipe.
FileClose(p) ==
  LET c == call[p]
      f == Head(c.files)
      next == NextToClose(c, Tail(c.files))
      rest == [c EXCEPT !.files = Tail(@)]
  IN /\ At(p, "fileclose")
     /\ \/ /\ ftable[f].ref > 1
           /\ ftable' = [ftable EXCEPT ![f].ref = @ - 1]
           /\ call' = [call EXCEPT ![p] = [rest EXCEPT !.pc = next]]
        \/ /\ ftable[f].ref = 1
           /\ ftable' = [ftable EXCEPT ![f] = Closed]
           /\ call' = [call EXCEPT ![p] =
                CASE ftable[f].type \in {"inode", "device"} -> Putting(rest, <<ftable[f].ip>>, next)
                  [] ftable[f].type = "pipe" -> [rest EXCEPT !.pc = "pipeclose", !.pipe = ftable[f].pipe,
                                                             !.writable = ftable[f].writable]
                  [] OTHER -> [rest EXCEPT !.pc = next]]
     /\ UNCHANGED <<dinode, itable, pipes, proc, kmem>>

\* Processes that sleep on a channel run again.
Woken(procs, chan) == [q \in Procs |-> IF procs[q].chan = chan THEN [procs[q] EXCEPT !.chan = NULL] ELSE procs[q]]

ReadChan(pi) == <<pi, "nread">>
WriteChan(pi) == <<pi, "nwrite">>
WaitChan(p) == <<p, "wait">>

\* pipeclose(): those who wait at the other end are woken; with the last end goes the page.
PipeClose(p) == LET c == call[p] IN
  /\ At(p, "pipeclose") /\ pipes[c.pipe].lock = NULL
  /\ pipes' = [pipes EXCEPT ![c.pipe] = CloseEnd(@, c.writable)]
  /\ proc' = Woken(proc, IF c.writable THEN ReadChan(c.pipe) ELSE WriteChan(c.pipe))
  /\ call' = [call EXCEPT ![p].pc = NextToClose(c, c.files), ![p].pipe = 0]
  /\ kmem' = IF IsFreed(pipes'[c.pipe]) THEN kmem + 1 ELSE kmem
  /\ UNCHANGED <<dinode, itable, ftable>>

Close(p) == LET f == proc[p].fds[Op(p).fd] IN
  /\ Calls(p, "close")
  /\ IF f = 0 THEN Goto(p, "fail") /\ UNCHANGED proc
     ELSE /\ proc' = [proc EXCEPT ![p].fds[Op(p).fd] = 0]
          /\ call' = [call EXCEPT ![p] = Closing(@, <<f>>, "ok")]
  /\ UNCHANGED <<dinode, itable, ftable, pipes, kmem>>

Dup(p) == LET f == proc[p].fds[Op(p).fd] IN
  /\ Calls(p, "dup")
  /\ IF f = 0 \/ FreeFds(p) = {} THEN Goto(p, "fail") /\ UNCHANGED <<ftable, proc>>
     ELSE /\ proc' = [proc EXCEPT ![p].fds[Min(FreeFds(p))] = f]
          /\ ftable' = [ftable EXCEPT ![f].ref = @ + 1]
          /\ Goto(p, "ok")
  /\ UNCHANGED <<dinode, itable, pipes, kmem>>

\* pipealloc(): a file for either end ...
Pipe(p) ==
  /\ Calls(p, "pipe")
  /\ IF FreeFiles = {} THEN Goto(p, "fail") /\ UNCHANGED ftable
     ELSE /\ ftable' = [ftable EXCEPT ![Min(FreeFiles)].ref = 1]
          /\ call' = [call EXCEPT ![p].pc = "pipe", ![p].files = <<Min(FreeFiles)>>]
  /\ UNCHANGED <<dinode, itable, pipes, proc, kmem>>

FreePipes == {pi \in Pipes : IsFreed(pipes[pi])}
PipeEnd(pi, writable) ==
  [Closed EXCEPT !.ref = 1, !.type = "pipe", !.pipe = pi, !.readable = ~writable, !.writable = writable]

\* ... and a page; then sys_pipe() takes two descriptors, the lowest, and copies them
\* to the process, or closes both files.
PipeAlloc(p) ==
  LET c == call[p]
      rf == c.files[1]
      wf == Min(FreeFiles)
      pi == Min(FreePipes)
      fd0 == Min(FreeFds(p))
      fd1 == Min(FreeFds(p) \ {fd0})
  IN /\ At(p, "pipe")
     /\ \/ /\ FreeFiles = {}
           /\ call' = [call EXCEPT ![p] = Closing(@, <<rf>>, "fail")]
           /\ UNCHANGED <<ftable, pipes, proc, kmem>>
        \/ /\ FreeFiles # {} /\ kmem = 0
           /\ ftable' = [ftable EXCEPT ![wf].ref = 1]
           /\ call' = [call EXCEPT ![p] = Closing(@, <<rf, wf>>, "fail")]
           /\ UNCHANGED <<pipes, proc, kmem>>
        \/ /\ FreeFiles # {} /\ kmem > 0
           /\ kmem' = kmem - 1
           /\ ftable' = [ftable EXCEPT ![rf] = PipeEnd(pi, FALSE), ![wf] = PipeEnd(pi, TRUE)]
           /\ pipes' = [pipes EXCEPT ![pi] = NewPipe]
           /\ IF Cardinality(FreeFds(p)) < 2 \/ ~CanCopy(proc[p].space, Op(p).addr, 2)
                THEN call' = [call EXCEPT ![p] = Closing(@, <<rf, wf>>, "fail")] /\ UNCHANGED proc
                ELSE /\ proc' = [proc EXCEPT ![p].fds = [@ EXCEPT ![fd0] = rf, ![fd1] = wf]]
                     /\ call' = [call EXCEPT ![p].pc = "ok", ![p].files = <<>>]
     /\ UNCHANGED <<dinode, itable>>

-----------------------------------------------------------------------------
(* read(), write() *)

\* A call on a file begins: the descriptor must be open for it.  The console, the only
\* device, answers at once.
OnFile(p, mode, onpipe, oninode, console) ==
  LET f == proc[p].fds[Op(p).fd] IN
    call' = [call EXCEPT ![p] =
      IF f = 0 \/ ~ftable[f][mode] THEN [@ EXCEPT !.pc = "fail"]
      ELSE CASE ftable[f].type = "pipe"   -> [@ EXCEPT !.pc = onpipe, !.file = f, !.pipe = ftable[f].pipe]
             [] ftable[f].type = "device" -> Returning(@, console)
             [] OTHER                     -> [@ EXCEPT !.pc = oninode, !.file = f, !.pipe = 0]]

\* What is typed at the console is not modelled: consoleread() finds the end of its input.
Read(p) ==
  /\ Calls(p, "read") \/ Calls(p, "readall") \/ Calls(p, "copy")
  /\ OnFile(p, "readable", "piperead", "readi", <<>>)
  /\ UNCHANGED <<dinode, itable, ftable, pipes, proc, kmem>>

\* consolewrite() takes what can be copied from the process.
Write(p) == LET op == Op(p) IN
  /\ Calls(p, "write")
  /\ LET r == Copied(proc[p].space, op.addr, Len(op.data)) IN
       OnFile(p, "writable", "pipewrite", "writei", IF r = Len(op.data) THEN Ok ELSE Short(r))
  /\ UNCHANGED <<dinode, itable, ftable, pipes, proc, kmem>>

\* fstat(): of an inode, with its lock.
Fstat(p) == LET f == proc[p].fds[Op(p).fd] IN
  /\ Calls(p, "fstat")
  /\ call' = [call EXCEPT ![p] = IF f = 0 \/ ftable[f].type = "pipe" THEN [@ EXCEPT !.pc = "fail"]
                                 ELSE [@ EXCEPT !.pc = "stati", !.file = f]]
  /\ UNCHANGED <<dinode, itable, ftable, pipes, proc, kmem>>

FileStat(p) ==
  LET ip == ftable[call[p].file].ip
      table == Loaded(itable, ip)
  IN /\ At(p, "stati") /\ Lockable(ip)
     /\ itable' = table
     /\ call' = [call EXCEPT ![p] =
          IF CanCopy(proc[p].space, Op(p).addr, 1)
            THEN Returning(@, Stat(table[ip].type, table[ip].nlink, Len(OnDisk(ip).data)))
            ELSE [@ EXCEPT !.pc = "fail"]]
     /\ UNCHANGED <<dinode, ftable, pipes, proc, kmem>>

\* readi(): nothing beyond the end of the file.
Readable(data, off, n) == SubSeq(data, off + 1, Min({off + n, Len(data)}))

\* fileread() of an inode.  It fails, and leaves the offset, if the data cannot all be copied to
\* the process.
FileRead(p) ==
  LET c == call[p]
      f == ftable[c.file]
      data == Readable(OnDisk(f.ip).data, f.off, Op(p).n)
  IN /\ At(p, "readi") /\ Lockable(f.ip)
     /\ itable' = Loaded(itable, f.ip)
     /\ IF ~CanCopy(proc[p].space, Op(p).addr, Len(data)) THEN Goto(p, "fail") /\ UNCHANGED ftable
        ELSE /\ ftable' = [ftable EXCEPT ![c.file].off = @ + Len(data)]
             /\ call' = [call EXCEPT ![p] = Returning(@, data)]
     /\ UNCHANGED <<dinode, pipes, proc, kmem>>

\* A file with data from an offset on.
Overwritten(old, off, new) ==
  SubSeq(old, 1, off) \o new \o SubSeq(old, off + Len(new) + 1, Len(old))

\* (mutant of Room: balloc() takes a block although none is free)
RoomAnyway(inode, off) == MAXFILE - off

\* How much can be written at an offset: bmap() takes free blocks beyond the last.
Room(inode, off) == BlocksOf(inode) - off + FreeBlocks

\* One round of filewrite() on an inode.  writei() fails if the offset is beyond the
\* end of the file, or the end beyond what a file can have; it stops where no block is
\* left, and where data cannot be copied from the process: then a block that bmap()
\* has taken for it stays with the inode, beyond its size.
FileWrite(p) ==
  LET c == call[p]
      f == ftable[c.file]
      inode == OnDisk(f.ip)
      old == inode.data
      n1 == Min({MaxWrite, Len(Op(p).data) - c.done})
      copied == Copied(proc[p].space, Op(p).addr + c.done, n1)
      reached == Min({n1, copied + 1, Room(inode, f.off)})
      r == Min({copied, reached})
      new == Overwritten(old, f.off, SubSeq(Op(p).data, c.done + 1, c.done + r))
  IN /\ At(p, "writei") /\ Lockable(f.ip)
     /\ itable' = Loaded(itable, f.ip)
     /\ IF f.off > Len(old) \/ f.off + n1 > MAXFILE
          THEN call' = [call EXCEPT ![p].pc = "fail"] /\ UNCHANGED <<dinode, ftable>>
          ELSE /\ dinode' = [dinode EXCEPT ![itable[f.ip].inum].data = new,
                              ![itable[f.ip].inum].spare = Max({BlocksOf(inode), f.off + reached}) - Len(new)]
               /\ ftable' = [ftable EXCEPT ![c.file].off = @ + r]
               /\ call' = [call EXCEPT ![p].done = @ + r,
                                       ![p].pc = IF r # n1 THEN "fail"
                                                 ELSE IF c.done + r < Len(Op(p).data) THEN @ ELSE "ok"]
     /\ UNCHANGED <<pipes, proc, kmem>>

\* (mutant of PipeRead: the writers are not woken)
PipeReadSilently(p) ==
  LET c == call[p]
      pi == pipes[c.pipe]
      n == Available(pi, Op(p).n)
      copied == Copied(proc[p].space, Op(p).addr, n)
  IN /\ At(p, "piperead") /\ pi.lock = NULL
     /\ IF IsEmpty(pi) /\ pi.writeopen
          THEN /\ UNCHANGED pipes
               /\ IF proc[p].killed THEN Goto(p, "fail") /\ UNCHANGED proc
                  ELSE proc' = [proc EXCEPT ![p].chan = ReadChan(c.pipe)] /\ UNCHANGED call
          ELSE /\ pipes' = [pipes EXCEPT ![c.pipe] = DropBytes(@, Min({n, copied + 1}))]
               /\ UNCHANGED proc
               /\ call' = [call EXCEPT ![p] = Returning(@, FirstBytes(pi, copied))]
     /\ UNCHANGED <<dinode, itable, ftable, kmem>>

\* piperead(): waits while the pipe is empty and has a writer, then takes what there is,
\* up to a byte that cannot be copied to the process, which is lost.
PipeRead(p) ==
  LET c == call[p]
      pi == pipes[c.pipe]
      n == Available(pi, Op(p).n)
      copied == Copied(proc[p].space, Op(p).addr, n)
  IN /\ At(p, "piperead") /\ pi.lock = NULL
     /\ IF IsEmpty(pi) /\ pi.writeopen
          THEN /\ UNCHANGED pipes
               /\ IF proc[p].killed THEN Goto(p, "fail") /\ UNCHANGED proc
                  ELSE proc' = [proc EXCEPT ![p].chan = ReadChan(c.pipe)] /\ UNCHANGED call
          ELSE /\ pipes' = [pipes EXCEPT ![c.pipe] = DropBytes(@, Min({n, copied + 1}))]
               /\ proc' = Woken(proc, WriteChan(c.pipe))
               /\ call' = [call EXCEPT ![p] = Returning(@, FirstBytes(pi, copied))]
     /\ UNCHANGED <<dinode, itable, ftable, kmem>>

\* pipewrite(): a turn of its loop, with the lock it takes before the first, and
\* keeps except while it sleeps on a full pipe.  It returns at once if nobody can read,
\* and stops at a byte that cannot be copied from the process.
PipeWrite(p) ==
  LET c == call[p]
      pi == pipes[c.pipe]
      data == Op(p).data
      Unlock(q) == [q EXCEPT !.lock = NULL]
  IN /\ At(p, "pipewrite") /\ pi.lock \in {NULL, p}
     /\ \/ /\ c.done = Len(data)
           /\ pipes' = [pipes EXCEPT ![c.pipe] = Unlock(@)]
           /\ proc' = Woken(proc, ReadChan(c.pipe))
           /\ Goto(p, "ok")
        \/ /\ c.done < Len(data) /\ (~pi.readopen \/ proc[p].killed)
           /\ pipes' = [pipes EXCEPT ![c.pipe] = Unlock(@)]
           /\ Goto(p, "fail")
           /\ UNCHANGED proc
        \/ /\ c.done < Len(data) /\ pi.readopen /\ ~proc[p].killed /\ IsFull(pi)
           /\ pipes' = [pipes EXCEPT ![c.pipe] = Unlock(@)]
           /\ proc' = [Woken(proc, ReadChan(c.pipe)) EXCEPT ![p].chan = WriteChan(c.pipe)]
           /\ UNCHANGED call
        \/ /\ c.done < Len(data) /\ pi.readopen /\ ~proc[p].killed /\ ~IsFull(pi)
           /\ ~CanCopy(proc[p].space, Op(p).addr + c.done, 1)
           /\ pipes' = [pipes EXCEPT ![c.pipe] = Unlock(@)]
           /\ proc' = Woken(proc, ReadChan(c.pipe))
           /\ call' = [call EXCEPT ![p] = Returning(@, Short(c.done))]
        \/ /\ c.done < Len(data) /\ pi.readopen /\ ~proc[p].killed /\ ~IsFull(pi)
           /\ CanCopy(proc[p].space, Op(p).addr + c.done, 1)
           /\ pipes' = [pipes EXCEPT ![c.pipe] = [PutByte(@, data[c.done + 1]) EXCEPT !.lock = p]]
           /\ call' = [call EXCEPT ![p].done = @ + 1]
           /\ UNCHANGED proc
     /\ UNCHANGED <<dinode, itable, ftable, kmem>>

-----------------------------------------------------------------------------
(* fork(), exit(), wait(), kill() (Proc has their locks) *)

Unused == {q \in Procs : proc[q].state = "unused"}

\* The child has the parent's files and directory, and a copy of its memory.
Fork(p) ==
  LET child == Min(Unused)
      space == [Mapped(NoSpace, proc[p].space.pages) EXCEPT !.sz = proc[p].space.sz, !.stack = proc[p].space.stack]
      copies(f) == Cardinality({fd \in Fds : proc[p].fds[fd] = f})
  IN /\ Calls(p, "fork")
     /\ \/ /\ Unused = {}
           /\ Goto(p, "fail")
           /\ UNCHANGED <<itable, ftable, proc, kmem>>
        \/ /\ Unused # {} /\ kmem < 1 + PagesOf(space)
           /\ proc' = [proc EXCEPT ![child].state = "used"]
           /\ call' = [call EXCEPT ![p].pc = "forkbad", ![p].child = child, ![p].pages = kmem]
           /\ kmem' = 0
           /\ UNCHANGED <<itable, ftable>>
        \/ /\ Unused # {} /\ kmem >= 1 + PagesOf(space)
           /\ ftable' = [f \in Files |-> [ftable[f] EXCEPT !.ref = @ + copies(f)]]
           /\ itable' = Idup(itable, proc[p].cwd)
           /\ proc' = [proc EXCEPT ![child] = Process(p, Op(p).child, proc[p].fds, proc[p].cwd, space)]
           /\ kmem' = kmem - 1 - PagesOf(space)
           /\ Goto(p, "ok")
     /\ UNCHANGED <<dinode, pipes>>

\* freeproc(), when memory has run out.
ForkBad(p) == LET c == call[p] IN
  /\ At(p, "forkbad")
  /\ proc' = [proc EXCEPT ![c.child] = NoProcess]
  /\ kmem' = kmem + c.pages
  /\ call' = [call EXCEPT ![p].pc = "fail", ![p].pages = 0, ![p].child = 0]
  /\ UNCHANGED <<dinode, itable, ftable, pipes>>

\* usertrap(): a process whose text or stack is gone, or that touches memory it may not, is killed.
PageFault(p) ==
  /\ At(p, "user") /\ ~proc[p].killed /\ ~Executes(p)
  /\ proc' = [proc EXCEPT ![p].killed = TRUE]
  /\ UNCHANGED <<dinode, itable, ftable, pipes, call, kmem>>

Touch(p) ==
  /\ Calls(p, "touch")
  /\ proc' = IF CanTouch(proc[p].space, Op(p).addr, Op(p).store) THEN [proc EXCEPT ![p].program = Tail(@)]
             ELSE [proc EXCEPT ![p].killed = TRUE]
  /\ UNCHANGED <<dinode, itable, ftable, pipes, call, kmem>>

\* exit(), by the program, at its end, or in usertrap() by a process that was
\* killed: each file is closed, the directory put,
Exit(p) ==
  /\ At(p, "user")
  /\ proc[p].killed \/ (Executes(p) /\ (proc[p].program # <<>> => Op(p).call = "exit"))
  /\ proc' = [proc EXCEPT ![p].xstate = IF proc[p].killed THEN -1
                                        ELSE IF proc[p].program = <<>> THEN 0 ELSE Op(p).status]
  /\ Goto(p, "exit")
  /\ UNCHANGED <<dinode, itable, ftable, pipes, kmem>>

ExitClose(p) ==
  LET open == {fd \in Fds : proc[p].fds[fd] # 0} IN
  /\ At(p, "exit")
  /\ IF open # {}
       THEN /\ proc' = [proc EXCEPT ![p].fds[Min(open)] = 0]
            /\ call' = [call EXCEPT ![p] = Closing(@, <<proc[p].fds[Min(open)]>>, "exit")]
       ELSE /\ proc' = [proc EXCEPT ![p].cwd = 0]
            /\ call' = [call EXCEPT ![p] = Putting(@, <<proc[p].cwd>>, "zombie")]
  /\ UNCHANGED <<dinode, itable, ftable, pipes, kmem>>

\* and its children given to init, which reaps them; the parent is woken.
Zombie(p) ==
  LET gone == [proc EXCEPT ![p].state = "zombie", ![p].program = <<>>] IN
  /\ At(p, "zombie")
  /\ proc' = Woken([q \in Procs |-> IF gone[q].parent = p THEN [gone[q] EXCEPT !.parent = Nobody] ELSE gone[q]],
                   WaitChan(proc[p].parent))
  /\ call' = [call EXCEPT ![p] = NoCall]
  /\ UNCHANGED <<dinode, itable, ftable, pipes, kmem>>

InitReaps(p) ==
  /\ proc[p].state = "zombie" /\ proc[p].parent = Nobody
  /\ proc' = [proc EXCEPT ![p] = NoProcess]
  /\ kmem' = kmem + PagesOfProcess(p)
  /\ UNCHANGED <<dinode, itable, ftable, pipes, call>>

\* A zombie is freed with its memory, unless its status cannot be copied to the parent.
Wait(p) ==
  LET children == {q \in Procs : proc[q].parent = p /\ proc[q].state # "unused"}
      zombies == {q \in children : proc[q].state = "zombie"}
      q == Min(zombies)
  IN /\ Calls(p, "wait") \/ At(p, "wait")
     /\ \/ /\ zombies # {} /\ CanCopy(proc[p].space, Op(p).addr, 1)
           /\ proc' = [proc EXCEPT ![q] = NoProcess]
           /\ kmem' = kmem + PagesOfProcess(q)
           /\ call' = [call EXCEPT ![p] = Returning(@, Reaped(q, proc[q].xstate))]
        \/ /\ IF zombies = {} THEN children = {} \/ proc[p].killed ELSE ~CanCopy(proc[p].space, Op(p).addr, 1)
           /\ Goto(p, "fail")
           /\ UNCHANGED <<proc, kmem>>
        \/ /\ zombies = {} /\ children # {} /\ ~proc[p].killed
           /\ proc' = [proc EXCEPT ![p].chan = WaitChan(p)]
           /\ Goto(p, "wait")
           /\ UNCHANGED kmem
     /\ UNCHANGED <<dinode, itable, ftable, pipes>>

\* A sleeping process is woken up, and sees that it was killed.
Kill(p) == LET q == Op(p).pid IN
  /\ Calls(p, "kill")
  /\ IF proc[q].state = "unused" THEN Goto(p, "fail") /\ UNCHANGED proc
     ELSE proc' = [proc EXCEPT ![q].killed = TRUE, ![q].chan = NULL] /\ Goto(p, "ok")
  /\ UNCHANGED <<dinode, itable, ftable, pipes, kmem>>

-----------------------------------------------------------------------------
(* sbrk(), exec() *)

\* growproc(): by whole pages.  A size below zero is one that has wrapped around: more
\* than the process has, so that nothing is given back.
Sbrk(p) ==
  LET space == proc[p].space
      sz == space.sz + Op(p).n
      pages == PageRoundUp(sz)
      reached == Mapped(space, Reached(space, pages, kmem))
      kept == reached.tables - space.tables
      resized == IF Op(p).n > 0 THEN Mapped(space, pages) ELSE Unmapped(space, pages)
  IN /\ Calls(p, "sbrk")
     /\ \/ /\ sz < 0
           /\ call' = [call EXCEPT ![p] = Returning(@, Address(space.sz))]
           /\ UNCHANGED <<proc, kmem>>
        \/ /\ Op(p).n > 0 /\ ~Grows(space, pages, kmem)
           /\ proc' = [proc EXCEPT ![p].space.tables = reached.tables]
           /\ call' = [call EXCEPT ![p].pc = "sbrkbad", ![p].pages = kmem - kept]
           /\ kmem' = 0
        \/ /\ sz >= 0 /\ (Op(p).n > 0 => Grows(space, pages, kmem))
           /\ proc' = [proc EXCEPT ![p].space = [resized EXCEPT !.sz = sz]]
           /\ call' = [call EXCEPT ![p] = Returning(@, Address(space.sz))]
           /\ kmem' = kmem + PagesOf(space) - PagesOf(resized)
     /\ UNCHANGED <<dinode, itable, ftable, pipes>>

\* The pages are given back, but the page-table pages are not.
SbrkBad(p) ==
  /\ At(p, "sbrkbad")
  /\ kmem' = kmem + call[p].pages
  /\ call' = [call EXCEPT ![p].pc = "fail", ![p].pages = 0]
  /\ UNCHANGED <<dinode, itable, ftable, pipes, proc>>

\* sys_exec(): a page for every argument, until one that is not in the process's memory
\* or does not end within a page.
Exec(p) ==
  LET args == Op(p).args
      bad == {i \in DOMAIN args : Len(args[i]) >= PGSIZE}
      n == IF bad = {} THEN Len(args) ELSE Min(bad)
      table == StartTable(p, FALSE)
      start == [call[p] EXCEPT !.dp = StartOf(p, FALSE), !.pages = n]
  IN /\ Calls(p, "exec")
     /\ \/ /\ ~ArgStr(p, Op(p).path)
           /\ Goto(p, "fail")
           /\ UNCHANGED <<itable, kmem>>
        \/ /\ ArgStr(p, Op(p).path) /\ (kmem < n \/ bad # {})
           /\ call' = [call EXCEPT ![p].pc = "execbad", ![p].pages = Min({n, kmem})]
           /\ kmem' = kmem - Min({n, kmem})
           /\ UNCHANGED itable
        \/ /\ ArgStr(p, Op(p).path) /\ kmem >= n /\ bad = {}
           /\ itable' = table
           /\ call' = [call EXCEPT ![p] = Walking(start, Op(p).path, FALSE, "exec", "execbad")]
           /\ kmem' = kmem - n
     /\ UNCHANGED <<dinode, ftable, pipes, proc>>

\* exec(): a page for each block of the file, with the inode locked; a file that is no
\* program's is not executed.
ExecLoad(p) ==
  LET c == call[p]
      data == OnDisk(c.ip).data
      n == Len(data) - 1
      isElf == data # <<>> /\ Head(data) \in Elf
      put == [c EXCEPT !.ip = 0]
      space == [Mapped(NoSpace, n) EXCEPT !.sz = n * PGSIZE]
  IN /\ At(p, "exec") /\ Lockable(c.ip)
     /\ \/ /\ ~isElf
           /\ itable' = Loaded(itable, c.ip)
           /\ call' = [call EXCEPT ![p] = Putting(put, <<c.ip>>, "execbad")]
           /\ UNCHANGED kmem
        \/ /\ isElf /\ kmem < PagesOf(space)
           /\ itable' = Locked(c.ip, p)
           /\ call' = [call EXCEPT ![p].pc = "execput", ![p].pages = @ + kmem]
           /\ kmem' = 0
        \/ /\ isElf /\ kmem >= PagesOf(space)
           /\ itable' = Loaded(itable, c.ip)
           /\ call' = [call EXCEPT ![p] = Putting([put EXCEPT !.space = space, !.name = Head(data)], <<c.ip>>, "execstack")]
           /\ kmem' = kmem - PagesOf(space)
     /\ UNCHANGED <<dinode, ftable, pipes, proc>>

\* Memory has run out: first the new address space goes, then the inode, last the arguments.
ExecPut(p) == LET c == call[p] IN
  /\ At(p, "execput")
  /\ kmem' = kmem + c.pages - Len(Op(p).args)
  /\ itable' = Unlocked(itable, c.ip)
  /\ call' = [call EXCEPT ![p] = Putting([c EXCEPT !.ip = 0, !.pages = Len(Op(p).args)], <<c.ip>>, "execbad")]
  /\ UNCHANGED <<dinode, ftable, pipes, proc>>

\* The guard page, and the stack with the arguments.  Then the process has the new
\* address space and the old one is freed; what is left of the old program is forgotten.
ExecStack(p) ==
  LET c == call[p]
      args == Op(p).args
      n == c.space.pages + 2
      space == [Mapped(c.space, n) EXCEPT !.sz = n * PGSIZE, !.stack = n - 1]
  IN /\ At(p, "execstack")
     /\ \/ /\ ~Grows(c.space, n, kmem)
           /\ call' = [call EXCEPT ![p].pc = "execbad", ![p].pages = @ + kmem]
           /\ kmem' = 0
           /\ UNCHANGED proc
        \/ /\ Grows(c.space, n, kmem) /\ ~ArgumentsFit(args)
           /\ call' = [call EXCEPT ![p].pc = "execbad", ![p].space = space]
           /\ kmem' = kmem - Growth(c.space, n)
           /\ UNCHANGED proc
        \/ /\ Grows(c.space, n, kmem) /\ ArgumentsFit(args)
           /\ proc' = [proc EXCEPT ![p].space = space, ![p].program = <<Op(p)>> \o Main(c.name, args)]
           /\ call' = [call EXCEPT ![p].pc = "execok", ![p].space = NoSpace]
           /\ kmem' = kmem - Growth(c.space, n) + PagesOf(proc[p].space)
     /\ UNCHANGED <<dinode, itable, ftable, pipes>>

\* What a call has taken that no process has.
PagesOfCall(c) == c.pages + (IF c.space = NoSpace THEN 0 ELSE PagesOf(c.space))

\* (mutant of ExecFree: only if the call succeeds)
ExecFreeAtEnd(p) ==
  /\ At(p, "execok") \/ At(p, "execbad")
  /\ kmem' = IF At(p, "execok") THEN kmem + PagesOfCall(call[p]) ELSE kmem
  /\ call' = [call EXCEPT ![p].pages = 0, ![p].space = NoSpace, ![p].pc = IF @ = "execok" THEN "ok" ELSE "fail"]
  /\ UNCHANGED <<dinode, itable, ftable, pipes, proc>>

\* The pages a call of exec() still has, the arguments' at least, are freed.
ExecFree(p) ==
  /\ At(p, "execok") \/ At(p, "execbad")
  /\ kmem' = kmem + PagesOfCall(call[p])
  /\ call' = [call EXCEPT ![p].pages = 0, ![p].space = NoSpace, ![p].pc = IF @ = "execok" THEN "ok" ELSE "fail"]
  /\ UNCHANGED <<dinode, itable, ftable, pipes, proc>>

-----------------------------------------------------------------------------
(* Programs *)

\* What a program does after a call: a call may be repeated, as readall() is until it has
\* read the whole file, and copy, which writes what it has read; or there may be
\* something else to do if it fails.
Rest(p, result) ==
  LET op == Op(p)
      rest == Tail(proc[p].program)
  IN CASE op.call = "readall" /\ result \notin {Ok, Failed} -> <<[op EXCEPT !.got = @ \o result]>> \o rest
       [] op.call = "copy" /\ result \notin {Ok, Failed}    -> <<[op.to EXCEPT !.data = result], op>> \o rest
       [] result = Failed /\ "orelse" \in DOMAIN op         -> op.orelse
       [] OTHER                                            -> rest

Returns(p) == At(p, "ok") \/ At(p, "fail")

\* A call returns, to a program that expects one of some results, or any; readall
\* expects all the data.
Return(p) ==
  LET c == call[p]
      op == Op(p)
      result == IF c.pc = "ok" THEN c.result ELSE Failed
      again == op.call = "readall" /\ result \notin {Ok, Failed}
      whole == IF op.call = "readall" /\ result # Failed THEN op.got \o result ELSE result
  IN /\ Returns(p)
     /\ call' = [call EXCEPT ![p] = NoCall]
     /\ proc' = [proc EXCEPT
          ![p].program = Rest(p, result),
          ![p].state = IF again \/ op.expect = {} \/ whole \in op.expect THEN @ ELSE "failed"]
     /\ UNCHANGED <<dinode, itable, ftable, pipes, kmem>>

\* In user mode: a call, an access to memory, the end.
UserStep(p) ==
  \/ Open(p) \/ Mkdir(p) \/ Link(p) \/ Unlink(p) \/ Chdir(p) \/ Close(p) \/ Dup(p) \/ Pipe(p)
  \/ Read(p) \/ Write(p) \/ Fstat(p) \/ Fork(p) \/ Exit(p) \/ Wait(p) \/ Kill(p) \/ Sbrk(p) \/ Exec(p)
  \/ Touch(p) \/ PageFault(p)

\* In a call.
FileStep(p) ==
  \/ Iput(p) \/ Itrunc(p) \/ Ifreed(p) \/ Irelse(p) \/ Namex(p) \/ IlockPanics(p)
  \/ Create(p) \/ Exists(p) \/ Created(p) \/ UnlockDir(p) \/ Made(p) \/ Opened(p)
  \/ LinkOld(p) \/ LinkNew(p) \/ Dirlink(p) \/ UnlinkOld(p)
  \/ UnlinkName(p) \/ UnlinkInode(p) \/ Unlinked(p) \/ Chdired(p)
  \/ FileClose(p) \/ PipeClose(p) \/ PipeAlloc(p)
  \/ FileRead(p) \/ FileWrite(p) \/ PipeRead(p) \/ PipeWrite(p) \/ FileStat(p)
ProcStep(p) == ForkBad(p) \/ ExitClose(p) \/ Zombie(p) \/ Wait(p)
MemStep(p) == SbrkBad(p) \/ ExecLoad(p) \/ ExecPut(p) \/ ExecStack(p) \/ ExecFree(p)

Step(p) == Runs(p) /\ IF call[p].pc = "user" THEN UserStep(p) ELSE FileStep(p) \/ ProcStep(p) \/ MemStep(p)

=============================================================================
