----------------------------- MODULE Usertests -----------------------------
(***************************************************************************)
(* User programs on the system calls: the tests of LAB2/user/usertests.c   *)
(* that are about files, pipes, processes and memory, and the random steps *)
(* of LAB2/user/grind.c.  A program is a sequence of calls; a call whose   *)
(* result a test checks has the results the test accepts, and a test that  *)
(* sees another one fails.  Loops are unrolled, a few times instead of     *)
(* many; sleep() is left out, because processes may interleave in any way. *)
(***************************************************************************)
EXTENDS Syscalls

CONSTANTS Programs   \* the programs of which process 1 runs one

-----------------------------------------------------------------------------
(* Calls *)

\* Strings and data are at address 0, and results go there, where every process has
\* memory, unless the test gives another address.
open(path, mode) ==
  [call |-> "open", path |-> path, abs |-> FALSE, mode |-> mode, create |-> FALSE, trunc |-> FALSE, addr |-> 0, expect |-> {}]
creat(path, mode) == [open(path, mode) EXCEPT !.create = TRUE]
Trunc(op) == [op EXCEPT !.trunc = TRUE]
Absolute(op) == [op EXCEPT !.abs = TRUE]
From(addr, op) == [op EXCEPT !.addr = addr]
mkdir(path) == [call |-> "mkdir", path |-> path, abs |-> FALSE, addr |-> 0, expect |-> {}]
mknod(path) == [call |-> "mknod", path |-> path, abs |-> FALSE, addr |-> 0, expect |-> {}]
chdir(path) == [call |-> "chdir", path |-> path, abs |-> FALSE, addr |-> 0, expect |-> {}]
unlink(path) == [call |-> "unlink", path |-> path, abs |-> FALSE, addr |-> 0, expect |-> {}]
link(old, path) == [call |-> "link", old |-> old, path |-> path, abs |-> FALSE, addr |-> 0, expect |-> {}]
write(fd, data) == [call |-> "write", fd |-> fd, data |-> data, addr |-> 0, expect |-> {}]
read(fd, n) == [call |-> "read", fd |-> fd, n |-> n, addr |-> 0, expect |-> {}]
readall(fd, n) == [call |-> "readall", fd |-> fd, n |-> n, got |-> <<>>, addr |-> 0, expect |-> {}]
fstat(fd) == [call |-> "fstat", fd |-> fd, addr |-> 0, expect |-> {}]
close(fd) == [call |-> "close", fd |-> fd, expect |-> {}]
dup(fd) == [call |-> "dup", fd |-> fd, expect |-> {}]
pipe == [call |-> "pipe", addr |-> 0, expect |-> {}]
fork(child) == [call |-> "fork", child |-> child, expect |-> {}]
exec(path, args) == [call |-> "exec", path |-> path, args |-> args, addr |-> 0, expect |-> {}]
exit(status) == [call |-> "exit", status |-> status]
wait == [call |-> "wait", addr |-> 0, expect |-> {}]
kill(pid) == [call |-> "kill", pid |-> pid, expect |-> {}]
sbrk(n) == [call |-> "sbrk", n |-> n, expect |-> {}]
load(addr) == [call |-> "touch", addr |-> addr, store |-> FALSE]
store(addr) == [call |-> "touch", addr |-> addr, store |-> TRUE]
Spin == [call |-> "spin"]

\* What a test expects.
Must(op) == [op EXCEPT !.expect = {Ok}]
MustFail(op) == [op EXCEPT !.expect = {Failed}]
Gives(op, result) == [op EXCEPT !.expect = {result}]
OneOf(op, results) == [op EXCEPT !.expect = results]

\* The exit status 0 of any child; and of a child.
Succeeds == OneOf(wait, {Reaped(q, 0) : q \in Procs})
Status(q, status) == Gives(wait, Reaped(q, status))

Times(n, program) == FlattenSeq([i \in 1..n |-> program])

\* The first process has a page of text, the guard page and its stack.  Where it ends, an
\* address that is nobody's, and strings that are too long.
Top == 3 * PGSIZE
FirstSpace == [Mapped(NoSpace, 3) EXCEPT !.sz = Top, !.stack = 2]
Nowhere == (NPAGES + 1) * PGSIZE
LongPath == [i \in 1..MAXPATH |-> "x"]
LongString == [i \in 1..PGSIZE |-> "x"]

\* echo.c: it writes its arguments to descriptor 1.
echo(args) ==
  FlattenSeq([i \in DOMAIN args |-> << write(1, args[i]), write(1, IF i < Len(args) THEN <<" ">> ELSE <<"\n">>) >>])
  \o << exit(0) >>

-----------------------------------------------------------------------------
(* Truncation *)

truncate1 == <<
  unlink(<<"truncfile">>), Trunc(creat(<<"truncfile">>, "write")), write(0, <<"a", "b">>), close(0),
  open(<<"truncfile">>, "read"), Gives(read(0, 4), <<"a", "b">>),
  Trunc(open(<<"truncfile">>, "write")),
  open(<<"truncfile">>, "read"), Gives(read(2, 4), <<>>), Gives(read(0, 4), <<>>),
  write(1, <<"c", "d", "e">>),
  Gives(read(2, 4), <<"c", "d", "e">>), Gives(read(0, 4), <<"e">>),
  unlink(<<"truncfile">>), close(1), close(0), close(2) >>

truncate2 == <<
  unlink(<<"truncfile">>), Trunc(creat(<<"truncfile">>, "write")), write(0, <<"a", "b">>),
  Trunc(open(<<"truncfile">>, "write")), MustFail(write(0, <<"x">>)),
  unlink(<<"truncfile">>), close(0), close(1) >>

\* A process truncates and writes while another writes and reads.
truncate3 == <<
  Trunc(creat(<<"truncfile">>, "write")), close(0),
  Must(fork(Times(1, <<
    Must(open(<<"truncfile">>, "write")), Must(write(0, <<"1">>)), close(0),
    open(<<"truncfile">>, "read"), read(0, 4), close(0) >>))) >>
  \o Times(2, <<
    Must(Trunc(creat(<<"truncfile">>, "write"))), Must(write(0, <<"x">>)), close(0) >>)
  \o << Succeeds, unlink(<<"truncfile">>) >>

-----------------------------------------------------------------------------
(* References to inodes *)

iputtest == <<
  Must(mkdir(<<"iputdir">>)), Must(chdir(<<"iputdir">>)), Must(unlink(<<"..", "iputdir">>)),
  Must(Absolute(chdir(<<>>))) >>

exitiputtest == <<
  Must(fork(<<
    Must(mkdir(<<"iputdir">>)), Must(chdir(<<"iputdir">>)), Must(unlink(<<"..", "iputdir">>)) >>)),
  Succeeds >>

\* The directory is removed while another process tries to open it.
openiputtest == <<
  Must(mkdir(<<"oidir">>)),
  Must(fork(<<MustFail(open(<<"oidir">>, "rdwr"))>>)),
  Must(unlink(<<"oidir">>)), Succeeds >>

\* Paths without elements; each level of directories is entered and left again.
iref ==
  Times(3, <<
    Must(mkdir(<<"irefd">>)), Must(chdir(<<"irefd">>)),
    mkdir(<<>>), link(<<"README">>, <<>>), creat(<<>>, "read"), close(0),
    creat(<<"xx">>, "read"), close(0), unlink(<<"xx">>) >>)
  \o Times(3, << chdir(<<"..">>), unlink(<<"irefd">>) >>)
  \o << Absolute(chdir(<<>>)) >>

-----------------------------------------------------------------------------
(* Files *)

opentest == << Must(open(<<"README">>, "read")), close(0), MustFail(open(<<"doesnotexist">>, "read")) >>

writetest ==
  << Must(creat(<<"small">>, "rdwr")), Must(write(0, <<"a">>)), Must(write(0, <<"b">>)), close(0),
     Must(open(<<"small">>, "read")), Gives(read(0, 2), <<"a", "b">>), close(0),
     Must(unlink(<<"small">>)) >>

\* A file as long as a file can be, and one block more.
writebig ==
  << Must(creat(<<"big">>, "rdwr")) >>
  \o [i \in 1..MAXFILE |-> Must(write(0, <<ToString(i)>>))]
  \o << MustFail(write(0, <<"x">>)), close(0),
        Must(open(<<"big">>, "read")), Gives(readall(0, 1), [i \in 1..MAXFILE |-> ToString(i)]),
        close(0), Must(unlink(<<"big">>)) >>

createtest ==
  FlattenSeq([i \in 1..3 |-> << creat(<<ToString(i)>>, "rdwr"), close(0) >>])
  \o [i \in 1..3 |-> unlink(<<ToString(i)>>)]

dirtest == <<
  Must(mkdir(<<"dir0">>)), Must(chdir(<<"dir0">>)), Must(chdir(<<"..">>)), Must(unlink(<<"dir0">>)) >>

unlinkread == <<
  Must(creat(<<"unlinkread">>, "rdwr")), write(0, <<"h", "o">>), close(0),
  Must(open(<<"unlinkread">>, "rdwr")), Must(unlink(<<"unlinkread">>)),
  creat(<<"unlinkread">>, "rdwr"), write(1, <<"y">>), close(1),
  Gives(read(0, 4), <<"h", "o">>), Must(write(0, <<"z">>)), close(0), unlink(<<"unlinkread">>) >>

linktest == <<
  unlink(<<"lf1">>), unlink(<<"lf2">>),
  Must(creat(<<"lf1">>, "rdwr")), Must(write(0, <<"h">>)), close(0),
  Must(link(<<"lf1">>, <<"lf2">>)), unlink(<<"lf1">>), MustFail(open(<<"lf1">>, "read")),
  Must(open(<<"lf2">>, "read")), Gives(read(0, 4), <<"h">>), close(0),
  MustFail(link(<<"lf2">>, <<"lf2">>)), unlink(<<"lf2">>),
  MustFail(link(<<"lf2">>, <<"lf1">>)), MustFail(link(<<".">>, <<"lf1">>)) >>

\* Writes that filewrite() makes in several transactions.
bigwrite ==
  FlattenSeq([k \in 1..2 |-> <<
    Must(creat(<<"bigwrite">>, "rdwr")) >> \o Times(2, << Must(write(0, [i \in 1..(k * MaxWrite) |-> "b"])) >>)
    \o << close(0), unlink(<<"bigwrite">>) >>])

bigfile == <<
  unlink(<<"bigfile.dat">>), Must(creat(<<"bigfile.dat">>, "rdwr")),
  Must(write(0, <<"1", "1">>)), Must(write(0, <<"2", "2">>)), close(0),
  Must(open(<<"bigfile.dat">>, "read")), Gives(readall(0, 1), <<"1", "1", "2", "2">>), close(0),
  unlink(<<"bigfile.dat">>) >>

\* Until no block is left, then a file, which needs none, and a directory, which does.
BigFiles == 3
diskfull ==
  FlattenSeq([i \in 1..BigFiles |-> << unlink(<<"big">>), creat(<<ToString(i)>>, "rdwr") >>
                                  \o Times(MAXFILE, <<write(0, <<"b">>)>>) \o << close(0) >>])
  \o << Trunc(creat(<<"zz">>, "rdwr")), close(0), MustFail(mkdir(<<"diskfulldir">>)),
        unlink(<<"diskfulldir">>), unlink(<<"zz">>) >>
  \o [i \in 1..BigFiles |-> unlink(<<ToString(i)>>)]

outofinodes ==
  FlattenSeq([i \in 1..Cardinality(Inums) |-> << unlink(<<ToString(i)>>), Trunc(creat(<<ToString(i)>>, "rdwr")), close(0) >>])
  \o << MustFail(creat(<<"zz">>, "rdwr")), MustFail(mkdir(<<"zz">>)) >>
  \o [i \in 1..Cardinality(Inums) |-> unlink(<<ToString(i)>>)]

-----------------------------------------------------------------------------
(* Directories *)

subdirEnd == <<
  MustFail(mkdir(<<"dd", "ff", "ff">>)), MustFail(mkdir(<<"dd", "xx", "ff">>)),
  MustFail(mkdir(<<"dd", "dd", "ffff">>)),
  MustFail(unlink(<<"dd", "xx", "ff">>)), MustFail(unlink(<<"dd", "ff", "ff">>)),
  MustFail(chdir(<<"dd", "ff">>)), MustFail(chdir(<<"dd", "xx">>)),
  Must(unlink(<<"dd", "dd", "ffff">>)), Must(unlink(<<"dd", "ff">>)), MustFail(unlink(<<"dd">>)),
  Must(unlink(<<"dd", "dd">>)), Must(unlink(<<"dd">>)) >>

subdir == <<
  unlink(<<"ff">>), Must(mkdir(<<"dd">>)),
  Must(creat(<<"dd", "ff">>, "rdwr")), write(0, <<"f">>), close(0),
  MustFail(unlink(<<"dd">>)), Must(Absolute(mkdir(<<"dd", "dd">>))),
  Must(creat(<<"dd", "dd", "ff">>, "rdwr")), write(0, <<"F">>), close(0),
  Must(open(<<"dd", "dd", "..", "ff">>, "read")), Gives(read(0, 4), <<"f">>), close(0),
  Must(link(<<"dd", "dd", "ff">>, <<"dd", "dd", "ffff">>)), Must(unlink(<<"dd", "dd", "ff">>)),
  MustFail(open(<<"dd", "dd", "ff">>, "read")),
  Must(chdir(<<"dd">>)), Must(chdir(<<"dd", "..", "..", "dd">>)),
  Must(chdir(<<"dd", "..", "..", "..", "dd">>)), Must(chdir(<<".", "..">>)),
  Must(open(<<"dd", "dd", "ffff">>, "read")), Gives(read(0, 4), <<"F">>), close(0),
  MustFail(open(<<"dd", "dd", "ff">>, "read")),
  MustFail(creat(<<"dd", "ff", "ff">>, "rdwr")), MustFail(creat(<<"dd", "xx", "ff">>, "rdwr")),
  MustFail(creat(<<"dd">>, "read")), MustFail(open(<<"dd">>, "rdwr")), MustFail(open(<<"dd">>, "write")),
  MustFail(link(<<"dd", "ff", "ff">>, <<"dd", "dd", "xx">>)),
  MustFail(link(<<"dd", "xx", "ff">>, <<"dd", "dd", "xx">>)),
  MustFail(link(<<"dd", "ff">>, <<"dd", "dd", "ffff">>)) >>
  \o subdirEnd

rmdot == <<
  Must(mkdir(<<"dots">>)), Must(chdir(<<"dots">>)), MustFail(unlink(<<".">>)), MustFail(unlink(<<"..">>)),
  Must(Absolute(chdir(<<>>))), MustFail(unlink(<<"dots", ".">>)), MustFail(unlink(<<"dots", "..">>)),
  Must(unlink(<<"dots">>)) >>

dirfile == <<
  Must(creat(<<"dirfile">>, "read")), close(0), MustFail(chdir(<<"dirfile">>)),
  MustFail(open(<<"dirfile", "xx">>, "read")), MustFail(creat(<<"dirfile", "xx">>, "read")),
  MustFail(mkdir(<<"dirfile", "xx">>)), MustFail(unlink(<<"dirfile", "xx">>)),
  MustFail(link(<<"README">>, <<"dirfile", "xx">>)), Must(unlink(<<"dirfile">>)),
  MustFail(open(<<".">>, "rdwr")), open(<<".">>, "read"), MustFail(write(0, <<"x">>)), close(0) >>

-----------------------------------------------------------------------------
(* Processes that use the same files *)

\* Parent and child write through one open file, which has one offset.
sharedfd == LET Shared(data) == Times(2, <<Must(write(0, data))>>) IN
  << unlink(<<"sharedfd">>), Must(creat(<<"sharedfd">>, "rdwr")), fork(Shared(<<"c">>)) >>
  \o Shared(<<"p">>)
  \o << Succeeds, close(0), Must(open(<<"sharedfd">>, "read")),
        OneOf(readall(0, 4), {f \in [1..4 -> {"c", "p"}] : Cardinality({i \in 1..4 : f[i] = "c"}) = 2}),
        close(0), unlink(<<"sharedfd">>) >>

fourfiles ==
  FlattenSeq([i \in 1..2 |->
    << unlink(<<ToString(i)>>),
       Must(fork(<<Must(creat(<<ToString(i)>>, "rdwr"))>> \o Times(2, <<Must(write(0, <<ToString(i)>>))>>))) >>])
  \o << Succeeds, Succeeds >>
  \o FlattenSeq([i \in 1..2 |->
    << open(<<ToString(i)>>, "read"), Gives(readall(0, 4), <<ToString(i), ToString(i)>>), close(0),
       unlink(<<ToString(i)>>) >>])

createdelete ==
  [pi \in 1..2 |-> Must(fork(<<
     Must(creat(<<ToString(pi)>>, "rdwr")), close(0), Must(unlink(<<ToString(pi)>>)) >>))]
  \o << Succeeds, Succeeds >>
  \o [pi \in 1..2 |-> MustFail(open(<<ToString(pi)>>, "read"))]

\* Parent and child create, or link, the same name.
concreateWith(parent, child) ==
  << creat(<<"C0">>, "rdwr"), close(0), fork(child) >> \o parent \o << Succeeds >>
  \o << Must(open(<<"C1">>, "read")), close(0) >>
ToCreate == << Must(creat(<<"C1">>, "rdwr")), close(0) >>
ToLink == << link(<<"C0">>, <<"C1">>) >>
concreate == {concreateWith(parent, child) : parent, child \in {ToCreate, ToLink}}

\* One opens the file, the other unlinks it, each as often as it likes.
concreateEnd == LET Opens == Times(2, << open(<<"C0">>, "read"), close(0) >>)
                    Unlinks == Times(2, << unlink(<<"C0">>) >>) IN
  << creat(<<"C0">>, "rdwr"), write(0, <<"b">>), close(0), Must(fork(Opens)) >> \o Unlinks \o << wait >>

\* Parent and child do any of these.
LinkUnlinkSteps == {<< creat(<<"x">>, "rdwr"), close(0) >>, << link(<<"README">>, <<"x">>) >>, << unlink(<<"x">>) >>}
linkunlink ==
  {<< unlink(<<"x">>), Must(fork(c1 \o c2)) >> \o p1 \o << wait >> : c1, c2, p1 \in LinkUnlinkSteps}

manywrites ==
  [ci \in 1..2 |-> Must(fork(
     << unlink(<<ToString(ci)>>) >>
     \o Times(ci, << Must(creat(<<ToString(ci)>>, "rdwr")), Must(write(0, <<"b", "c">>)), close(0) >>)
     \o << unlink(<<ToString(ci)>>), unlink(<<ToString(ci)>>) >>))]
  \o << Succeeds, Succeeds >>

-----------------------------------------------------------------------------
(* Processes *)

exitwait == FlattenSeq([i \in 1..2 |-> << Must(fork(<<exit(i)>>)), Status(2, i) >>])

killstatus == Times(2, << Must(fork(<<Spin>>)), kill(2), Status(2, -1) >>)

twochildren == Times(2, << Must(fork(<<exit(0)>>)), Must(fork(<<exit(0)>>)), wait, wait >>)

\* The child exits before its own child.
reparent == << Must(fork(<<Must(fork(<<>>)), exit(0)>>)), Status(2, 0), exit(0) >>
reparent2 == << Must(fork(<<fork(<<>>), fork(<<>>), exit(0)>>)), wait, exit(0) >>

forkfork ==
  Times(2, << Must(fork(Times(1, << Must(fork(<<exit(0)>>)), wait >>) \o << exit(0) >>)) >>)
  \o << Succeeds, Succeeds >>

\* Until no slot is left.
forktest ==
  Times(Cardinality(Procs) - 1, << Must(fork(<<exit(0)>>)) >>)
  \o Times(Cardinality(Procs) - 1, << Succeeds >>) \o << MustFail(wait) >>

\* A reader, and a writer of more than the pipe can hold; the descriptors are
\* 0 to read and 1 to write.
pipe1 == <<
  Must(pipe),
  fork(<<close(0), Must(write(1, <<"1", "2", "3">>)), Must(write(1, <<"4", "5">>)), exit(0)>>),
  close(1), Gives(readall(0, 2), <<"1", "2", "3", "4", "5">>), close(0), Succeeds >>

preempt == <<
  Must(fork(<<Spin>>)), Must(pipe),
  Must(fork(<<close(0), Must(write(1, <<"x">>)), close(1), Spin>>)),
  close(1), Gives(read(0, 4), <<"x">>), close(0), kill(2), kill(3), wait, wait >>

-----------------------------------------------------------------------------
(* Addresses that are not the process's *)

copyin == <<
  Must(creat(<<"copyin1">>, "write")), MustFail(From(Nowhere, write(0, <<"a", "b">>))), close(0), unlink(<<"copyin1">>),
  Must(pipe), OneOf(From(Nowhere, write(1, <<"a", "b">>)), {Failed, Short(0)}), close(0), close(1) >>

copyout == <<
  Must(open(<<"README">>, "read")), OneOf(From(Nowhere, read(0, 4)), {Failed, <<>>}), close(0),
  Must(pipe), Must(write(1, <<"x">>)), OneOf(From(Nowhere, read(0, 4)), {Failed, <<>>}), close(0), close(1) >>

copyinstr1 == << MustFail(From(Nowhere, creat(<<"x">>, "write"))) >>

copyinstr2 == <<
  MustFail(unlink(LongPath)), MustFail(creat(LongPath, "write")), MustFail(link(LongPath, LongPath)),
  MustFail(exec(LongPath, << <<"x">> >>)),
  Must(fork(<< MustFail(exec(<<"echo">>, << <<"x">>, LongString >>)), exit(747) >>)), Status(2, 747) >>

\* A string that crosses the end of the last page.
copyinstr3 == LET b == Top + 2 * PGSIZE - 1 IN <<
  sbrk(2 * PGSIZE), Gives(sbrk(0), Address(b + 1)), store(b),
  MustFail(From(b, unlink(<<"x">>))), MustFail(From(b, creat(<<"x">>, "write"))),
  MustFail(From(b, link(<<"x">>, <<"x">>))), MustFail(From(b, exec(<<"x">>, << <<"x">> >>))) >>

rwsbrk == <<
  Gives(sbrk(2 * PGSIZE), Address(Top)), Gives(sbrk(0 - 2 * PGSIZE), Address(Top + 2 * PGSIZE)),
  Must(creat(<<"rwsbrk">>, "write")), MustFail(From(Top + PGSIZE, write(0, <<"a">>))), close(0), unlink(<<"rwsbrk">>),
  Must(open(<<"README">>, "read")), MustFail(From(Top + PGSIZE, read(0, 1))), close(0), exit(0) >>

validatetest == [p \in 1..6 |-> MustFail(From((p - 1) * PGSIZE, link(<<"nosuchfile">>, <<"x">>)))]

\* A read beyond the last page.
argptest == << Must(open(<<"echo">>, "read")), From(Top - 1, read(0, 2)), close(0) >>

pgbug == << MustFail(From(Nowhere, exec(<<"echo">>, <<>>))), MustFail(From(Nowhere, pipe)), exit(0) >>

\* A write from nowhere may not cost a block.
badwrite ==
  Times(NBLOCK, << Must(creat(<<"junk">>, "write")), From(Nowhere, write(0, <<"x">>)), close(0), unlink(<<"junk">>) >>)
  \o << Must(creat(<<"junk">>, "write")), Must(write(0, <<"x">>)), close(0), unlink(<<"junk">>), exit(0) >>

\* The kernel kills a process that touches what it may not.
Killed(op) == << Must(fork(<<op, exit(1)>>)), Status(2, -1) >>
kernmem == Killed(load(Nowhere))
MAXVAplus == Killed(store(Nowhere))
stacktest == Killed(load(Top - PGSIZE - 1))
textwrite == Killed(store(0))

-----------------------------------------------------------------------------
(* Memory *)

\* How many pages the first process, or one like it, can get when so many are free.
Extra(free) == Reached(FirstSpace, NPAGES, free) - 3
GetPages(n) == [i \in 1..n |-> Gives(sbrk(PGSIZE), Address(Top + (i - 1) * PGSIZE))]

\* What a child of the first process can get.
ForChild == NPAGES - 2 * (1 + PagesOf(FirstSpace))

\* All memory, through malloc(), which gets it with sbrk() and does not give it back.
mem == << fork(GetPages(Extra(ForChild)) \o << MustFail(sbrk(PGSIZE)), exit(0) >>), Succeeds >>

\* Too much; less than a page; and again with a child.
sbrkbasic == LET a == Top + PGSIZE + 2 IN
  << Must(fork(<< MustFail(sbrk(Nowhere)), exit(0) >>)), Succeeds, Gives(sbrk(0), Address(Top)) >>
  \o FlattenSeq([i \in 1..(PGSIZE + 2) |-> << Gives(sbrk(1), Address(Top + i - 1)), store(Top + i - 1) >>])
  \o << Must(fork(<< sbrk(1), Gives(sbrk(1), Address(a + 1)), exit(0) >>)), sbrk(1), Gives(sbrk(1), Address(a + 1)), Succeeds >>

sbrkmuch == LET Big == (PTES + 2) * PGSIZE IN <<
  Gives(sbrk(Big - Top), Address(Top)), store(Top), store(Big - 1),
  Gives(sbrk(0 - PGSIZE), Address(Big)), Gives(sbrk(0), Address(Big - PGSIZE)),
  Gives(sbrk(PGSIZE), Address(Big - PGSIZE)), Gives(sbrk(0), Address(Big)), load(Big - 1),
  Gives(sbrk(Top - Big), Address(Big)) >>

\* Children take a lot of memory, until it runs out: first for sbrk(), then for fork().
\* What they got from the calls that failed is free again.
sbrkfail == LET Much == Extra(ForChild) - 13
                Child == << sbrk(Much * PGSIZE), write(1, <<"x">>), Spin >> IN <<
  Must(pipe), Must(fork(Child)), read(0, 1), Must(fork(Child)), read(0, 1), MustFail(fork(Child)),
  Gives(sbrk(PGSIZE), Address(Top)), kill(2), wait, kill(3), wait,
  Must(fork(<< sbrk(Nowhere), load(Top + PGSIZE), exit(1) >>)), Status(2, -1) >>

sbrkarg == <<
  Gives(sbrk(PGSIZE), Address(Top)), creat(<<"sbrk">>, "write"), unlink(<<"sbrk">>),
  Must(From(Top, write(0, <<"a", "b">>))), close(0),
  Gives(sbrk(PGSIZE), Address(Top + PGSIZE)), Must(From(Top + PGSIZE, pipe)) >>

\* A size of zero, within the first page, and within a page that stays.
sbrkbugs == <<
  Must(fork(<< sbrk(0 - Top), exit(0) >>)), wait,
  Must(fork(<< sbrk(0 - (Top - PGSIZE + 1)), exit(0) >>)), wait,
  Must(fork(<< sbrk(7 * PGSIZE + 4), sbrk(-2), exit(0) >>)), wait, exit(0) >>

sbrklast == LET p == Top + PGSIZE - 5 IN <<
  sbrk(PGSIZE), sbrk(2), sbrk(-4), Gives(sbrk(0), Address(p + 3)), store(p),
  creat(<<"x">>, "rdwr"), From(p, write(0, <<"x">>)), close(0),
  From(p, open(<<"x">>, "rdwr")), Gives(From(p, read(0, 1)), <<"x">>) >>

\* A size that wraps around.
sbrk8000 == << sbrk(0 - Nowhere), load(Top - 1), store(Top - 1) >>

\* All the pages, counted by a process that gets them one by one, and the tests between
\* two counts, each in a process of its own.
countfree == LET n == Extra(ForChild - 1) IN
  << Must(pipe),
     Must(fork(<< close(0) >>
               \o FlattenSeq([i \in 1..n |-> << GetPages(n)[i], store(Top + i * PGSIZE - 1), Must(write(1, <<"x">>)) >>])
               \o << MustFail(sbrk(PGSIZE)), exit(0) >>)),
     close(1), Gives(readall(0, 1), [i \in 1..n |-> "x"]), close(0), wait >>

run(test) == << Must(fork(test \o << exit(0) >>)), Succeeds >>
runtests(tests) == FlattenSeq([i \in DOMAIN tests |-> run(tests[i])])
drivetests(tests) == countfree \o runtests(tests) \o countfree

-----------------------------------------------------------------------------
(* exec() *)

\* The first descriptor stands for those the terminal has.
exectest == <<
  unlink(<<"echo-ok">>), open(<<"README">>, "read"),
  Must(fork(<< Must(creat(<<"echo-ok">>, "write")), exec(<<"echo">>, << <<"O", "K">> >>), exit(1) >>)), Succeeds,
  Must(open(<<"echo-ok">>, "read")), Gives(read(1, 2), <<"O", "K">>), unlink(<<"echo-ok">>), exit(0) >>

\* Arguments that are larger than a page, together.
bigargtest == <<
  unlink(<<"bigarg-ok">>),
  Must(fork(<< exec(<<"echo">>, [i \in 1..3 |-> <<"b", "i">>]), creat(<<"bigarg-ok">>, "read"), close(0), exit(0) >>)),
  Succeeds, Must(open(<<"bigarg-ok">>, "read")), close(0) >>

\* An argument that cannot be copied, after one that can.
badarg == Times(3, << exec(<<"echo">>, << <<"x">>, LongString >>) >>) \o << exit(0) >>

\* With some pages left, from none to more than enough.
execout ==
  {<< Must(fork(GetPages(Extra(ForChild)) \o << sbrk(PGSIZE) >> \o Times(avail, << sbrk(0 - PGSIZE) >>)
                \o << exec(<<"echo">>, << <<"x">> >>), exit(0) >>)), wait, exit(0) >> : avail \in 0..11}

bigdir ==
  << unlink(<<"bd">>), Must(creat(<<"bd">>, "read")), close(0) >>
  \o [i \in 1..4 |-> Must(link(<<"bd">>, <<ToString(i)>>))] \o << unlink(<<"bd">>) >>
  \o [i \in 1..4 |-> Must(unlink(<<ToString(i)>>))]

-----------------------------------------------------------------------------
(* Steps of grind.c *)

\* The random steps of go() on files, which two processes take at the same time; fd is
\* descriptor 0, if that is open.
Grind == {
  << unlink(<<"grindir", "..", "a">>) >>,
  << Must(chdir(<<"grindir">>)), unlink(<<"..", "b">>), Absolute(chdir(<<>>)) >>,
  << close(0), Absolute(creat(<<"grindir", "..", "a">>, "rdwr")), write(0, <<"g">>) >>,
  << unlink(<<"b">>), link(<<"..", "grindir", ".", "..", "a">>, <<"..", "b">>) >>,
  << unlink(<<"..", "grindir", "..", "a">>),
     Absolute(link(<<"..", ".", "b">>, <<"grindir", "..", "a">>)) >> }
GrindFiles ==
  << creat(<<"grindir", "..", "a">>, "rdwr"), close(0), creat(<<"grindir", "..", "grindir", "..", "b">>, "rdwr"),
     close(0), close(0), Absolute(creat(<<".", "grindir", ".", "..", "b">>, "rdwr")), read(0, 1) >>

\* A name that is a directory's or a file's, whoever makes it first.
GrindDirA ==
  << mkdir(<<"grindir", "..", "a">>), creat(<<"a", "..", "a", ".", "a">>, "rdwr"), close(0), unlink(<<"a", "a">>) >>
GrindDirB ==
  << Absolute(mkdir(<<"..", "b">>)), creat(<<"grindir", "..", "b", "b">>, "rdwr"), close(0), unlink(<<"b", "b">>) >>

\* Memory, and processes: the child of the second process is the third.
GrindProc == {
  << Must(fork(<<exit(0)>>)), wait >>,
  << Must(fork(<< fork(<<>>), fork(<<>>), exit(0) >>)), wait >>,
  << sbrk(PGSIZE + 3), sbrk(0), sbrk(0 - (PGSIZE + 3)) >>,
  << Must(fork(<< creat(<<"a">>, "rdwr"), close(0), exit(0) >>)), Must(chdir(<<"..", "grindir", "..">>)), kill(3), wait >>,
  << Must(fork(<< kill(3), exit(0) >>)), wait >>,
  << Must(pipe), Must(fork(<< fork(<< Must(write(1, <<"x">>)), OneOf(read(0, 1), {<<"x">>}) >>),
                              Must(write(1, <<"x">>)), OneOf(read(0, 1), {<<"x">>}), exit(0) >>)), close(0), close(1), wait >>,
  << Must(fork(<< unlink(<<"a">>), mkdir(<<"a">>), chdir(<<"a">>), unlink(<<"..", "a">>),
                  creat(<<"x">>, "rdwr"), unlink(<<"x">>), exit(0) >>)), wait >> }

\* echo hi | cat, with a pipe after each command; descriptors 0 and 1 stand for the console.
GrindPipe ==
  << open(<<"README">>, "read"), dup(0), Must(pipe), Must(pipe),
     Must(fork(<< close(4), close(5), close(2), close(1), Must(dup(3)), close(3),
                  exec(<<"grindir", "..", "echo">>, << <<"hi">> >>), exit(2) >>)),
     Must(fork(<< close(3), close(4), close(0), Must(dup(2)), close(2), close(1), Must(dup(5)), close(5),
                  Absolute(exec(<<"cat">>, <<>>)), exit(6) >>)),
     close(2), close(3), close(5), Gives(read(4, 1), <<"hi">>), Gives(read(4, 1), <<"\n">>), close(4),
     Succeeds, Succeeds >>

\* The file has an inode, a block, and is there: "should always succeed".
GrindFile ==
  << unlink(<<"c">>), Must(creat(<<"c">>, "rdwr")), Must(write(0, <<"x">>)), Gives(fstat(0), Stat("file", 1, 1)),
     close(0), unlink(<<"c">>) >>

\* iter(): processes take one of the steps each, after which there is room for a file.
IterOf(steps) ==
  << unlink(<<"a">>), unlink(<<"b">>), mkdir(<<"grindir">>) >>
  \o [k \in DOMAIN steps |-> Must(fork(steps[k]))] \o [k \in DOMAIN steps |-> Succeeds] \o GrindFile
iter == {IterOf(SetToSeq(steps)) : steps \in kSubset(2, Grind)}
        \cup {IterOf(<<GrindDirA, << creat(<<"grindir", "..", "a">>, "rdwr"), close(0) >> >>)}
        \cup {IterOf(<<step>>) : step \in GrindProc \cup {GrindFiles, GrindDirB}}
        \cup {<< mkdir(<<"grindir">>) >> \o GrindPipe}

-----------------------------------------------------------------------------
(* The system *)

\* mkfs makes the root directory and the files in it; init holds a reference to the root.
Installed == <<"README", "echo", "cat", "rm", "mkdir", "ln">>
MkfsRoot == [type |-> "dir", nlink |-> 1, data |-> <<>>, spare |-> 0,
             dir |-> ("." :> Root) @@ (".." :> Root)
                     @@ [name \in ToSet(Installed) |-> Root + (CHOOSE k \in DOMAIN Installed : Installed[k] = name)]]
MkfsFile(name) == [type |-> "file", nlink |-> 1, data |-> IF name \in Elf THEN <<name, "text">> ELSE <<"readme">>,
                   dir |-> <<>>, spare |-> 0]

Init ==
  /\ dinode = [i \in Inums |-> IF i = Root THEN MkfsRoot ELSE IF i - Root \in DOMAIN Installed THEN MkfsFile(Installed[i - Root])
                               ELSE Free]
  /\ itable = [s \in Slots |-> IF s = 1 THEN [Unreferenced EXCEPT !.ref = 2] ELSE Unreferenced]
  /\ ftable = [f \in Files |-> Closed]
  /\ pipes = [pi \in Pipes |-> CloseEnd(CloseEnd(NewPipe, TRUE), FALSE)]
  /\ \E program \in Programs :
       proc = [p \in Procs |-> IF p = 1 THEN Process(Nobody, program, [fd \in Fds |-> 0], 1, FirstSpace) ELSE NoProcess]
  /\ call = [p \in Procs |-> NoCall]
  /\ kmem = NPAGES - 1 - PagesOf(FirstSpace)

\* A call that has ended returns at once: until it is in another call, a process shares nothing.
Next ==
  IF \E p \in Procs : Returns(p) THEN \E p \in Procs : Return(p)
  ELSE \E p \in Procs : Step(p) \/ InitReaps(p)

\* No step can be taken for ever, so all that is needed is that the system does not
\* stand still.
Spec == Init /\ [][Next]_vars /\ WF_vars(Next)

-----------------------------------------------------------------------------
(* Properties *)

\* Types: the tables of inodes, files and pipes, and what processes are at.
FilesTypeOK ==
  /\ \A i \in Inums : /\ dinode[i].type \in {"free", "dir", "file", "device"} /\ dinode[i].nlink \in Nat
                      /\ Len(dinode[i].data) <= MAXFILE
                      /\ DOMAIN dinode[i].dir # {} => dinode[i].type = "dir"
  /\ FreeBlocks >= 0
  /\ \A s \in Slots : itable[s].inum \in Inums /\ itable[s].ref \in Nat /\ itable[s].lock \in Procs \cup {Nobody}
  /\ \A f \in Files : ftable[f].ref \in Nat /\ ftable[f].type \in {"none", "inode", "device", "pipe"}
  /\ \A p \in Procs : proc[p].state \in {"unused", "used", "running", "zombie", "failed"}
  /\ kmem \in 0..NPAGES

SumOf(S, f(_)) == MapThenSumSet(f, S)

\* References are counted: an entry of the inode table has as many as there are
\* open files, directories of processes, and calls, that use it (and init, for
\* the root); an open file has as many as descriptors, and calls that close it.
\* namex(), create(), link(), unlink() and exit() hand them on and drop them on
\* each of their ways out, and fileclose() and iput() run in any order.
RefsCounted ==
  /\ \A s \in Slots :
       itable[s].ref =
         Cardinality({f \in Files : ftable[f].ref > 0 /\ ftable[f].type \in {"inode", "device"} /\ ftable[f].ip = s})
         + Cardinality({p \in Procs : proc[p].cwd = s}) + (IF s = 1 THEN 1 ELSE 0)
         + SumOf(Procs, LAMBDA p : (IF call[p].dp = s THEN 1 ELSE 0) + (IF call[p].ip = s THEN 1 ELSE 0)
                                   + Cardinality({k \in DOMAIN call[p].puts : call[p].puts[k] = s}))
  /\ \A f \in Files :
       ftable[f].ref =
         SumOf(Procs, LAMBDA p : Cardinality({fd \in Fds : proc[p].fds[fd] = f})
                                 + Cardinality({k \in DOMAIN call[p].files : call[p].files[k] = f}))

\* A call that has taken the name out of the directory, or has not yet put it in,
\* and has the inode.
Relinking(p, i) ==
  /\ call[p].ip # 0 /\ itable[call[p].ip].inum = i
  /\ \/ Op(p).call = "link" /\ call[p].pc # "link"
     \/ Op(p).call = "unlink" /\ call[p].pc # "unlinkinode"

\* The links of an inode are counted on disk: the names it has in directories, and for a
\* directory those of directories in it, whose ".." is a link too.  Only a link() or
\* unlink() under way has one link more than names.  It is not always so: see below.
LinksCounted ==
  LET names == UNION {{<<i, n, dinode[i].dir[n]>> : n \in DOMAIN dinode[i].dir \ {".", ".."}} : i \in Inums}
      subdirs == {e \in names : dinode[e[3]].type = "dir"}
  IN \A i \in Inums :
       dinode[i].nlink =
         Cardinality({e \in names : e[3] = i}) + Cardinality({e \in subdirs : e[1] = i})
         + Cardinality({p \in Procs : Relinking(p, i)}) + (IF i = Root THEN 1 ELSE 0)

\* Links go uncounted in one way: create() has found a directory, unlink() removes it,
\* create() locks it and puts a file in (sysfile.c:251-254), and the directory is freed with
\* that name in it.  Every other step of every call keeps the count: link() with its failure
\* path, unlink(), mkdir() and create(), which change links and names under different locks.
OnlyRemovedDirLosesLinks ==
  [][LinksCounted /\ ~LinksCounted' =>
       \E p \in Procs : At(p, "itrunc") /\ ~IsDirEmpty(OnDisk(Head(call[p].puts)).dir)]_vars

\* An inode without links is freed with the last reference to it ("iput() frees if the
\* reference and link counts have fallen to zero", fs.c:129): one that is allocated has either.
NoneLeaked ==
  \A i \in Inums : dinode[i].type # "free" /\ dinode[i].nlink = 0
                     => \E s \in Slots : itable[s].ref > 0 /\ itable[s].inum = i

\* One leaks in one way: between the freeing and the decrement, when iput() has no lock
\* (fs.c:355-357), another process allocates the inode, gets the same entry of the
\* table, and removes it and puts it, not as the last, before the decrement.
OnlyIputLeaks ==
  [][NoneLeaked /\ ~NoneLeaked' =>
       \E p \in Procs : At(p, "irelse") /\ OnDisk(Head(call[p].puts)).type # "free"]_vars

\* An inode that is referenced is allocated, unless its reference is that of the
\* iput() that frees it: else ilock() panics, "ilock: no type" (fs.c:315).
InodesAllocated ==
  \A s \in Slots :
    itable[s].ref > 0 /\ dinode[itable[s].inum].type = "free"
      => \E p \in Procs : call[p].pc \in {"ifreed", "irelse"} /\ Head(call[p].puts) = s

\* A call gets a free inode in one way: it looks ".." up in a directory that was removed,
\* whose parent may be gone.  Whatever else calls do to an inode that others remove, put
\* and reuse the entry of, between two of their steps, they have one that is allocated.
OnlyDotDotFindsFree ==
  [][InodesAllocated /\ ~InodesAllocated' =>
       \E p \in Procs : At(p, "walk") /\ Head(call[p].rest) = ".." /\ OnDisk(call[p].dp).nlink = 0]_vars

\* Pages are counted: each is free, or a process's or its page table's, or a pipe's, or
\* held by a call that has not yet given it away, or back.  What fork(), sbrk() and exec()
\* have taken when memory runs out half way is given back, and what a process had when
\* it execs or is reaped.  And a process has its memory mapped up to its size, no less and no
\* more: else the kernel panics when it copies or frees it ("lost some free pages",
\* usertests.c:3068).
PagesCounted ==
  /\ NPAGES = kmem
               + SumOf({p \in Procs : proc[p].state \notin {"unused", "used"}}, PagesOfProcess)
               + SumOf(Procs, LAMBDA p : PagesOfCall(call[p]))
               + Cardinality({pi \in Pipes : ~IsFreed(pipes[pi])})
  /\ \A p \in Procs : LET space == proc[p].space IN
       space.pages = PageRoundUp(space.sz) /\ space.tables >= TablesFor(space.pages)

\* Whatever the processes of a test do meanwhile, every call gives it a result it accepts.
TestsPass == \A p \in Procs : proc[p].state # "failed"

\* A process that sleeps on a pipe has to: a reader on an empty one that somebody can
\* write, a writer on a full one that somebody can read, unless the pipe's lock
\* is held, whose holder wakes them up.  It is not always so: see below.
PipeSleepersMustWait ==
  \A pi \in Pipes : pipes[pi].lock = NULL =>
    /\ (\E p \in Procs : proc[p].chan = ReadChan(pi)) => IsEmpty(pipes[pi]) /\ pipes[pi].writeopen
    /\ (\E p \in Procs : proc[p].chan = WriteChan(pi)) => IsFull(pipes[pi]) /\ pipes[pi].readopen

\* A process is left asleep for nothing in one way: a writer that is killed returns without
\* waking the reader of the bytes it has written (pipe.c:84-86).  No other step of
\* a reader, a writer, or a process that closes an end forgets anybody.
OnlyKilledWriterForgets ==
  [][PipeSleepersMustWait /\ ~PipeSleepersMustWait' =>
       \E p \in Procs : At(p, "pipewrite") /\ proc[p].killed /\ call'[p].pc = "fail"]_vars

\* Every test ends, with all its processes: nobody waits for a lock, a pipe or a
\* child for ever, unless ilock() has panicked.
TestsEnd == <>(\/ \A p \in Procs : proc[p].state = "unused"
               \/ \E p \in Procs : call[p].pc = "panic")

=============================================================================
