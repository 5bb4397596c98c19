---------------------------- MODULE MCUsertests ----------------------------
(***************************************************************************)
(* The programs TLC runs on the system calls: those of Usertests, lines    *)
(* for the shell, and some that reach what no test of the repository does. *)
(***************************************************************************)
EXTENDS Sh

\* What the files of the disk do that are programs.
MCMain(file, args) ==
  CASE file = "echo"  -> echo(args)
    [] file = "cat"   -> cat(args)
    [] file = "rm"    -> rm(args)
    [] file = "mkdir" -> mkdirs(args)
    [] file = "ln"    -> ln(args)

\* A command as tokens, with parentheses where they are needed.
RECURSIVE Tokens(_)
Tokens(cmd) ==
  LET In(c, types) == IF c.type \in types THEN <<"(">> \o Tokens(c) \o <<")">> ELSE Tokens(c) IN
  CASE cmd.type = "exec"  -> cmd.argv
    [] cmd.type = "redir" -> In(cmd.cmd, {"pipe", "list", "back"})
                             \o << IF cmd.fd = 0 THEN "<" ELSE IF cmd.open.trunc THEN ">" ELSE ">>", cmd.file >>
    [] cmd.type = "pipe"  -> In(cmd.left, {"pipe", "list", "back"}) \o <<"|">> \o In(cmd.right, {"list", "back"})
    [] cmd.type = "list"  -> In(cmd.left, {"list"}) \o <<";">> \o Tokens(cmd.right)
    [] cmd.type = "back"  -> In(cmd.cmd, {"list"}) \o <<"&">>

\* What the parser makes of any few tokens is what it makes of the tokens of that: a
\* redirection belongs to one command, "|" binds closer than "&", and "&" than ";".
ASSUME ParsesBack ==
  \A n \in 0..5 : \A ts \in [1..n -> {"a", ">", "|", "&", ";", "(", ")"}] :
    LET cmd == ParseCmd(ts) IN cmd.type = "panic" \/ ParseCmd(Tokens(cmd)) = cmd
ASSUME ParsesSome ==
  /\ ParseCmd(<<"a", ";", "b", "|", "c", "&">>).right.type = "back"
  /\ ParseCmd(<<"a", "&", "b">>).type = "panic" /\ ParseCmd(<<"a", "|", ">">>).type = "panic"

Sh(lines, checks) == InitMain(ShMain(lines) \o checks)
Holds(name, data) == << Must(open(<<name>>, "read")), Gives(readall(3, 1), data), close(3) >>

\* A pipeline; redirections, the last of which is made first, and of which ">>" writes from
\* the start of the file; commands in the background, that go wrong, and that the
\* directory does not have.
ShellLines == {
  Sh(<< <<"(", "none", "|", "cat", ")", ">", "x">> >>, Holds("x", <<>>)),
  Sh(<< <<"(", "mkdir", "d", ";", "echo", "a", ")", ">", "x", ">", "z">>, <<"cat", "x", ">>", "z">>, <<"echo", "b", ">>", "z">> >>,
     Holds("x", <<"a", "\n">>) \o Holds("z", <<"b", "\n">>) \o << Must(unlink(<<"d">>)) >>),
  Sh(<< <<"mkdir", "d">>, <<"cd", "d">>, <<"echo", "b", ">", "x">>, <<"cd", "..">>, <<"rm", "d">> >>,
     << Must(chdir(<<"d">>)) >> \o Holds("x", <<>>)),
  Sh(<< <<"none", ">", "x", "&">>, <<"rm", "x">> >>, <<>>),
  Sh(<< <<"echo", ">">>, <<"(", "echo">>, <<"echo", "(">>, <<";">>, <<>>, <<"none">>, <<"cat", "none">>, <<"rm">>, <<"ln">>, <<"mkdir">> >>,
     << Must(creat(<<"x">>, "read")) >>),
  Sh(<< <<"none", ">", "x">>, <<"cat", "<", "none", ">", "y">>, <<"ln", "x", "z">> >>,
     Holds("y", <<>>) \o Holds("z", <<>>)) }

\* The console is a file of another kind.
Devices == << mknod(<<"c">>), MustFail(mknod(<<"c">>)), Must(creat(<<"c">>, "rdwr")), Gives(fstat(0), Stat("device", 1, 0)),
              Must(write(0, <<"a">>)), Gives(read(0, 1), <<>>), OneOf(From(Nowhere, write(0, <<"a">>)), {Short(0)}),
              MustFail(From(Nowhere, fstat(0))), MustFail(fstat(1)), Must(pipe), MustFail(fstat(1)), close(0), Must(unlink(<<"c">>)) >>

\* Every call that takes a path rejects one that is nowhere.
Paths == << MustFail(From(Nowhere, mkdir(<<"x">>))), MustFail(From(Nowhere, mknod(<<"x">>))), MustFail(From(Nowhere, chdir(<<"x">>))),
            MustFail(From(Nowhere, unlink(<<"x">>))), MustFail(From(Nowhere, link(<<"README">>, <<"x">>))) >>

\* Pages for pipes run out.
PagesRunOut ==
  << Gives(sbrk((Extra(NPAGES - 1 - PagesOf(FirstSpace)) - 1) * PGSIZE), Address(Top)),
     Must(pipe), MustFail(pipe), close(0), MustFail(pipe), close(1), Must(pipe) >>

\* A file that is not a program's, and a directory, cannot be executed.
ExecText == << MustFail(exec(<<"README">>, << <<"x">> >>)), MustFail(exec(<<".">>, <<>>)) >>

\* Descriptors, files and entries of the table run out, and are given back.
ManyPipes ==
  Times(3, << Must(pipe) >>)
  \o << MustFail(pipe), MustFail(dup(0)), MustFail(creat(<<"x">>, "rdwr")),
        Must(fork(<< close(0), close(1), close(2), Must(open(<<"x">>, "read")), MustFail(pipe),
                     MustFail(open(<<"x">>, "read")) >>)), Succeeds,
        close(3), close(2), Must(dup(0)), MustFail(pipe), close(2), close(0), MustFail(write(1, <<"x">>)) >>

\* A reader of a pipe that stays empty, a writer of one that stays full, and a process that
\* waits for a child are killed.
KillSleepers == << Must(pipe), Must(fork(<<read(0, 1)>>)), Must(kill(2)), Status(2, -1),
                   Must(fork(<<write(1, <<"1", "2", "3">>)>>)), Must(kill(2)), Status(2, -1),
                   Must(fork(<< Must(fork(<<Spin>>)), MustFail(wait) >>)), Must(kill(2)), Status(2, -1), kill(3) >>

\* Every slot is taken, by processes that only a kill() ends.
ForkFails == [q \in 1..(Cardinality(Procs) - 1) |-> Must(fork(<<Spin>>))]
  \o << MustFail(fork(<<>>)) >> \o [q \in 1..(Cardinality(Procs) - 1) |-> Must(kill(q + 1))]
  \o Times(Cardinality(Procs) - 1, <<wait>>) \o << MustFail(kill(2)), MustFail(wait) >>

\* A process removes a directory that another puts a file into: steps 3 and 9 of grind.c.
CreateInRemoved == IterOf(<< << unlink(<<"grindir", "..", "a">>) >>, GrindDirA >>)
Creates == {CreateInRemoved}

\* A process removes a file while another makes and removes one.
Reuse == << Must(creat(<<"x">>, "rdwr")), close(0), Must(fork(<< unlink(<<"x">>) >>)),
            creat(<<"y">>, "rdwr"), close(0), unlink(<<"y">>), wait >>

\* The writer of a pipe that another process reads is killed.
KillWriter == << Must(pipe), Must(fork(<< read(0, 1) >>)), Must(fork(<< write(1, <<"1", "2">>) >>)), Must(kill(3)),
                 wait, kill(2), wait >>

\* A process is in a directory that it has removed, and whose parent too, and goes up.
RemoveParent == << mkdir(<<"a">>), mkdir(<<"a", "b">>), chdir(<<"a", "b">>), unlink(<<"..", "..", "a", "b">>),
                   Absolute(unlink(<<"a">>)), open(<<"..">>, "read") >>
DotDots == {RemoveParent}

MCPrograms ==
  ShellLines \cup
  { truncate1, truncate2, truncate3, iputtest, exitiputtest, openiputtest, iref,
    opentest, writetest, writebig, createtest, dirtest, unlinkread, linktest, bigwrite,
    bigfile, diskfull, outofinodes, subdir, rmdot, dirfile,
    sharedfd, fourfiles, createdelete, concreateEnd, manywrites,
    exitwait, killstatus, twochildren, reparent, reparent2, forkfork, forktest,
    pipe1, preempt, ManyPipes, KillSleepers, ForkFails, CreateInRemoved, Reuse, KillWriter, RemoveParent,
    copyin, copyout, copyinstr1, copyinstr2, copyinstr3, rwsbrk, validatetest, argptest, pgbug, badwrite,
    kernmem, MAXVAplus, stacktest, textwrite, mem, sbrkbasic, sbrkmuch, sbrkfail, sbrkarg, sbrkbugs, sbrklast,
    sbrk8000, drivetests(<<badarg, copyin>>), exectest, bigargtest, badarg, bigdir, PagesRunOut, ExecText, Devices, Paths, zombie, stressfs(1, 2),
    << fork(iobench(2)), wait >> \o iobench(1) }
  \cup concreate \cup linkunlink \cup iter \cup execout
====
