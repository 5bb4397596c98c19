--------------------------------- MODULE Sh ---------------------------------
(***************************************************************************)
(* The shell of xv6 (LAB2/user/sh.c): a recursive-descent parser, and      *)
(* runcmd(), which turns a parsed command into processes, pipes and        *)
(* redirected descriptors.  Here a command becomes the program that        *)
(* runcmd() executes, on Syscalls; so do the commands themselves (cat.c,   *)
(* rm.c, mkdir.c, ln.c) and some programs that others are run beside      *)
(* (stressfs.c, zombie.c, iobench.c).                                      *)
(*                                                                         *)
(* A line is a sequence of tokens; a word is one datum.  Messages to the   *)
(* user are left out.  (The operators are recursive: TLC runs them.)       *)
(***************************************************************************)
EXTENDS Usertests

-----------------------------------------------------------------------------
(* Commands *)

OrElse(op, program) == op @@ ("orelse" :> program)
copy(from, to) == [call |-> "copy", fd |-> from, n |-> 1, to |-> to, addr |-> 0, expect |-> {}]

\* cat.c: from descriptor 0, or from every file, which gets the lowest descriptor that is free.
Cat(fd) == OrElse(copy(fd, OrElse(write(1, <<>>), <<exit(1)>>)), <<exit(1)>>)
cat(args) ==
  (IF args = <<>> THEN <<Cat(0)>>
   ELSE FlattenSeq([i \in DOMAIN args |-> << OrElse(open(args[i], "read"), <<exit(1)>>), Cat(3), close(3) >>]))
  \o << exit(0) >>

\* rm.c and mkdir.c stop at the first that fails.
rm(args) ==
  IF args = <<>> THEN <<exit(1)>>
  ELSE [i \in DOMAIN args |-> OrElse(unlink(args[i]), <<exit(0)>>)] \o << exit(0) >>
mkdirs(args) ==
  IF args = <<>> THEN <<exit(1)>>
  ELSE [i \in DOMAIN args |-> OrElse(mkdir(args[i]), <<exit(0)>>)] \o << exit(0) >>

ln(args) == IF Len(args) # 2 THEN <<exit(1)>> ELSE << link(args[1], args[2]), exit(0) >>

zombie == << OrElse(fork(<<exit(0)>>), <<exit(0)>>), exit(0) >>

\* Processes that each fork the next one, and write and read a file of their own.
RECURSIVE stressfs(_, _)
stressfs(i, n) ==
  LET path == <<"stressfs" \o ToString(i)>> IN
  (IF i = n THEN <<>> ELSE << fork(stressfs(i + 1, n)) >>)
  \o << creat(path, "rdwr"), write(0, <<"a", "a">>), close(0),
        open(path, "read"), read(0, 1), read(0, 1), close(0), wait, exit(0) >>

\* iobench.c: a process writes its file, and reads it, again and again.
iobench(pid) == LET path == <<ToString(pid) \o "iops">> IN
  Times(2, << creat(path, "write"), write(0, <<"a", "a">>), close(0), open(path, "read"), read(0, 1), read(0, 1), close(0) >>)
  \o << exit(0) >>

-----------------------------------------------------------------------------
(* Parsing *)

Symbols == {"<", ">", ">>", "|", "&", ";", "(", ")"}
MAXARGS == 10

\* What is parsed, and the tokens that are left; panic() exits, there and then.
Parsed(cmd, rest) == [cmd |-> cmd, rest |-> rest]
Panic == Parsed([type |-> "panic"], <<>>)

execcmd(argv) == [type |-> "exec", argv |-> argv]
redircmd(cmd, token, file) ==
  [type |-> "redir", cmd |-> cmd, file |-> file, fd |-> IF token = "<" THEN 0 ELSE 1,
   open |-> CASE token = "<"  -> open(<<file>>, "read")
              [] token = ">"  -> Trunc(creat(<<file>>, "write"))
              [] token = ">>" -> creat(<<file>>, "write")]
pipecmd(left, right) == [type |-> "pipe", left |-> left, right |-> right]
listcmd(left, right) == [type |-> "list", left |-> left, right |-> right]
backcmd(cmd) == [type |-> "back", cmd |-> cmd]

\* peek() skips nothing but white space.
Peek(ts, tokens) == ts # <<>> /\ Head(ts) \in tokens

RECURSIVE ParseRedirs(_, _), ParseWords(_, _, _), ParseBacks(_, _), ParseExec(_), ParsePipe(_), ParseLine(_)

ParseRedirs(cmd, ts) ==
  IF ~Peek(ts, {"<", ">", ">>"}) THEN Parsed(cmd, ts)
  ELSE IF Len(ts) = 1 \/ Peek(Tail(ts), Symbols) THEN Panic
  ELSE ParseRedirs(redircmd(cmd, ts[1], ts[2]), SubSeq(ts, 3, Len(ts)))

\* ( ... ), with redirections.
ParseBlock(ts) ==
  LET line == ParseLine(Tail(ts)) IN
  IF ~Peek(line.rest, {")"}) THEN Panic ELSE ParseRedirs(line.cmd, Tail(line.rest))

\* The command gets its words one by one, inside the redirections so far.
RECURSIVE WithWord(_, _)
WithWord(cmd, word) ==
  CASE cmd.type = "exec"  -> [cmd EXCEPT !.argv = Append(@, word)]
    [] cmd.type = "redir" -> [cmd EXCEPT !.cmd = WithWord(@, word)]
    [] OTHER              -> cmd

ParseWords(cmd, argc, ts) ==
  IF ts = <<>> \/ Peek(ts, {"|", ")", "&", ";"}) THEN Parsed(cmd, ts)
  ELSE IF Peek(ts, Symbols) \/ argc + 1 >= MAXARGS THEN Panic
  ELSE LET redirs == ParseRedirs(WithWord(cmd, Head(ts)), Tail(ts)) IN
    ParseWords(redirs.cmd, argc + 1, redirs.rest)

ParseExec(ts) ==
  IF Peek(ts, {"("}) THEN ParseBlock(ts)
  ELSE LET redirs == ParseRedirs(execcmd(<<>>), ts) IN ParseWords(redirs.cmd, 0, redirs.rest)

ParsePipe(ts) ==
  LET left == ParseExec(ts) IN
  IF ~Peek(left.rest, {"|"}) THEN left
  ELSE LET right == ParsePipe(Tail(left.rest)) IN Parsed(pipecmd(left.cmd, right.cmd), right.rest)

ParseBacks(cmd, ts) == IF Peek(ts, {"&"}) THEN ParseBacks(backcmd(cmd), Tail(ts)) ELSE Parsed(cmd, ts)

ParseLine(ts) ==
  LET pipeline == ParsePipe(ts)
      left == ParseBacks(pipeline.cmd, pipeline.rest)
  IN IF ~Peek(left.rest, {";"}) THEN left
     ELSE LET right == ParseLine(Tail(left.rest)) IN Parsed(listcmd(left.cmd, right.cmd), right.rest)

RECURSIVE Panics(_)
Panics(cmd) ==
  CASE cmd.type = "panic"             -> TRUE
    [] cmd.type = "exec"              -> FALSE
    [] cmd.type \in {"redir", "back"} -> Panics(cmd.cmd)
    [] cmd.type \in {"pipe", "list"}  -> Panics(cmd.left) \/ Panics(cmd.right)

\* parsecmd(): nothing may be left over.
ParseCmd(ts) == LET line == ParseLine(ts) IN
  IF line.rest # <<>> \/ Panics(line.cmd) THEN [type |-> "panic"] ELSE line.cmd

-----------------------------------------------------------------------------
(* runcmd(), main() *)

fork1(program) == OrElse(fork(program), <<exit(1)>>)

\* Descriptors 0, 1 and 2 are open, so that a pipe has 3 and 4.
Ends(end, fd, program) == << close(end), dup(fd), close(3), close(4) >> \o program

RECURSIVE RunCmd(_)
RunCmd(cmd) ==
  CASE cmd.type = "panic" -> << exit(1) >>
    [] cmd.type = "exec" ->
         IF cmd.argv = <<>> THEN << exit(1) >>
         ELSE << exec(<<cmd.argv[1]>>, [i \in 1..(Len(cmd.argv) - 1) |-> <<cmd.argv[i + 1]>>]), exit(0) >>
    [] cmd.type = "redir" ->
         << close(cmd.fd), OrElse(cmd.open, <<exit(1)>>) >> \o RunCmd(cmd.cmd)
    [] cmd.type = "list" -> << fork1(RunCmd(cmd.left)), wait >> \o RunCmd(cmd.right)
    [] cmd.type = "pipe" ->
         << OrElse(pipe, <<exit(1)>>), fork1(Ends(1, 4, RunCmd(cmd.left))), fork1(Ends(0, 3, RunCmd(cmd.right))),
            close(3), close(4), wait, wait, exit(0) >>
    [] cmd.type = "back" -> << fork1(RunCmd(cmd.cmd)), exit(0) >>

\* A line: cd by the shell itself, anything else by a child.
RunLine(line) ==
  IF Len(line) = 2 /\ line[1] = "cd" THEN << chdir(<<line[2]>>) >> ELSE << fork1(RunCmd(ParseCmd(line))), wait >>

\* The shell opens the console until that gives it a descriptor it does not need.
ShMain(lines) == << open(<<"console">>, "rdwr"), close(3) >> \o FlattenSeq([i \in DOMAIN lines |-> RunLine(lines[i])])

\* init opens the console, which it may have to make.
InitMain(program) ==
  LET rest == << dup(0), dup(0) >> \o program
      console == open(<<"console">>, "rdwr")
  IN << OrElse(console, << mknod(<<"console">>), console >> \o rest) >> \o rest
=============================================================================
