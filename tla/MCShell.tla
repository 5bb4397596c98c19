------------------------------ MODULE MCShell ------------------------------
(***************************************************************************)
(* Shell for TLC: users who type one or two of these lines, or others that *)
(* mix pipelines in the background, in the foreground and builtins.        *)
(***************************************************************************)
EXTENDS Shell

Word(w) == <<[kind |-> "arg", text |-> w]>>
From(f) == <<[kind |-> "in", text |-> f]>>
To(f) == <<[kind |-> "out", text |-> f]>>
Bar == <<[kind |-> "pipe"]>>
Background == <<[kind |-> "background"]>>

Lone == Word("source")
Two == Word("source") \o Bar \o Word("filter")
Three == Word("source") \o Bar \o Word("filter") \o Bar \o Word("filter")
Builtin == Word("cd") \o Word("dir")

Lines == {
  Two, Two \o Background, Three, Builtin, Lone \o Background \o Word("garbage"),
  Word("help") \o Bar \o Word("filter"),                     \* a builtin that has a pipe to write
  Word("source") \o Bar \o Word("help"),                     \* and one that has a pipe to read
  Word("source") \o Bar \o Builtin,                          \* which leaves its argument as a command
  Word("cd") \o Bar \o Word("filter"),                       \* or no command
  Word("source") \o Bar \o Word("exit"),
  Word("source") \o To("file") \o Bar \o Word("filter"),     \* a pipe that nobody writes
  Word("source") \o Bar \o Word("filter") \o From("missing"),
  Bar \o Word("filter")}                                     \* no pipeline

MCInputs ==
  {<<l>> : l \in Lines} \union {<<l, m>> : l, m \in Lines}
  \union {<<Two \o Background, Builtin, Two>>, <<Two \o Background, Lone, Builtin>>,
          <<Two \o Background, Word("exit")>>,
          <<Word("help") \o Bar \o Word("filter"), Two \o Background, Lone>>,
          <<Word("help") \o Bar \o Word("filter") \o Background, Builtin>>}

MCPids == 1..7
MCTty == <<0, 0>>
MCFile == <<0, 1>>

=============================================================================
