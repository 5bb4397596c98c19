------------------------------- MODULE MCLog -------------------------------
(***************************************************************************)
(* Log for TLC.  The processes other than the one that boots the machine   *)
(* are interchangeable, and so are the blocks of the file system.          *)
(***************************************************************************)
EXTENDS Log

Symmetry == Permutations(Procs \ {Boot}) \union Permutations(Home)

=============================================================================
