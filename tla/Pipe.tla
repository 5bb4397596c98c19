-------------------------------- MODULE Pipe --------------------------------
(***************************************************************************)
(* Pipes (LAB2/kernel/pipe.c): a ring buffer of PIPESIZE bytes and two     *)
(* counters of the bytes read and written, which are unsigned integers     *)
(* and wrap around.  What each call does to a pipe while it holds its      *)
(* lock; who sleeps, and is woken up, is in Syscalls.                      *)
(***************************************************************************)
EXTENDS Naturals, Sequences

CONSTANTS
  PIPESIZE,
  UintLimit,   \* the counters are kept modulo this, 2^32 in the kernel
  NULL

ASSUME PipeAssumption ==
  PIPESIZE \in Nat \ {0} /\ UintLimit \in Nat /\ UintLimit > PIPESIZE /\ UintLimit % PIPESIZE = 0

\* pipealloc(): the memory is not cleared.
NewPipe == [data |-> [i \in 0..(PIPESIZE - 1) |-> NULL], nread |-> 0, nwrite |-> 0,
            readopen |-> TRUE, writeopen |-> TRUE, lock |-> NULL]

\* pipeclose() of one end; the pipe is freed when both are closed.
CloseEnd(pi, writable) ==
  IF writable THEN [pi EXCEPT !.writeopen = FALSE] ELSE [pi EXCEPT !.readopen = FALSE]
IsFreed(pi) == ~pi.readopen /\ ~pi.writeopen

IsEmpty(pi) == pi.nread = pi.nwrite
IsFull(pi) == pi.nwrite = (pi.nread + PIPESIZE) % UintLimit

Wrapped(n) == n % UintLimit

\* A byte that pipewrite() copies ...
PutByte(pi, byte) == [pi EXCEPT !.data[pi.nwrite % PIPESIZE] = byte, !.nwrite = Wrapped(@ + 1)]

\* ... and those that piperead() copies, up to n while the pipe is not empty.
Available(pi, n) ==
  LET used == Wrapped(pi.nwrite + UintLimit - pi.nread) IN IF n < used THEN n ELSE used
FirstBytes(pi, n) == [j \in 1..n |-> pi.data[Wrapped(pi.nread + j - 1) % PIPESIZE]]
DropBytes(pi, n) == [pi EXCEPT !.nread = Wrapped(@ + n)]

=============================================================================
