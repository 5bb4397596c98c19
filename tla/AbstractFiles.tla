--------------------------- MODULE AbstractFiles ---------------------------
(***************************************************************************)
(* What the FAT driver promises the programs that use a mounted volume, in *)
(* terms of what they see: the operation on a file's data and its answer.  *)
(* A file has what was written to it, as far as the answers say, a read    *)
(* answers what the file has, and no other operation changes it, except    *)
(* that the driver's log gets records at any step.                         *)
(***************************************************************************)
EXTENDS Integers, Sequences, SequencesExt

CONSTANTS Log, LogRecord

VARIABLES
  files,   \* the data of each file that the driver knows, by path
  io       \* the last operation on a file's data, and its answer

\* Of the files at one moment and the next: those in S may change, the log may
\* grow, and others may appear.
OnlyTouches(old, new, S) ==
  /\ \A q \in DOMAIN old \ (S \union {Log}) : q \in DOMAIN new /\ new[q] = old[q]
  /\ Log \in DOMAIN old =>
       /\ Log \in DOMAIN new /\ IsPrefix(old[Log], new[Log])
       /\ \A i \in DOMAIN new[Log] \ DOMAIN old[Log] : new[Log][i] = LogRecord

\* One file gets other data.
Sets(old, new, p, data) ==
  /\ p \in DOMAIN old \ {Log}
  /\ DOMAIN new = DOMAIN old /\ OnlyTouches(old, new, {p})
  /\ new[p] = data

\* The data of a file after vals is written at an offset within it.
Overwritten(data, off, vals) ==
  SubSeq(data, 1, off) \o vals \o SubSeq(data, off + Len(vals) + 1, Len(data))

\* A write that answers n has written the first n units of what it was given; if
\* it wrote some and left some, it has come to the end of the file.
WriteStep(old, new, call) ==
  /\ call.n \in 0..Len(call.vals)
  /\ call.n \in {0, Len(call.vals)} \/ call.off + call.n >= Len(old[call.path])
  /\ Sets(old, new, call.path, Overwritten(old[call.path], call.off, SubSeq(call.vals, 1, call.n)))

\* A read answers the data of the file from the offset on, as much as it has.
ReadStep(old, new, call) ==
  /\ call.path \in DOMAIN old
  /\ LET size == Len(old[call.path])
         end == call.off + call.len
     IN call.data = SubSeq(old[call.path], call.off + 1, IF end > size THEN size ELSE end)
  /\ OnlyTouches(old, new, {})

\* A truncation cuts the file, or changes nothing.
TruncateStep(old, new, call) ==
  \/ Sets(old, new, call.path, old[call.path])
  \/ Sets(old, new, call.path, SubSeq(old[call.path], 1, call.off))

UnlinkStep(old, new, call) ==
  /\ call.path \in DOMAIN old \ {Log}
  /\ DOMAIN new = DOMAIN old \ {call.path} /\ OnlyTouches(old, new, {call.path})

Step(old, new, call) ==
  \/ call.op = "write" /\ WriteStep(old, new, call)
  \/ call.op = "read" /\ ReadStep(old, new, call)
  \/ call.op = "truncate" /\ TruncateStep(old, new, call)
  \/ call.op = "unlink" /\ UnlinkStep(old, new, call)
  \/ call.op = "none" /\ OnlyTouches(old, new, {})

AbsInit == files = <<>> /\ io = [op |-> "none"]

AbsNext == \E old \in {files}, new \in {files'}, call \in {io'} : Step(old, new, call)

AbsSpec == AbsInit /\ [][AbsNext]_<<files, io>>

=============================================================================
