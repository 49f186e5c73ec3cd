------------------------------- MODULE LogFile -------------------------------
(***************************************************************************)
(* What Logger promises the application (spec 4.3 and 8), with no queue    *)
(* and no thread: the elements log() hands over are numbered 1, 2, ...; a  *)
(* writer appends the oldest one not yet written to the file's buffer, a   *)
(* flush makes the file on disk what the buffer holds, and the file is     *)
(* closed only once every element handed over is written, after which     *)
(* nothing more is logged.                                                 *)
(***************************************************************************)
EXTENDS Naturals, Sequences

VARIABLES
  logged,     \* elements handed over
  written,    \* the elements written to the file's buffer, in order
  disk,       \* the contents of the file on disk
  closed      \* whether the file is closed

vars == <<logged, written, disk, closed>>

Init ==
  /\ logged = 0
  /\ written = <<>>
  /\ disk = <<>>
  /\ closed = FALSE

Log ==
  /\ ~closed
  /\ logged' = logged + 1
  /\ UNCHANGED <<written, disk, closed>>

Write ==
  /\ Len(written) < logged
  /\ written' = Append(written, Len(written) + 1)
  /\ UNCHANGED <<logged, disk, closed>>

Sync ==
  /\ disk' = written
  /\ UNCHANGED <<logged, written, closed>>

Close ==
  /\ ~closed
  /\ Len(written) = logged
  /\ disk' = written
  /\ closed' = TRUE
  /\ UNCHANGED <<logged, written>>

Next == Log \/ Write \/ Sync \/ Close

Spec == Init /\ [][Next]_vars

=============================================================================
