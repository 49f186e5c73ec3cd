---------------------------- MODULE OutboundStream ----------------------------
(***************************************************************************)
(* What McastSocket's send path does to the bytes send() is given (spec    *)
(* 4.4 and 9): each sendAndRecv() hands every byte queued since the last   *)
(* one to the kernel once; the kernel takes a prefix of them, and the rest *)
(* are dropped.  The peer sees bytes at most once and in order, with gaps  *)
(* where a send was partial.  Nothing is said of the buffer or its index.  *)
(***************************************************************************)
EXTENDS Naturals, Sequences

VARIABLES
  queued,     \* bytes send() has been given
  flushed,    \* bytes handed to the kernel, taken or dropped
  wire        \* the numbers of the bytes the kernel took, in order

vars == <<queued, flushed, wire>>

Init ==
  /\ queued = 0
  /\ flushed = 0
  /\ wire = <<>>

\* send() queues more bytes.
Queue ==
  /\ queued' > queued
  /\ UNCHANGED <<flushed, wire>>

\* One tick: the kernel takes the first k of the bytes not yet flushed, and
\* all of them count as flushed.
Flush ==
  /\ \E k \in 0 .. queued - flushed :
       wire' = wire \o [i \in 1 .. k |-> flushed + i]
  /\ flushed' = queued
  /\ UNCHANGED queued

Next == Queue \/ Flush

Spec == Init /\ [][Next]_vars

=============================================================================
