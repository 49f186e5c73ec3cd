------------------------------ MODULE FifoQueue ------------------------------
(***************************************************************************)
(* What LFQueue promises its one producer and its one consumer (spec 4.2): *)
(* a bounded first-in first-out queue.  The producer sends 1, 2, 3, ...    *)
(* while fewer than Capacity elements are queued; the consumer receives    *)
(* the oldest queued element; an element sent is eventually received.      *)
(* Nothing is said of slots, indices or of how the two threads share them. *)
(***************************************************************************)
EXTENDS Naturals, Sequences

CONSTANTS Capacity, MaxPush

VARIABLES
  queue,      \* the elements sent and not yet received, oldest first
  sent,       \* how many elements the producer has sent
  received    \* the elements the consumer has received, in order

vars == <<queue, sent, received>>

Init ==
  /\ queue = <<>>
  /\ sent = 0
  /\ received = <<>>

Send ==
  /\ sent < MaxPush
  /\ Len(queue) < Capacity
  /\ sent' = sent + 1
  /\ queue' = Append(queue, sent + 1)
  /\ UNCHANGED received

Receive ==
  /\ queue # <<>>
  /\ received' = Append(received, Head(queue))
  /\ queue' = Tail(queue)
  /\ UNCHANGED sent

Next == Send \/ Receive

SafeSpec == Init /\ [][Next]_vars

\* The consumer keeps receiving while something is queued.
Spec == SafeSpec /\ WF_vars(Receive)

=============================================================================
