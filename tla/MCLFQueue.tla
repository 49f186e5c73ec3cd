----------------------------- MODULE MCLFQueue -----------------------------
(* Model-checking instance of LFQueue: three slots, so that the indices    *)
(* wrap around, and nine pushes, three times round the buffer, with the queue     *)
(* full and empty on the way.                                              *)
EXTENDS LFQueue

MCCapacity == 3

MCMaxPush == 9

=============================================================================
