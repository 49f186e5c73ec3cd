----------------------------- MODULE MCMemPool -----------------------------
(* Model-checking instance of MemPool: five blocks and five holders, so  *)
(* that the pool can be filled, and freed and refilled out of order.       *)
EXTENDS MemPool, TLC

CONSTANTS h1, h2, h3, h4, h5

MCHolder == {h1, h2, h3, h4, h5}

MCPoolSize == 5

\* Holders are interchangeable: permuting them maps behaviours to behaviours.
MCSymmetry == Permutations(MCHolder)

=============================================================================
