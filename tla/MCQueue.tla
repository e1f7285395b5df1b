------------------------------ MODULE MCQueue -------------------------------
(* Instances of BlockingQueue for TLC. *)
EXTENDS BlockingQueue, TLC

Symmetry == Permutations(Threads) \cup Permutations(Data)
=============================================================================
