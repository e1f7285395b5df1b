----------------------------- MODULE MCConnPool -----------------------------
(* Instances of ResList and ConnPool for TLC. *)
EXTENDS ConnPool, TLC

Symmetry == Permutations(Threads) \cup Permutations(Resources)


=============================================================================
