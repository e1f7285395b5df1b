------------------------------ MODULE MCChild -------------------------------
(* Instances of ChildProcess for TLC: connections are interchangeable. *)
EXTENDS ChildProcess, TLC

ConnSymmetry == Permutations(Conns)
=============================================================================
