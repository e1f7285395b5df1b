------------------------------ MODULE MCParent ------------------------------
(* Instance of ServerParent for TLC; process ids are interchangeable. *)
EXTENDS ServerParent, TLC

PidSymmetry == Permutations(Pids)
=============================================================================
