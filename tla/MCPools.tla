------------------------------ MODULE MCPools -------------------------------
(* Instance of RecycledPools for TLC; pools are interchangeable, and so are pushers. *)
EXTENDS RecycledPools, TLC

PoolSymmetry == Permutations(Pools) \cup Permutations(Pushers)
=============================================================================
