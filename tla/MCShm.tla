------------------------------- MODULE MCShm --------------------------------
(* Instances of ShmCb for TLC. *)
EXTENDS ShmCb, TLC

CONSTANTS id1, id2, k1, k2, short, long

MCHash == id1 :> k1 @@ id2 :> k2
MCSize == short :> 1 @@ long :> 3

(* Everything under the first id, short values with the later expiry under *)
(* the second.                                                             *)
MCRequests == ({id1} \X Values \X Expiries) \cup {<<id2, short, 2>>}
=============================================================================
