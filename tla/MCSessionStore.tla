-------------------------- MODULE MCSessionStore --------------------------
(***************************************************************************)
(* SessionStore with three ids for a store of two, two requests, and a     *)
(* clock that outlives the TTL.                                            *)
(***************************************************************************)
EXTENDS SessionStore, TLC

StoreSymmetry == Permutations(Threads) \cup Permutations(Objects) \cup Permutations(Ids)
=============================================================================
