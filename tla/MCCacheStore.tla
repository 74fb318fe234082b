---------------------------- MODULE MCCacheStore ----------------------------
(***************************************************************************)
(* Three concurrent calls on a cache with room for one entry, two digests, *)
(* and one crashed lease from before.                                      *)
(***************************************************************************)
EXTENDS CacheStore, TLC

CONSTANTS c1, c2, c3

MCCall == {c1, c2, c3}
MCMetadata == {[private |-> TRUE, expired |-> TRUE], [private |-> FALSE, expired |-> FALSE]}
CallSymmetry == Permutations(MCCall)
=============================================================================
