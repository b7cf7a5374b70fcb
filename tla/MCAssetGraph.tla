---------------------------- MODULE MCAssetGraph ----------------------------
(* A small instance of AssetGraph for TLC. *)
EXTENDS AssetGraph, TLC

Symmetry == Permutations(Sources) \cup Permutations(Syncers)

(* One source changes its status, one is deleted, and one relation at a time *)
(* is added by a user.                                                       *)
FewChanges ==
    /\ Cardinality({s \in Sources : status'[s] > 0}) <= 1
    /\ Cardinality({s \in Sources : source'[s] = "gone"}) <= 1
    /\ Cardinality(manual') <= 1
=============================================================================
