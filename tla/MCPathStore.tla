---------------------------- MODULE MCPathStore -----------------------------
(* Instances of PathStore for TLC.                                         *)
EXTENDS PathStore, TLC

CONSTANTS w1, w2, w3, d1, d2, v1, v2, h1, h2, e1, e2, e3

Symmetry ==
    Permutations(Writers) \cup Permutations(Deleters) \cup Permutations(Versions)
        \cup Permutations(Holders) \cup Permutations(Entries)
=============================================================================
