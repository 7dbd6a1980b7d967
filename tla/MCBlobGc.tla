------------------------------ MODULE MCBlobGc ------------------------------
(* Instances of BlobGc for TLC.                                            *)
EXTENDS BlobGc, TLC

CONSTANTS b1, b2, r1, r2, c1, c2, p1, g1, g2, none

Symmetry == Permutations(Blobs) \cup Permutations(Repos)
       \cup Permutations(Clients) \cup Permutations(Collectors)
=============================================================================
