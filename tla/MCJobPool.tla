----------------------------- MODULE MCJobPool -----------------------------
(* Instances of JobPool for TLC.                                           *)
EXTENDS JobPool, TLC

CONSTANTS j1, j2, j3, w1, w2

\* The sync pool: two syncs of one repository, of which one is a helm sync,
\* and a pull.
SyncKind == (j1 :> "helm_sync") @@ (j2 :> "mirror_sync") @@ (j3 :> "pull_external")
SyncRepo == (j1 :> "r1") @@ (j2 :> "r1") @@ (j3 :> "r2")

\* The scan pool.
ScanKind == [j \in Jobs |-> "scan"]
ScanRepo == [j \in Jobs |-> "r1"]
=============================================================================
