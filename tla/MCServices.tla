----------------------------- MODULE MCServices -----------------------------
(***************************************************************************)
(* Small instances of the components of Services, in one run.              *)
(*   "s3"        two buckets of one name, one upload, two requests         *)
(*   "packages"  two versions of a package of each protocol, two requests, *)
(*               three uploads                                             *)
(*   "mirror"    three upstream items of each protocol, two workers, two   *)
(*               jobs and a change of the upstream                         *)
(*   "scans"     two scans of an artifact and two downloads                *)
(*   "lists"     a walk through five entries in pages of two, with two     *)
(*               writes meanwhile                                          *)
(*   "publish"   the index of two suites or projects with two files each,  *)
(*               two writers, two writes                                   *)
(*   "uploads"   one upload session, two requests, three chunks            *)
(*   "trivy"     three databases uploaded or pulled by two administrators  *)
(*   "git"       two references, two pushes, three commits                 *)
(*   "audit"     five events of two requests in files of one line          *)
(*   "limiter"   three peers, a table of two, one slot, two requests       *)
(***************************************************************************)
EXTENDS Services, TLC

CONSTANTS c1, c2, b1, b2, i1

Prefixes == {<<1, 1, 1, 0, 2>>, <<0, 1, 1, 2, 2>>, <<0, 0, 1, 1, 0>>}
Listed == {<<1, 1, 1>>, <<1, 0, 0>>}

Symmetry == Permutations(Clients)
=============================================================================
