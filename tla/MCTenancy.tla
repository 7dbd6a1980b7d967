----------------------------- MODULE MCTenancy ------------------------------
(***************************************************************************)
(* Three small instances in one run.                                       *)
(* "projects": two projects competing for one name, two rows of any kind,  *)
(* a credential and two concurrent requests over two seconds, so that a    *)
(* project can be deleted, created again and restored while a request      *)
(* holds its id.  "members": the same for project members, with two users  *)
(* that may be deleted, two names, and a public and a private repository.  *)
(* "accounts": two accounts, a session, a key, two requests, three times.  *)
(***************************************************************************)
EXTENDS Tenancy, TLC

CONSTANTS p1, p2, x1, x2, k1, n1, m1, m2, u1, u2, c1, c2, r1, r2, a1, a2, l1, l2, s1

Logins == (a1 :> l1) @@ (a2 :> l2)

Symmetry == Permutations(PIds) \cup Permutations(Rows) \cup Permutations(Clients)
            \cup Permutations(Users) \cup Permutations(MemberNames)
=============================================================================
