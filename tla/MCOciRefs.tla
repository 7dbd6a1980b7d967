----------------------------- MODULE MCOciRefs -----------------------------
(* Instances of OciRefs for TLC.                                           *)
EXTENDS OciRefs, TLC

CONSTANTS r1, r2, t1, t2, b1, b2, i1, i2, x1, x2, none, c1, c2

Symmetry == Permutations(Repos) \cup Permutations(Tags) \cup Permutations(Clients)

(* Two images that share a blob; two indexes, the second nested.           *)
NestedRefs == (i1 :> {b1}) @@ (i2 :> {b1, b2}) @@ (x1 :> {i1, i2}) @@ (x2 :> {i1, x1})

(* The instance is two: one repository with two tags, and two repositories *)
(* with one tag.  States that use two of both are cut off.                 *)
UsedTags == {x[2] : x \in {y \in Repos \X Tags : db.tags[y] # None}}
            \cup {req[c].tag : c \in {k \in Clients : req[k] # Idle}}
UsedRepos == {x[1] : x \in {y \in Repos \X Tags : db.tags[y] # None}}
             \cup {x[1] : x \in db.manifests \cup db.links}
             \cup {req[c].repo : c \in {k \in Clients : req[k] # Idle}}
OneRepoOrOneTag == Cardinality(UsedRepos) <= 1 \/ Cardinality(UsedTags) <= 1
=============================================================================
