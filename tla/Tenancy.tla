------------------------------ MODULE Tenancy -------------------------------
(***************************************************************************)
(* Accounts, projects and project members side by side: part says which    *)
(* one a behaviour is of.  They share no state here; what connects them in *)
(* the code is the actor of a request and the ids of projects and users.   *)
(***************************************************************************)
EXTENDS Accounts

CONSTANTS PIds, Rows, CIds, Names, MemberNames, Users, Repos, Public, MaxStamp, MaxIndex

(* Ids of rows; the public repositories are some of those a project owns.  *)
ASSUME IdsAssumption ==
    /\ None \notin PIds \cup Users \cup Repos \cup CIds /\ "gone" \notin PIds
    /\ IsFiniteSet(Users) /\ Public \subseteq Repos

VARIABLES part, proj, row, conf, art, cred, preq, stamp, pst, name, role, users, mreq

P == INSTANCE Projects WITH req <- preq, now <- stamp, MaxTime <- MaxStamp
M == INSTANCE Membership WITH req <- mreq, Names <- MemberNames

pvars == <<proj, row, conf, art, cred, preq, stamp>>
mvars == <<pst, name, role, users, mreq>>
tvars == <<part, pvars, mvars, vars>>

(* The variables of the parts that are off; accounts stay as they begin.   *)
POff == proj = 0 /\ row = 0 /\ conf = 0 /\ art = 0 /\ cred = 0 /\ preq = 0 /\ stamp = 0
MOff == pst = 0 /\ name = 0 /\ role = 0 /\ users = 0 /\ mreq = 0

TInit ==
    /\ Init
    /\ \/ part = "projects" /\ P!Init /\ MOff
       \/ part = "members" /\ M!Init /\ POff
       \/ part = "accounts" /\ POff /\ MOff

TNext ==
    \/ part = "projects" /\ P!Next /\ UNCHANGED <<part, mvars, vars>>
    \/ part = "members" /\ M!Next /\ UNCHANGED <<part, pvars, vars>>
    \/ part = "accounts" /\ Next /\ UNCHANGED <<part, pvars, mvars>>

TSpec == TInit /\ [][TNext]_tvars

-----------------------------------------------------------------------------
(* The properties of accounts are those of their module.  Of the others,   *)
(* one property of each includes the types of its variables.               *)

(* Every artifact of a live repository is in the search index, whatever    *)
(* uploads raced the deletion of the repository or its project (fts.go);   *)
(* drift purge is on only in mirrors, and a repository names a credential  *)
(* of its own project (api/repos.go, mirror_validate.go).                  *)
RepositoriesConsistent ==
    part = "projects" => P!TypeOK /\ P!IndexComplete /\ P!MirrorRules

(* Restoring a project brings back every row its deletion took and nobody  *)
(* revoked since, and none that was revoked by itself, unless in the very  *)
(* second of the project's deletion (projects.go:116, 122, 349).           *)
RestoreExact == [][part = "projects" => P!RestoreStep]_tvars

(* Maintainers acting on each other never leave a project without one      *)
(* (members.go:201, 243).                                                  *)
LastMaintainerKept == [][part = "members" => M!LastMaintainerStep]_tvars

(* A role changes only in the project its request was authorised for, not  *)
(* in another one of the same name (admin_phase1.go:904).                  *)
RoleChangeIsAuthorised == [][part = "members" => M!RoleChangeStep]_tvars

(* The catalog, the listings and the search show what the policy lets an   *)
(* actor read (policy.go, catalog.go, visibility.go, search.go).           *)
ListingsMatchPolicy == part = "members" => M!TypeOK /\ M!ListingsMatchPolicy
=============================================================================
