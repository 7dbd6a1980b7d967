----------------------------- MODULE Membership -----------------------------
(***************************************************************************)
(* Project members, the authorisation policy, and what each actor sees:    *)
(* internal/auth/policy.go and membership.go, internal/metadata/members.go,*)
(* the member handlers of internal/api/admin_phase1.go, the registry       *)
(* catalog of internal/protocol/oci and the listings of internal/api.      *)
(*                                                                         *)
(* A request is authenticated and checked, then resolves the names in its  *)
(* URL, then runs its transaction; others run in between.  A project's     *)
(* name can be used again after its deletion.  Every project owns the      *)
(* repositories of Repos; deleting and restoring a project takes and       *)
(* brings back all of them (module Projects).  Left out: pages and sizes.  *)
(***************************************************************************)
EXTENDS Integers, FiniteSets

CONSTANTS PIds, Users, Clients, None,
          Names,            \* of projects
          Repos,            \* the docker repositories every project owns,
          Public            \* and those of them that are public_read

VARIABLES
    pst,    \* pst[p]: the row of projects: "none", "live" or "deleted"
    name,   \* name[p]: its name
    role,   \* role[p][u]: the row of project_members, "none" without one
    users,  \* the users whose row is live
    req     \* req[c]: the request client c has in flight

vars == <<pst, name, role, users, req>>

Roles == {"viewer", "maintainer"}
YesNo == {"yes", "no"}

(* auth.Actor: id and login of a user (one super-admin, Root, is a member  *)
(* of nothing), or the project and role of a project's key.                *)
Actor == [kind : {"anon", "user", "apikey", "s3key"}, id : Users \cup {None},
          super : YesNo, must : YesNo, scope : PIds \cup {None},
          keyrole : Roles \cup {None}]

Anonymous == [kind |-> "anon", id |-> None, super |-> "no", must |-> "no",
              scope |-> None, keyrole |-> None]
Root == [Anonymous EXCEPT !.kind = "user", !.super = "yes"]
Idle == [op |-> "idle"]

Init ==
    /\ pst = [p \in PIds |-> "none"]
    /\ name = [p \in PIds |-> None]
    /\ role = [p \in PIds |-> [u \in Users |-> "none"]]
    /\ users = Users
    /\ req = [c \in Clients |-> Idle]

-----------------------------------------------------------------------------
LiveProjects == {p \in PIds : pst[p] = "live"}
FindByName(n) == {p \in LiveProjects : name[p] = n}

(* The actors the middleware can build now: sessions and keys of live      *)
(* users, keys of live projects (their rows are revoked with the project). *)
UserActor(k, u, m) == [Anonymous EXCEPT !.kind = k, !.id = u, !.must = m]
UserActors == {UserActor(k, u, m) : k \in {"user", "apikey"}, u \in users, m \in YesNo}
ProjectKey(p, r) == [Anonymous EXCEPT !.kind = "apikey", !.scope = p, !.keyrole = r]
ProjectKeys == {ProjectKey(p, r) : p \in LiveProjects, r \in Roles}
S3Keys == {[Anonymous EXCEPT !.kind = "s3key", !.scope = p] : p \in LiveProjects}
Actors == {Anonymous, Root} \cup UserActors \cup ProjectKeys

(* ListProjectRolesForUser, ListProjectIDsForUser: live projects only.     *)
ListProjectIDsForUser(u) == {p \in LiveProjects : role[p][u] # "none"}
ListProjectRolesForUser(u) == [p \in ListProjectIDsForUser(u) |-> role[p][u]]

(* ResolveMembership: the roles put in the request's context.              *)
ResolveMembership(a) ==
    IF a.kind = "apikey" /\ a.scope # None THEN [p \in {a.scope} |-> a.keyrole]
    ELSE IF a.kind \in {"user", "apikey"} /\ a.id # None THEN ListProjectRolesForUser(a.id)
    ELSE [p \in {} |-> None]

-----------------------------------------------------------------------------
(* The policy.                                                             *)

SelfActions == {"change_own_password", "edit_own", "delete_own"}
SuperActions == {"user.create", "user.delete", "project.create", "project.delete",
                 "tls.upload", "bootstrap.apply", "gc.trigger", "e2e.reset",
                 "s3.admin"}
MaintainerActions == {"repo.create", "repo.delete", "repo.update", "repo.wipe",
                      "member.add", "member.remove", "member.role",
                      "cred.manage", "s3_key.manage", "api_key.manage",
                      "package.upload", "git.write"}
AllActions == SelfActions \cup SuperActions \cup MaintainerActions
              \cup {"login", "logout", "s3.read", "s3.write", "git.read", "repo.read"}

memberRoleOfProject(roles, p) == IF p \in DOMAIN roles THEN roles[p] ELSE "none"

(* The target: a project or one of its repositories, public or not.        *)
Target(p, repo) == [p |-> p, public |-> IF repo \in Public THEN "yes" ELSE "no",
                    self |-> "yes"]

(* Can: the first rule that applies decides.                               *)
Can(a, action, t) ==
    LET r == memberRoleOfProject(ResolveMembership(a), t.p)
    IN  IF a.kind = "anon" THEN t.public = "yes" /\ action \in {"repo.read", "git.read"}
        ELSE IF a.must = "yes" /\ action \notin {"change_own_password", "logout"} THEN FALSE
        ELSE IF a.super = "yes" THEN TRUE
        ELSE IF action \in {"login", "logout"} THEN TRUE
        ELSE IF action \in SelfActions THEN t.self = "yes" /\ a.id # None
        ELSE IF action \in SuperActions THEN FALSE
        ELSE IF action \in MaintainerActions THEN r = "maintainer"
        ELSE IF action \in {"s3.read", "s3.write"} /\ a.kind = "s3key" THEN a.scope = t.p
        ELSE IF action = "s3.write" THEN r = "maintainer"
        ELSE IF action = "repo.read" THEN t.public = "yes" \/ r # "none"
        ELSE r # "none"

-----------------------------------------------------------------------------
(* What an actor sees.                                                     *)

(* nil, every project, for a super-admin.                                  *)
visibleProjectIDs(a) ==
    IF a.super = "yes" THEN PIds
    ELSE IF a.scope # None THEN {a.scope}
    ELSE IF a.id # None THEN ListProjectIDsForUser(a.id) ELSE {}

handleListProjects(a) == LiveProjects \cap visibleProjectIDs(a)

actorIsProjectMember(a, p) ==
    /\ a.kind # "anon"
    /\ \/ a.super = "yes"
       \/ a.scope = p
       \/ a.scope = None /\ a.id # None /\ role[p][a.id] # "none"

(* The handlers under a project's name answer the members of the project:  *)
(* its members, repositories, sync jobs and audit trail.                   *)
ProjectFor(a, n) == {p \in FindByName(n) : actorIsProjectMember(a, p)}
handleGetProject(a, n) ==
    {[p |-> p, members |-> {u \in users : role[p][u] # "none"}, repos |-> Repos] :
        p \in ProjectFor(a, n)}
handleListRepos(a, n) == {<<p, x>> : p \in ProjectFor(a, n), x \in Repos}
handleListSyncJobs(a, n) == {<<p, x>> : p \in ProjectFor(a, n), x \in Repos}
handleGetSyncJob(a, n, x) == {p \in ProjectFor(a, n) : x \in Repos}
handleProjectActivity(a, n) == ProjectFor(a, n)

(* SearchAll joins live repositories of live projects; handleSearch keeps  *)
(* the results whose project's name is one the actor belongs to.  Results  *)
(* without a project (CVEs) are for the super-admin.                       *)
SearchAll == {<<p, x>> : p \in LiveProjects, x \in Repos}
handleSearch(a) ==
    LET names == {name[p] : p \in LiveProjects \cap visibleProjectIDs(a)}
    IN  {s \in SearchAll : a.super = "yes" \/ name[s[1]] \in names}

(* ListDockerCatalog over the projects the catalog handler collects.       *)
ListDockerCatalog(scope) ==
    {s \in SearchAll : s[1] \in scope \/ s[2] \in Public}

\* Mutant: the projects of a key are left out.
catalogWithoutKeys(a) ==
    ListDockerCatalog(IF a.super = "yes" THEN PIds
                      ELSE IF a.id # None THEN ListProjectIDsForUser(a.id) ELSE {})

catalog(a) ==
    ListDockerCatalog(IF a.super = "yes" THEN PIds
                      ELSE (IF a.id # None THEN ListProjectIDsForUser(a.id) ELSE {})
                           \cup ({a.scope} \ {None}))

(* The gates of the REST tree and of the buckets.                          *)
RequireCanWith(a, action, n) == {p \in FindByName(n) : Can(a, action, Target(p, None))}
resolveBucketAccess(a, n, write) ==
    RequireCanWith(a, IF write THEN "s3.write" ELSE "s3.read", n)

-----------------------------------------------------------------------------
(* Changing members.                                                       *)

Maintainers(p) == {u \in users : role[p][u] = "maintainer"}

\* Mutant: rows of deleted users count as well.
NotLastMaintainerAnyUser(p) == Cardinality({u \in Users : role[p][u] = "maintainer"}) > 1

(* The count both guarded transactions take.                               *)
NotLastMaintainer(p) == Cardinality(Maintainers(p)) > 1

SetRole(p, u, r) == role' = [role EXCEPT ![p][u] = r]
Done(c) == req' = [req EXCEPT ![c] = Idle]

(* The middleware checks the route's action for the project of that name.  *)
CheckMemberRoute(c) ==
    /\ req[c].op = "idle"
    /\ \E a \in Actors, p \in LiveProjects :
          /\ p \in RequireCanWith(a, "member.add", name[p])
          /\ req' = [req EXCEPT ![c] =
                       [op |-> "allowed", super |-> a.super, p |-> p]]
    /\ UNCHANGED <<pst, name, role, users>>

(* The handler looks the names up again.                                   *)
ResolveMember(c) ==
    /\ req[c].op = "allowed"
    /\ \E p \in FindByName(name[req[c].p]), u \in users :
          req' = [req EXCEPT ![c] = [op |-> "member", super |-> req[c].super,
                                     auth |-> None, p |-> p, u |-> u]]
    /\ UNCHANGED <<pst, name, role, users>>

(* The role of a new member defaults to viewer.                            *)
RequestedRole(r) == IF r = "" THEN "viewer" ELSE r

handleAddMember(c) ==
    LET p == req[c].p  u == req[c].u IN
    /\ req[c].op = "member" /\ Done(c)
    /\ role[p][u] = "none"
    /\ \E r \in Roles \cup {""} : SetRole(p, u, RequestedRole(r))
    /\ UNCHANGED <<pst, name, users>>

Remove(p, u) == SetRole(p, u, "none")

RemoveGuarded(p, u) ==
    /\ role[p][u] = "maintainer" => NotLastMaintainer(p)
    /\ SetRole(p, u, "none")

handleRemoveMember(c) ==
    LET p == req[c].p  u == req[c].u IN
    /\ req[c].op = "member" /\ Done(c)
    /\ IF req[c].super = "yes" THEN Remove(p, u) ELSE RemoveGuarded(p, u)
    /\ UNCHANGED <<pst, name, users>>

(* handlePatchMember: the project is resolved once, checked, and changed.  *)
ResolvePatch(c) ==
    /\ req[c].op = "idle"
    /\ \E a \in Actors, p \in LiveProjects, u \in users :
          /\ Can(a, "member.role", Target(p, None))
          /\ req' = [req EXCEPT ![c] = [op |-> "patch", super |-> a.super,
                                        auth |-> p, p |-> p, u |-> u]]
    /\ UNCHANGED <<pst, name, role, users>>

UpdateRole(p, u, r) == role[p][u] # "none" /\ SetRole(p, u, r)

UpdateRoleGuarded(p, u, r) ==
    /\ role[p][u] # "none"
    /\ role[p][u] = "maintainer" /\ r = "viewer" => NotLastMaintainer(p)
    /\ SetRole(p, u, r)

\* Mutant: the project is looked up again by its name.
PatchedProjectByName(c) ==
    LET again == FindByName(name[req[c].p])
    IN  IF again = {} THEN req[c].p ELSE CHOOSE p \in again : TRUE

PatchedProject(c) == req[c].p

handlePatchMember(c) ==
    LET p == PatchedProject(c)  u == req[c].u IN
    /\ req[c].op = "patch" /\ Done(c)
    /\ \E r \in Roles : IF req[c].super = "yes" THEN UpdateRole(p, u, r)
                        ELSE UpdateRoleGuarded(p, u, r)
    /\ UNCHANGED <<pst, name, users>>

(* A request ends without a write: refused, not found, a conflict.         *)
Drop(c) == req[c].op # "idle" /\ Done(c) /\ UNCHANGED <<pst, name, role, users>>

-----------------------------------------------------------------------------
(* Projects and users change underneath, by super-admins' requests.  Only  *)
(* a creator who is no super-admin becomes a member, and Can lets nobody   *)
(* else create projects; a deleted user's rows of project_members stay.    *)

handleCreateProject ==
    /\ \E p \in PIds, n \in Names :
          /\ pst[p] = "none" /\ FindByName(n) = {}
          /\ pst' = [pst EXCEPT ![p] = "live"] /\ name' = [name EXCEPT ![p] = n]
    /\ UNCHANGED <<role, users, req>>

handleDeleteProject ==
    /\ \E p \in LiveProjects : pst' = [pst EXCEPT ![p] = "deleted"]
    /\ UNCHANGED <<name, role, users, req>>

RestoreIfNameFree ==
    /\ \E p \in PIds : /\ pst[p] = "deleted" /\ FindByName(name[p]) = {}
                       /\ pst' = [pst EXCEPT ![p] = "live"]
    /\ UNCHANGED <<name, role, users, req>>

handleDeleteUser ==
    /\ \E u \in users : users' = users \ {u}
    /\ UNCHANGED <<pst, name, role, req>>

Next ==
    \/ handleCreateProject \/ handleDeleteProject \/ RestoreIfNameFree \/ handleDeleteUser
    \/ \E c \in Clients :
          \/ CheckMemberRoute(c) \/ ResolveMember(c) \/ ResolvePatch(c) \/ Drop(c)
          \/ handleAddMember(c) \/ handleRemoveMember(c) \/ handlePatchMember(c)

Spec == Init /\ [][Next]_vars

-----------------------------------------------------------------------------
TypeOK ==
    /\ pst \in [PIds -> {"none", "live", "deleted"}]
    /\ name \in [PIds -> Names \cup {None}]
    /\ role \in [PIds -> [Users -> Roles \cup {"none"}]]
    /\ users \subseteq Users

Finishes(c) == req[c].op \in {"member", "patch"} /\ req'[c] = Idle

(* A project that has a live maintainer keeps one whatever maintainers do  *)
(* to each other at the same time, deleted accounts among them included:   *)
(* only a super-admin's request or the deletion of an account takes the    *)
(* last one (members.go:201, 243).                                         *)
LastMaintainerStep ==
    \A p \in PIds :
       Maintainers(p) # {} /\ {u \in users' : role'[p][u] = "maintainer"} = {}
       => users' # users \/ \E c \in Clients : Finishes(c) /\ req[c].super = "yes"

(* A role is changed only in the project the request was authorised for,   *)
(* although its name may belong to another project by then                 *)
(* (admin_phase1.go:904).  Adding and removing members resolve the name    *)
(* twice and do not promise it.                                            *)
RoleChangeStep ==
    \A p \in PIds, u \in Users :
       role[p][u] # role'[p][u] /\ role[p][u] # "none" /\ role'[p][u] # "none"
       => \E c \in Clients : Finishes(c) /\ req[c].op = "patch" /\ req[c].auth = p

(* For an actor without a pending password change the listings show        *)
(* exactly what the policy lets it read: the catalog the repositories of   *)
(* repo.read, the project list the projects whose own page answers, the    *)
(* search what that project's repository list shows, and a bucket is       *)
(* readable where the project is.  Writing stays with maintainers, and a   *)
(* key of a project does nothing outside it.                               *)
ListingsMatchPolicy ==
    /\ \A a \in Actors : a.must = "no" =>
       /\ catalog(a) = {s \in SearchAll : Can(a, "repo.read", Target(s[1], s[2]))}
       /\ a.kind # "anon" =>
            /\ handleListProjects(a) = UNION {handleProjectActivity(a, name[p]) : p \in PIds}
            /\ handleSearch(a) = UNION {handleListRepos(a, name[p]) : p \in PIds}
       /\ \A p \in PIds :
            /\ resolveBucketAccess(a, name[p], FALSE) = {d.p : d \in handleGetProject(a, name[p])}
            /\ \A s \in handleListSyncJobs(a, name[p]) :
                 s[1] \in handleGetSyncJob(a, name[p], s[2])
            /\ resolveBucketAccess(a, name[p], TRUE)
                 = RequireCanWith(a, "repo.update", name[p])
            /\ \A x \in FindByName(name[p]) :
                 Can(a, "repo.update", Target(x, None))
                 => a.super = "yes" \/ a.keyrole = "maintainer" \/ a.id \in Maintainers(x)
    /\ \A a \in ProjectKeys \cup S3Keys, action \in AllActions \ {"login", "logout"}, p \in PIds :
         Can(a, action, Target(p, None)) => p = a.scope
=============================================================================
