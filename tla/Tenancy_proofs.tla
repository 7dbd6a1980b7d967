---------------------------- MODULE Tenancy_proofs ----------------------------
(***************************************************************************)
(* Proofs about accounts, projects and their members, for any projects,    *)
(* rows, users, repositories and concurrent requests: the parts of module  *)
(* Tenancy.                                                                *)
(*                                                                         *)
(* Members.  That the listings agree with the policy rests on one fact     *)
(* about the database, that live projects have different names: the search *)
(* goes by the names of the projects an actor sees.  The action properties *)
(* need what a request in flight has resolved (MemberRequests).            *)
(***************************************************************************)
EXTENDS Tenancy, FiniteSetTheorems, TLAPS

(* What the request of a client holds once its names are resolved.         *)
MemberRequests ==
    /\ DOMAIN mreq = Clients
    /\ \A c \in Clients :
          /\ mreq[c].op # "idle" => mreq[c].p \in PIds
          /\ mreq[c].op \in {"member", "patch"} => mreq[c].u \in Users
          /\ mreq[c].op = "patch" => mreq[c].auth = mreq[c].p

(* Live projects have different names.                                     *)
NamesUnique ==
    \A p, q \in M!LiveProjects : name[p] = name[q] => p = q

MemberInv == M!TypeOK /\ MemberRequests /\ NamesUnique

-----------------------------------------------------------------------------
(* Steps.                                                                  *)

\* A step of the composition is a step of the part that is on.
LEMMA PartSteps ==
    ASSUME [TNext]_tvars
    PROVE  /\ part' = part
           /\ part = "members" => M!Next \/ UNCHANGED mvars
           /\ part = "projects" => P!Next \/ UNCHANGED pvars
<1>1. CASE UNCHANGED tvars
  BY <1>1 DEF tvars
<1>2. CASE TNext
  BY <1>2 DEF TNext
<1> QED
  BY <1>1, <1>2

\* A request ends; what the others hold stays.
LEMMA MemberDone ==
    ASSUME MemberRequests, NEW c \in Clients, M!Done(c)
    PROVE  MemberRequests'
<1>1. M!Idle.op = "idle"
  BY DEF M!Idle
<1>2. PICK r : r.op = "idle" /\ mreq' = [mreq EXCEPT ![c] = r]
  BY <1>1 DEF M!Done
<1> QED
  BY <1>2 DEF MemberRequests

\* A role is written.
LEMMA SetRoleTypes ==
    ASSUME M!TypeOK, NEW p \in PIds, NEW u \in Users, NEW r \in M!Roles \cup {"none"},
           M!SetRole(p, u, r)
    PROVE  /\ role' \in [PIds -> [Users -> M!Roles \cup {"none"}]]
           /\ role'[p][u] = r
           /\ \A q \in PIds, v \in Users : q # p \/ v # u => role'[q][v] = role[q][v]
<1>1. role[p] \in [Users -> M!Roles \cup {"none"}]
  BY DEF M!TypeOK
<1>2. [role[p] EXCEPT ![u] = r] \in [Users -> M!Roles \cup {"none"}]
  BY <1>1
<1>3. role' = [role EXCEPT ![p] = [role[p] EXCEPT ![u] = r]]
  BY <1>1 DEF M!TypeOK, M!SetRole
<1> QED
  BY <1>1, <1>2, <1>3 DEF M!TypeOK

\* Three transactions write a role: of a pair the request has resolved.
LEMMA RoleWrites ==
    ASSUME MemberInv, NEW c \in Clients,
           M!handleAddMember(c) \/ M!handleRemoveMember(c) \/ M!handlePatchMember(c)
    PROVE  /\ mreq[c].op \in {"member", "patch"} /\ M!Done(c)
           /\ mreq[c].p \in PIds /\ mreq[c].u \in Users
           /\ pst' = pst /\ name' = name /\ users' = users
           /\ \E r \in M!Roles \cup {"none"} : M!SetRole(mreq[c].p, mreq[c].u, r)
<1>1. CASE M!handleAddMember(c)
  <2>1. \A r \in M!Roles \cup {""} : M!RequestedRole(r) \in M!Roles
    BY DEF M!RequestedRole, M!Roles
  <2> QED
    BY <1>1, <2>1 DEF M!handleAddMember, MemberInv, MemberRequests
<1>2. CASE M!handleRemoveMember(c)
  BY <1>2 DEF M!handleRemoveMember, M!Remove, M!RemoveGuarded, MemberInv, MemberRequests
<1>3. CASE M!handlePatchMember(c)
  BY <1>3 DEF M!handlePatchMember, M!PatchedProject, M!UpdateRole, M!UpdateRoleGuarded,
              MemberInv, MemberRequests
<1> QED
  BY <1>1, <1>2, <1>3

\* The steps that resolve names write no table.
LEMMA ResolveKeeps ==
    ASSUME MemberInv, NEW c \in Clients,
           M!CheckMemberRoute(c) \/ M!ResolveMember(c) \/ M!ResolvePatch(c)
    PROVE  MemberInv' /\ UNCHANGED <<pst, name, role, users>>
<1>0. M!LiveProjects \subseteq PIds /\ users \subseteq Users
      /\ \A n : M!FindByName(n) \subseteq PIds
  BY DEF MemberInv, M!TypeOK, M!LiveProjects, M!FindByName
<1>1. UNCHANGED <<pst, name, role, users>>
  BY DEF M!CheckMemberRoute, M!ResolveMember, M!ResolvePatch
<1>2. PICK r : /\ mreq' = [mreq EXCEPT ![c] = r] /\ r.op # "idle" /\ r.p \in PIds
               /\ r.op \in {"member", "patch"} => r.u \in Users
               /\ r.op = "patch" => r.auth = r.p
  <2>1. CASE M!CheckMemberRoute(c)
    BY <2>1, <1>0 DEF M!CheckMemberRoute
  <2>2. CASE M!ResolveMember(c)
    BY <2>2, <1>0 DEF M!ResolveMember
  <2>3. CASE M!ResolvePatch(c)
    <3>1. PICK a \in M!Actors, p \in M!LiveProjects, u \in users :
            mreq' = [mreq EXCEPT ![c] = [op |-> "patch", super |-> a.super, auth |-> p,
                                         p |-> p, u |-> u]]
      BY <2>3 DEF M!ResolvePatch
    <3>2. p \in PIds /\ u \in Users
      BY <1>0
    <3>3. PICK r : /\ r = [op |-> "patch", super |-> a.super, auth |-> p, p |-> p, u |-> u]
                   /\ mreq' = [mreq EXCEPT ![c] = r]
      BY <3>1
    <3>4. r.op = "patch" /\ r.p = p /\ r.u = u /\ r.auth = p
      BY <3>3
    <3> QED
      BY <3>2, <3>3, <3>4
  <2> QED
    BY <2>1, <2>2, <2>3
<1>3. MemberRequests'
  BY <1>2 DEF MemberInv, MemberRequests
<1> QED
  BY <1>1, <1>3 DEF MemberInv, M!TypeOK, NamesUnique, M!LiveProjects

\* A project becomes live only while its name is free.
LEMMA BecomesLive ==
    ASSUME MemberInv, NEW p \in PIds, NEW n \in MemberNames \cup {None},
           M!FindByName(n) = {}, pst' = [pst EXCEPT ![p] = "live"],
           name' = [name EXCEPT ![p] = n], UNCHANGED <<role, users, mreq>>
    PROVE  MemberInv'
<1>1. M!TypeOK'
  BY DEF MemberInv, M!TypeOK
<1>2. MemberRequests'
  BY DEF MemberInv, MemberRequests
<1>3. NamesUnique'
  <2>1. \A q \in PIds \ {p} : pst'[q] = pst[q] /\ name'[q] = name[q]
    BY DEF MemberInv, M!TypeOK
  <2>2. name'[p] = n
    BY DEF MemberInv, M!TypeOK
  <2>3. \A q \in PIds : pst[q] = "live" => name[q] # n
    BY DEF M!FindByName, M!LiveProjects
  <2> QED
    BY <2>1, <2>2, <2>3 DEF MemberInv, NamesUnique, M!LiveProjects
<1> QED
  BY <1>1, <1>2, <1>3 DEF MemberInv

LEMMA MemberInit == ASSUME M!Init PROVE MemberInv
<1>1. M!Idle.op = "idle"
  BY DEF M!Idle
<1>2. PICK r : r.op = "idle" /\ mreq = [c \in Clients |-> r]
  BY <1>1 DEF M!Init
<1> QED
  BY <1>2 DEF M!Init, MemberInv, M!TypeOK, MemberRequests, NamesUnique, M!LiveProjects

LEMMA MemberNext == ASSUME MemberInv, M!Next PROVE MemberInv'
<1>1. CASE M!handleCreateProject
  BY <1>1, BecomesLive DEF M!handleCreateProject
<1>2. CASE M!handleDeleteProject
  <2>1. PICK p \in PIds : pst' = [pst EXCEPT ![p] = "deleted"]
    BY <1>2 DEF M!handleDeleteProject, M!LiveProjects
  <2>2. UNCHANGED <<name, role, users, mreq>>
    BY <1>2 DEF M!handleDeleteProject
  <2>3. \A q \in M!LiveProjects' : q \in M!LiveProjects
    BY <2>1 DEF M!LiveProjects, MemberInv, M!TypeOK
  <2> QED
    BY <2>1, <2>2, <2>3 DEF MemberInv, M!TypeOK, MemberRequests, NamesUnique
<1>3. CASE M!RestoreIfNameFree
  <2>1. PICK p \in PIds : M!FindByName(name[p]) = {} /\ pst' = [pst EXCEPT ![p] = "live"]
    BY <1>3 DEF M!RestoreIfNameFree
  <2>2. UNCHANGED <<name, role, users, mreq>>
    BY <1>3 DEF M!RestoreIfNameFree
  <2>3. name' = [name EXCEPT ![p] = name[p]] /\ name[p] \in MemberNames \cup {None}
    BY <2>2 DEF MemberInv, M!TypeOK
  <2> QED
    BY <2>1, <2>2, <2>3, BecomesLive
<1>4. CASE M!handleDeleteUser
  BY <1>4 DEF M!handleDeleteUser, MemberInv, M!TypeOK, MemberRequests, NamesUnique, M!LiveProjects
<1>5. ASSUME NEW c \in Clients, M!CheckMemberRoute(c) \/ M!ResolveMember(c) \/ M!ResolvePatch(c)
      PROVE  MemberInv'
  BY <1>5, ResolveKeeps
<1>6. ASSUME NEW c \in Clients, M!Drop(c)
      PROVE  MemberInv'
  <2>1. MemberRequests' /\ UNCHANGED <<pst, name, role, users>>
    BY <1>6, MemberDone DEF M!Drop, MemberInv
  <2> QED
    BY <2>1 DEF MemberInv, M!TypeOK, NamesUnique, M!LiveProjects
<1>7. ASSUME NEW c \in Clients,
             M!handleAddMember(c) \/ M!handleRemoveMember(c) \/ M!handlePatchMember(c)
      PROVE  MemberInv'
  <2>1. /\ M!Done(c) /\ mreq[c].p \in PIds /\ mreq[c].u \in Users
        /\ pst' = pst /\ name' = name /\ users' = users
        /\ \E r \in M!Roles \cup {"none"} : M!SetRole(mreq[c].p, mreq[c].u, r)
    BY <1>7, RoleWrites
  <2>2. MemberRequests'
    BY <2>1, MemberDone DEF MemberInv
  <2>3. role' \in [PIds -> [Users -> M!Roles \cup {"none"}]]
    BY <2>1, SetRoleTypes DEF MemberInv
  <2> QED
    BY <2>1, <2>2, <2>3 DEF MemberInv, M!TypeOK, NamesUnique, M!LiveProjects
<1> QED
  BY <1>1, <1>2, <1>3, <1>4, <1>5, <1>6, <1>7 DEF M!Next

\* The rows stay as they are when the part takes no step.
LEMMA MemberStutter == ASSUME MemberInv, UNCHANGED mvars PROVE MemberInv'
BY DEF mvars, MemberInv, M!TypeOK, MemberRequests, NamesUnique, M!LiveProjects

\* Types, what requests hold, and that live projects have different names.
LEMMA MemberInvariant == TSpec => [](part = "members" => MemberInv)
<1>1. TInit => (part = "members" => MemberInv)
  BY MemberInit DEF TInit
<1>2. (part = "members" => MemberInv) /\ [TNext]_tvars => (part = "members" => MemberInv)'
  <2> SUFFICES ASSUME part = "members" => MemberInv, [TNext]_tvars, part' = "members"
               PROVE  MemberInv'
    OBVIOUS
  <2>1. MemberInv /\ (M!Next \/ UNCHANGED mvars)
    BY PartSteps
  <2> QED
    BY <2>1, MemberNext, MemberStutter
<1> QED
  BY <1>1, <1>2, PTL DEF TSpec

-----------------------------------------------------------------------------
(* Changes of roles.                                                       *)

\* Cardinality, as the instance of the module names it.
LEMMA SameCardinality == \A S : M!Cardinality(S) = Cardinality(S)
BY DEF M!Cardinality, Cardinality

\* The count of the guarded transactions: another live maintainer is left.
LEMMA AnotherMaintainer ==
    ASSUME MemberInv, NEW p \in PIds, NEW u, M!NotLastMaintainer(p)
    PROVE  \E v \in M!Maintainers(p) : v # u
<1>1. M!Maintainers(p) \subseteq Users
  BY DEF M!Maintainers, MemberInv, M!TypeOK
<1>2. IsFiniteSet(M!Maintainers(p))
  BY <1>1, FS_Subset, IdsAssumption
<1>3. SUFFICES ASSUME \A v \in M!Maintainers(p) : v = u
               PROVE  FALSE
  OBVIOUS
<1>4. M!Maintainers(p) = {} \/ M!Maintainers(p) = {u}
  BY <1>3
<1>5. Cardinality(M!Maintainers(p)) \in {0, 1}
  BY <1>4, FS_Singleton, FS_EmptySet
<1> QED
  BY <1>5, SameCardinality DEF M!NotLastMaintainer

\* Writing a role of one member leaves the other maintainers.
LEMMA OthersKept ==
    ASSUME MemberInv, NEW p \in PIds, NEW u \in Users, NEW r \in M!Roles \cup {"none"},
           M!SetRole(p, u, r), users' = users, NEW q \in PIds, NEW v \in M!Maintainers(q),
           q # p \/ v # u
    PROVE  v \in {w \in users' : role'[q][w] = "maintainer"}
<1>1. v \in Users /\ v \in users /\ role[q][v] = "maintainer"
  BY DEF M!Maintainers, MemberInv, M!TypeOK
<1>2. role'[q][v] = role[q][v]
  BY <1>1, SetRoleTypes DEF MemberInv
<1> QED
  BY <1>1, <1>2

LEMMA LastMaintainerNext == ASSUME MemberInv, M!Next PROVE M!LastMaintainerStep
<1> SUFFICES ASSUME NEW p \in PIds, M!Maintainers(p) # {},
                    {u \in users' : role'[p][u] = "maintainer"} = {}, users' = users
             PROVE  \E c \in Clients : M!Finishes(c) /\ mreq[c].super = "yes"
  BY DEF M!LastMaintainerStep
<1>1. role' # role
  <2>1. PICK u \in users : role[p][u] = "maintainer"
    BY DEF M!Maintainers
  <2>2. role'[p][u] # "maintainer"
    BY <2>1
  <2> QED
    BY <2>1, <2>2
<1>2. PICK c \in Clients :
        M!handleAddMember(c) \/ M!handleRemoveMember(c) \/ M!handlePatchMember(c)
  BY <1>1 DEF M!Next, M!handleCreateProject, M!handleDeleteProject, M!RestoreIfNameFree,
              M!handleDeleteUser, M!CheckMemberRoute, M!ResolveMember, M!ResolvePatch, M!Drop
<1>3. PICK r \in M!Roles \cup {"none"} :
        /\ mreq[c].op \in {"member", "patch"} /\ M!Done(c)
        /\ mreq[c].p \in PIds /\ mreq[c].u \in Users
        /\ M!SetRole(mreq[c].p, mreq[c].u, r)
  BY <1>2, RoleWrites
<1>4. M!Finishes(c)
  BY <1>3 DEF M!Finishes, M!Done, MemberInv, MemberRequests
<1>5. \A v \in M!Maintainers(p) : p = mreq[c].p /\ v = mreq[c].u
  BY <1>3, OthersKept
<1>6. p = mreq[c].p /\ mreq[c].u \in M!Maintainers(p) /\ ~ M!NotLastMaintainer(p)
  BY <1>5, AnotherMaintainer
<1>7. role[p][mreq[c].u] = "maintainer" /\ mreq[c].u \in users
  BY <1>6 DEF M!Maintainers
<1>8. role'[p][mreq[c].u] # "maintainer"
  BY <1>7
<1>9. mreq[c].super = "yes"
  <2>1. CASE M!handleAddMember(c)
    BY <2>1, <1>6, <1>7 DEF M!handleAddMember
  <2>2. CASE M!handleRemoveMember(c)
    BY <2>2, <1>6, <1>7 DEF M!handleRemoveMember, M!RemoveGuarded
  <2>3. CASE M!handlePatchMember(c)
    <3>1. SUFFICES ASSUME mreq[c].super # "yes"
                   PROVE  FALSE
      OBVIOUS
    <3>2. PICK s \in M!Roles : M!UpdateRoleGuarded(p, mreq[c].u, s)
      BY <2>3, <3>1, <1>6 DEF M!handlePatchMember, M!PatchedProject
    <3>3. s = "maintainer" /\ M!SetRole(p, mreq[c].u, s)
      BY <3>2, <1>6, <1>7 DEF M!UpdateRoleGuarded, M!Roles
    <3>4. role'[p][mreq[c].u] = s
      BY <3>3, <1>3, <1>6, SetRoleTypes DEF MemberInv
    <3> QED
      BY <3>3, <3>4, <1>8
  <2> QED
    BY <1>2, <2>1, <2>2, <2>3
<1> QED
  BY <1>4, <1>9

LEMMA RoleChangeNext == ASSUME MemberInv, M!Next PROVE M!RoleChangeStep
<1> SUFFICES ASSUME NEW p \in PIds, NEW u \in Users, role[p][u] # role'[p][u],
                    role[p][u] # "none", role'[p][u] # "none"
             PROVE  \E c \in Clients : M!Finishes(c) /\ mreq[c].op = "patch" /\ mreq[c].auth = p
  BY DEF M!RoleChangeStep
<1>2. PICK c \in Clients :
        M!handleAddMember(c) \/ M!handleRemoveMember(c) \/ M!handlePatchMember(c)
  BY DEF M!Next, M!handleCreateProject, M!handleDeleteProject, M!RestoreIfNameFree,
         M!handleDeleteUser, M!CheckMemberRoute, M!ResolveMember, M!ResolvePatch, M!Drop
<1>3. PICK r \in M!Roles \cup {"none"} :
        /\ mreq[c].op \in {"member", "patch"} /\ M!Done(c)
        /\ mreq[c].p \in PIds /\ mreq[c].u \in Users
        /\ M!SetRole(mreq[c].p, mreq[c].u, r)
  BY <1>2, RoleWrites
<1>4. M!Finishes(c)
  BY <1>3 DEF M!Finishes, M!Done, MemberInv, MemberRequests
<1>5. p = mreq[c].p /\ u = mreq[c].u /\ role'[p][u] = r
  BY <1>3, SetRoleTypes DEF MemberInv
<1>6. CASE M!handleAddMember(c)
  BY <1>6, <1>5 DEF M!handleAddMember
<1>7. CASE M!handleRemoveMember(c)
  <2>1. M!SetRole(p, u, "none")
    BY <1>7, <1>5 DEF M!handleRemoveMember, M!Remove, M!RemoveGuarded
  <2> QED
    BY <2>1, SetRoleTypes DEF MemberInv
<1>8. CASE M!handlePatchMember(c)
  BY <1>8, <1>4, <1>5 DEF M!handlePatchMember, MemberInv, MemberRequests
<1> QED
  BY <1>2, <1>6, <1>7, <1>8

\* The guarded transactions count live maintainers, and nobody else than a
\* super-admin or a deleted account takes the last one (members.go:201, 243).
THEOREM LastMaintainerIsKept == TSpec => LastMaintainerKept
<1>1. (part = "members" => MemberInv) /\ [TNext]_tvars
      => [part = "members" => M!LastMaintainerStep]_tvars
  <2> SUFFICES ASSUME part = "members", MemberInv, [TNext]_tvars, ~ UNCHANGED tvars
               PROVE  M!LastMaintainerStep
    OBVIOUS
  <2>1. M!Next
    BY DEF TNext
  <2> QED
    BY <2>1, LastMaintainerNext
<1> QED
  BY <1>1, MemberInvariant, PTL DEF TSpec, LastMaintainerKept

\* A role is changed only in the project the request was authorised for
\* (handlePatchMember resolves its project once, admin_phase1.go:904).
THEOREM RoleChangesAreAuthorised == TSpec => RoleChangeIsAuthorised
<1>1. (part = "members" => MemberInv) /\ [TNext]_tvars
      => [part = "members" => M!RoleChangeStep]_tvars
  <2> SUFFICES ASSUME part = "members", MemberInv, [TNext]_tvars, ~ UNCHANGED tvars
               PROVE  M!RoleChangeStep
    OBVIOUS
  <2>1. M!Next
    BY DEF TNext
  <2> QED
    BY <2>1, RoleChangeNext
<1> QED
  BY <1>1, MemberInvariant, PTL DEF TSpec, RoleChangeIsAuthorised

-----------------------------------------------------------------------------
(* The policy and what an actor sees.                                      *)

(* The four kinds of actors of a request.                                  *)
IsAnonymous(a) ==
    a.kind = "anon" /\ a.id = None /\ a.super = "no" /\ a.must = "no" /\ a.scope = None
    /\ a.keyrole = None
IsRoot(a) ==
    a.kind = "user" /\ a.id = None /\ a.super = "yes" /\ a.must = "no" /\ a.scope = None
    /\ a.keyrole = None
IsUser(a) ==
    a.kind \in {"user", "apikey"} /\ a.id \in users /\ a.super = "no" /\ a.scope = None
    /\ a.keyrole = None
IsProjectKey(a) ==
    a.kind = "apikey" /\ a.id = None /\ a.super = "no" /\ a.must = "no"
    /\ a.scope \in M!LiveProjects /\ a.keyrole \in M!Roles
IsS3Key(a) ==
    a.kind = "s3key" /\ a.id = None /\ a.super = "no" /\ a.must = "no"
    /\ a.scope \in M!LiveProjects /\ a.keyrole = None

LEMMA ProjectKeyKind == \A a \in M!ProjectKeys : IsProjectKey(a)
<1> SUFFICES ASSUME NEW a \in M!ProjectKeys
             PROVE  IsProjectKey(a)
  OBVIOUS
<1>1. PICK p \in M!LiveProjects, r \in M!Roles : a = M!ProjectKey(p, r)
  BY DEF M!ProjectKeys
<1>2. a = [kind |-> "apikey", id |-> None, super |-> "no", must |-> "no", scope |-> p,
           keyrole |-> r]
  BY <1>1 DEF M!Anonymous, M!ProjectKey
<1> QED
  BY <1>2 DEF IsProjectKey

LEMMA S3KeyKind == \A a \in M!S3Keys : IsS3Key(a)
BY DEF M!S3Keys, M!Anonymous, IsS3Key

LEMMA ActorKinds ==
    \A a \in M!Actors : IsAnonymous(a) \/ IsRoot(a) \/ IsUser(a) \/ IsProjectKey(a)
<1>1. IsAnonymous(M!Anonymous)
  BY DEF M!Anonymous, IsAnonymous
<1>2. IsRoot(M!Root)
  BY DEF M!Anonymous, M!Root, IsRoot
<1>3. \A a \in M!UserActors : IsUser(a)
  <2> SUFFICES ASSUME NEW a \in M!UserActors
               PROVE  IsUser(a)
    OBVIOUS
  <2>1. PICK k \in {"user", "apikey"}, u \in users, m \in M!YesNo : a = M!UserActor(k, u, m)
    BY DEF M!UserActors
  <2>2. a = [kind |-> k, id |-> u, super |-> "no", must |-> m, scope |-> None,
             keyrole |-> None]
    BY <2>1 DEF M!Anonymous, M!UserActor
  <2> QED
    BY <2>2 DEF IsUser
<1> QED
  BY <1>1, <1>2, <1>3, ProjectKeyKind DEF M!Actors

(* The role of an actor in a project, as ResolveMembership has it.         *)
ActorRole(a, p) == M!memberRoleOfProject(M!ResolveMembership(a), p)

LEMMA UserRole ==
    ASSUME MemberInv, NEW a, IsUser(a), NEW p \in M!LiveProjects
    PROVE  ActorRole(a, p) = role[p][a.id]
<1>1. a.id # None
  BY IdsAssumption DEF IsUser, MemberInv, M!TypeOK
<1>2. M!ResolveMembership(a) = M!ListProjectRolesForUser(a.id)
  BY <1>1 DEF M!ResolveMembership, IsUser
<1>3. M!ListProjectRolesForUser(a.id)
      = [q \in {r \in M!LiveProjects : role[r][a.id] # "none"} |-> role[q][a.id]]
  BY DEF M!ListProjectRolesForUser, M!ListProjectIDsForUser
<1> QED
  BY <1>2, <1>3 DEF ActorRole, M!memberRoleOfProject

LEMMA KeyRole ==
    ASSUME MemberInv, NEW a, IsProjectKey(a), NEW p \in PIds
    PROVE  ActorRole(a, p) = IF p = a.scope THEN a.keyrole ELSE "none"
<1>1. a.scope # None
  BY IdsAssumption DEF IsProjectKey, M!LiveProjects
<1>2. M!ResolveMembership(a) = [q \in {a.scope} |-> a.keyrole]
  BY <1>1 DEF M!ResolveMembership, IsProjectKey
<1> QED
  BY <1>2 DEF ActorRole, M!memberRoleOfProject

LEMMA NoRole ==
    ASSUME NEW a, IsAnonymous(a) \/ IsRoot(a) \/ IsS3Key(a), NEW p
    PROVE  ActorRole(a, p) = "none"
<1>1. M!ResolveMembership(a) = [q \in {} |-> None]
  BY DEF M!ResolveMembership, IsAnonymous, IsRoot, IsS3Key
<1> QED
  BY <1>1 DEF ActorRole, M!memberRoleOfProject

(* What the policy decides.                                                *)
LEMMA CanRead ==
    ASSUME MemberInv, NEW a \in M!Actors, a.must = "no", NEW p \in PIds, NEW x
    PROVE  M!Can(a, "repo.read", M!Target(p, x))
           <=> x \in Public \/ a.super = "yes" \/ ActorRole(a, p) # "none"
<1>1. M!Target(p, x).p = p /\ (M!Target(p, x).public = "yes" <=> x \in Public)
  BY DEF M!Target
<1>2. PICK t : t = M!Target(p, x)
  OBVIOUS
<1>3. CASE IsAnonymous(a)
  BY <1>1, <1>3, NoRole DEF M!Can, IsAnonymous
<1>4. CASE a.kind # "anon"
  BY <1>1, <1>4 DEF M!Can, ActorRole, M!SelfActions, M!SuperActions, M!MaintainerActions
<1> QED
  BY <1>3, <1>4, ActorKinds DEF IsAnonymous, IsRoot, IsUser, IsProjectKey

LEMMA CanMaintain ==
    ASSUME MemberInv, NEW a \in M!Actors, a.must = "no", NEW p \in PIds,
           NEW action \in {"repo.update", "s3.write"}
    PROVE  M!Can(a, action, M!Target(p, None))
           <=> a.super = "yes" \/ ActorRole(a, p) = "maintainer"
<1>1. M!Target(p, None).p = p
  BY DEF M!Target
<1>3. CASE IsAnonymous(a)
  BY <1>1, <1>3, NoRole DEF M!Can, IsAnonymous
<1>4. CASE a.kind # "anon"
  BY <1>1, <1>4, ActorKinds DEF M!Can, ActorRole, M!SelfActions, M!SuperActions,
     M!MaintainerActions, IsAnonymous, IsRoot, IsUser, IsProjectKey
<1> QED
  BY <1>3, <1>4, ActorKinds DEF IsAnonymous, IsRoot, IsUser, IsProjectKey

LEMMA CanReadBucket ==
    ASSUME MemberInv, NEW a \in M!Actors, a.must = "no", NEW p \in PIds
    PROVE  M!Can(a, "s3.read", M!Target(p, None))
           <=> a.super = "yes" \/ ActorRole(a, p) # "none"
<1>1. M!Target(p, None).p = p
  BY DEF M!Target
<1>3. CASE IsAnonymous(a)
  BY <1>1, <1>3, NoRole DEF M!Can, IsAnonymous
<1>4. CASE a.kind # "anon"
  BY <1>1, <1>4, ActorKinds DEF M!Can, ActorRole, M!SelfActions, M!SuperActions,
     M!MaintainerActions, IsAnonymous, IsRoot, IsUser, IsProjectKey
<1> QED
  BY <1>3, <1>4, ActorKinds DEF IsAnonymous, IsRoot, IsUser, IsProjectKey

\* Who belongs to a live project: the roles, the project list and the pages
\* under the project's name agree on it.
LEMMA Belongs ==
    ASSUME MemberInv, NEW a \in M!Actors, NEW p \in M!LiveProjects
    PROVE  /\ M!actorIsProjectMember(a, p) <=> a.super = "yes" \/ ActorRole(a, p) # "none"
           /\ p \in M!visibleProjectIDs(a) <=> a.super = "yes" \/ ActorRole(a, p) # "none"
<1>0. p \in PIds /\ "none" \notin M!Roles
  BY DEF M!LiveProjects, M!Roles
<1>1. CASE IsAnonymous(a)
  <2>1. ActorRole(a, p) = "none"
    BY <1>1, NoRole
  <2> QED
    BY <1>1, <2>1 DEF IsAnonymous, M!actorIsProjectMember, M!visibleProjectIDs
<1>2. CASE IsRoot(a)
  BY <1>2, <1>0 DEF IsRoot, M!actorIsProjectMember, M!visibleProjectIDs
<1>3. CASE IsUser(a)
  <2>1. ActorRole(a, p) = role[p][a.id] /\ a.id # None /\ p # None
    BY <1>3, <1>0, UserRole, IdsAssumption DEF IsUser, MemberInv, M!TypeOK
  <2> QED
    BY <1>3, <2>1 DEF IsUser, M!actorIsProjectMember, M!visibleProjectIDs,
                      M!ListProjectIDsForUser
<1>4. CASE IsProjectKey(a)
  <2>1. ActorRole(a, p) = (IF p = a.scope THEN a.keyrole ELSE "none") /\ a.scope # None
    BY <1>4, <1>0, KeyRole, IdsAssumption DEF IsProjectKey, M!LiveProjects
  <2> QED
    BY <1>4, <2>1, <1>0 DEF IsProjectKey, M!actorIsProjectMember, M!visibleProjectIDs
<1> QED
  BY <1>1, <1>2, <1>3, <1>4, ActorKinds

\* The registry's catalog lists what repo.read allows.
LEMMA CatalogIsPolicy ==
    ASSUME MemberInv, NEW a \in M!Actors, a.must = "no"
    PROVE  M!catalog(a) = {s \in M!SearchAll : M!Can(a, "repo.read", M!Target(s[1], s[2]))}
<1> SUFFICES ASSUME NEW s \in M!SearchAll
             PROVE  s \in M!catalog(a) <=> M!Can(a, "repo.read", M!Target(s[1], s[2]))
  BY DEF M!catalog, M!ListDockerCatalog
<1>1. PICK p \in M!LiveProjects, x \in Repos : s = <<p, x>>
  BY DEF M!SearchAll
<1>2. p \in PIds /\ s[1] = p /\ s[2] = x
  BY <1>1 DEF M!LiveProjects
<1>3. M!Can(a, "repo.read", M!Target(p, x))
      <=> x \in Public \/ a.super = "yes" \/ ActorRole(a, p) # "none"
  BY <1>2, CanRead
<1>4. s \in M!catalog(a) <=> x \in Public \/ p \in M!visibleProjectIDs(a)
  <2>1. M!catalog(a) = M!ListDockerCatalog(M!visibleProjectIDs(a))
    <3>1. a.super = "yes" \/ a.id = None \/ a.scope = None
      BY ActorKinds DEF IsAnonymous, IsRoot, IsUser, IsProjectKey
    <3> QED
      BY <3>1 DEF M!catalog, M!visibleProjectIDs
  <2> QED
    BY <2>1, <1>2 DEF M!ListDockerCatalog
<1> QED
  BY <1>2, <1>3, <1>4, Belongs

\* The project list shows the projects whose own page answers.
LEMMA ListedProjectsAnswer ==
    ASSUME MemberInv, NEW a \in M!Actors
    PROVE  M!handleListProjects(a) = UNION {M!handleProjectActivity(a, name[p]) : p \in PIds}
<1>1. \A n : M!handleProjectActivity(a, n)
        = {p \in M!LiveProjects : name[p] = n /\ M!actorIsProjectMember(a, p)}
  BY DEF M!handleProjectActivity, M!ProjectFor, M!FindByName
<1>2. M!LiveProjects \subseteq PIds
  BY DEF M!LiveProjects
<1>3. \A q : q \in UNION {M!handleProjectActivity(a, name[p]) : p \in PIds}
             <=> q \in M!LiveProjects /\ M!actorIsProjectMember(a, q)
  BY <1>1, <1>2
<1> QED
  BY <1>3, Belongs DEF M!handleListProjects

\* The search shows what the lists of repositories show, although it goes by
\* names: live projects have different ones.
LEMMA SearchIsListed ==
    ASSUME MemberInv, NEW a \in M!Actors
    PROVE  M!handleSearch(a) = UNION {M!handleListRepos(a, name[p]) : p \in PIds}
<1>1. M!LiveProjects \subseteq PIds
  BY DEF M!LiveProjects
<1>2. ASSUME NEW s
      PROVE  s \in M!handleSearch(a)
             <=> \E p \in M!LiveProjects, x \in Repos :
                    s = <<p, x>> /\ M!actorIsProjectMember(a, p)
  <2>1. ASSUME NEW p \in M!LiveProjects
        PROVE  (a.super = "yes" \/ name[p] \in {name[q] : q \in M!LiveProjects \cap M!visibleProjectIDs(a)})
               <=> M!actorIsProjectMember(a, p)
    <3>1. name[p] \in {name[q] : q \in M!LiveProjects \cap M!visibleProjectIDs(a)}
          <=> p \in M!visibleProjectIDs(a)
      BY DEF MemberInv, NamesUnique
    <3> QED
      BY <3>1, Belongs
  <2>2. \A p \in M!LiveProjects, x \in Repos : <<p, x>>[1] = p
    OBVIOUS
  <2> QED
    BY <2>1, <2>2 DEF M!handleSearch, M!SearchAll
<1>3. ASSUME NEW s
      PROVE  s \in UNION {M!handleListRepos(a, name[p]) : p \in PIds}
             <=> \E p \in M!LiveProjects, x \in Repos :
                    s = <<p, x>> /\ M!actorIsProjectMember(a, p)
  <2>1. \A n : s \in M!handleListRepos(a, n)
          <=> \E p \in M!LiveProjects, x \in Repos :
                 s = <<p, x>> /\ name[p] = n /\ M!actorIsProjectMember(a, p)
    BY DEF M!handleListRepos, M!ProjectFor, M!FindByName
  <2> QED
    BY <2>1, <1>1
<1> QED
  BY <1>2, <1>3

\* A bucket is readable where the project is.
LEMMA BucketsRead ==
    ASSUME MemberInv, NEW a \in M!Actors, a.must = "no", NEW n
    PROVE  M!resolveBucketAccess(a, n, FALSE) = {d.p : d \in M!handleGetProject(a, n)}
<1>1. M!resolveBucketAccess(a, n, FALSE)
      = {p \in M!FindByName(n) : M!Can(a, "s3.read", M!Target(p, None))}
  BY DEF M!resolveBucketAccess, M!RequireCanWith
<1>2. \A p \in M!FindByName(n) : p \in PIds /\ p \in M!LiveProjects
  BY DEF M!FindByName, M!LiveProjects
<1>3. \A p \in M!FindByName(n) :
        M!Can(a, "s3.read", M!Target(p, None)) <=> M!actorIsProjectMember(a, p)
  BY <1>2, CanReadBucket, Belongs
<1>4. {d.p : d \in M!handleGetProject(a, n)} = M!ProjectFor(a, n)
  <2>1. ASSUME NEW p \in M!ProjectFor(a, n)
        PROVE  \E d \in M!handleGetProject(a, n) : d.p = p
    <3>1. PICK d : d = [p |-> p, members |-> {u \in users : role[p][u] # "none"}, repos |-> Repos]
      OBVIOUS
    <3>2. d \in M!handleGetProject(a, n)
      BY <3>1 DEF M!handleGetProject
    <3> QED
      BY <3>1, <3>2
  <2>2. \A d \in M!handleGetProject(a, n) : d.p \in M!ProjectFor(a, n)
    BY DEF M!handleGetProject
  <2> QED
    BY <2>1, <2>2
<1> QED
  BY <1>1, <1>3, <1>4 DEF M!ProjectFor

\* Writing a bucket takes what changing a repository takes.
LEMMA BucketsWritten ==
    ASSUME MemberInv, NEW a \in M!Actors, a.must = "no", NEW n
    PROVE  M!resolveBucketAccess(a, n, TRUE) = M!RequireCanWith(a, "repo.update", n)
<1>1. \A p \in M!FindByName(n) : p \in PIds
  BY DEF M!FindByName, M!LiveProjects
<1>2. \A p \in M!FindByName(n) : M!Can(a, "s3.write", M!Target(p, None))
                               <=> M!Can(a, "repo.update", M!Target(p, None))
  BY <1>1, CanMaintain
<1> QED
  BY <1>2 DEF M!resolveBucketAccess, M!RequireCanWith

\* Whoever changes a repository is a super-admin or a maintainer.
LEMMA WritersMaintain ==
    ASSUME MemberInv, NEW a \in M!Actors, a.must = "no", NEW x \in M!LiveProjects,
           M!Can(a, "repo.update", M!Target(x, None))
    PROVE  a.super = "yes" \/ a.keyrole = "maintainer" \/ a.id \in M!Maintainers(x)
<1>0. x \in PIds
  BY DEF M!LiveProjects
<1>1. a.super = "yes" \/ ActorRole(a, x) = "maintainer"
  BY <1>0, CanMaintain
<1>2. CASE IsUser(a)
  BY <1>1, <1>2, UserRole DEF M!Maintainers, IsUser
<1>3. CASE IsProjectKey(a)
  BY <1>0, <1>1, <1>3, KeyRole
<1>4. CASE IsAnonymous(a) \/ IsRoot(a)
  BY <1>1, <1>4, NoRole
<1> QED
  BY <1>2, <1>3, <1>4, ActorKinds

\* A key of a project does nothing outside it.
LEMMA KeysStayInside ==
    ASSUME MemberInv, NEW a \in M!ProjectKeys \cup M!S3Keys,
           NEW action \in M!AllActions \ {"login", "logout"}, NEW p \in PIds,
           M!Can(a, action, M!Target(p, None))
    PROVE  p = a.scope
<1>1. M!Target(p, None).p = p /\ M!Target(p, None).public = "no"
  BY IdsAssumption DEF M!Target
<1>2. a.kind # "anon" /\ a.super = "no" /\ a.id = None
      /\ (ActorRole(a, p) = "none" \/ p = a.scope)
  <2>1. CASE a \in M!ProjectKeys
    BY <2>1, ProjectKeyKind, KeyRole DEF IsProjectKey
  <2>2. CASE a \in M!S3Keys
    BY <2>2, S3KeyKind, NoRole DEF IsS3Key
  <2> QED
    BY <2>1, <2>2
<1>3. SUFFICES ASSUME ActorRole(a, p) = "none"
               PROVE  p = a.scope
  BY <1>2
<1> QED
  BY <1>1, <1>2, <1>3 DEF M!Can, ActorRole

LEMMA PolicyHolds == ASSUME MemberInv PROVE M!ListingsMatchPolicy
<1>1. ASSUME NEW a \in M!Actors, a.must = "no"
      PROVE  M!catalog(a) = {s \in M!SearchAll : M!Can(a, "repo.read", M!Target(s[1], s[2]))}
  BY <1>1, CatalogIsPolicy
<1>2. ASSUME NEW a \in M!Actors, a.must = "no"
      PROVE  /\ M!handleListProjects(a) = UNION {M!handleProjectActivity(a, name[p]) : p \in PIds}
             /\ M!handleSearch(a) = UNION {M!handleListRepos(a, name[p]) : p \in PIds}
  BY ListedProjectsAnswer, SearchIsListed
<1>3. ASSUME NEW a \in M!Actors, a.must = "no", NEW p \in PIds
      PROVE  /\ M!resolveBucketAccess(a, name[p], FALSE)
                  = {d.p : d \in M!handleGetProject(a, name[p])}
             /\ M!resolveBucketAccess(a, name[p], TRUE)
                  = M!RequireCanWith(a, "repo.update", name[p])
  BY <1>3, BucketsRead, BucketsWritten
<1>4. ASSUME NEW a \in M!Actors, a.must = "no", NEW p \in PIds,
             NEW s \in M!handleListSyncJobs(a, name[p])
      PROVE  s[1] \in M!handleGetSyncJob(a, name[p], s[2])
  <2>1. PICK q \in M!ProjectFor(a, name[p]), x \in Repos : s = <<q, x>>
    BY DEF M!handleListSyncJobs
  <2> QED
    BY <2>1 DEF M!handleGetSyncJob
<1>5. ASSUME NEW a \in M!Actors, a.must = "no", NEW p \in PIds,
             NEW x \in M!FindByName(name[p]), M!Can(a, "repo.update", M!Target(x, None))
      PROVE  a.super = "yes" \/ a.keyrole = "maintainer" \/ a.id \in M!Maintainers(x)
  <2>1. x \in M!LiveProjects
    BY DEF M!FindByName
  <2> QED
    BY <1>5, <2>1, WritersMaintain
<1> QED
  BY <1>1, <1>2, <1>3, <1>4, <1>5, KeysStayInside DEF M!ListingsMatchPolicy

\* The catalog, the listings, the search and the buckets show an actor what
\* the policy lets it read, in every state (policy.go, catalog.go,
\* visibility.go, search.go).
THEOREM ListingsAlwaysMatch == TSpec => []ListingsMatchPolicy
<1>1. (part = "members" => MemberInv) => ListingsMatchPolicy
  BY PolicyHolds DEF MemberInv, ListingsMatchPolicy
<1> QED
  BY <1>1, MemberInvariant, PTL

-----------------------------------------------------------------------------
(* Projects and the rows they own.                                         *)

(* What a request holds is still so when its transaction runs: rows keep   *)
(* their owner, and repositories what they are a mirror of.                *)
ProjectRequests ==
    /\ DOMAIN preq = Clients
    /\ \A c \in Clients :
          /\ preq[c].op = "project" => preq[c].p \in PIds
          /\ preq[c].op = "row" =>
                /\ preq[c].p \in PIds /\ preq[c].x \in Rows
                /\ row[preq[c].x].st # "free" /\ row[preq[c].x].owner = preq[c].p
                /\ preq[c].mirror = conf[preq[c].x].mirror

(* A row that is not there yet has no artifact and names no credential.    *)
FreeRowsEmpty ==
    \A x \in Rows : row[x].st = "free" =>
       art[x].has = "no" /\ conf[x].cred = None /\ conf[x].purge = "no"

RowsOwned == \A x \in Rows : P!Present(row[x].st) => row[x].owner \in PIds

(* A row that went with its project has the project's own timestamp.       *)
CascadeStamps ==
    \A x \in Rows : row[x].st = "deleted" /\ row[x].own = "no" =>
       /\ row[x].owner \in PIds
       /\ proj[row[x].owner].st = "deleted" /\ row[x].ts = proj[row[x].owner].ts

ProjectInv ==
    /\ P!TypeOK /\ ProjectRequests /\ FreeRowsEmpty /\ RowsOwned
    /\ P!IndexComplete /\ P!MirrorRules /\ CascadeStamps

RowStates == {"free", "live", "deleted", "gone"}

\* Marking a row changes its state, timestamp and history only.
LEMMA MarkedRow ==
    ASSUME P!TypeOK, NEW x \in Rows, NEW s \in RowStates, NEW t \in Int, NEW o \in {"yes", "no"}
    PROVE  /\ P!Marked(x, s, t, o) \in P!Row
           /\ P!Marked(x, s, t, o).st = s /\ P!Marked(x, s, t, o).ts = t
           /\ P!Marked(x, s, t, o).own = o
           /\ P!Marked(x, s, t, o).kind = row[x].kind
           /\ P!Marked(x, s, t, o).owner = row[x].owner
           /\ P!Marked(x, s, t, o).name = row[x].name
<1>1. row[x] \in P!Row
  BY DEF P!TypeOK
<1> QED
  BY <1>1 DEF P!Row, P!Marked, RowStates

LEMMA StampedProject ==
    ASSUME P!TypeOK, NEW p \in PIds, NEW s \in RowStates, NEW t \in Int
    PROVE  /\ P!Stamped(p, s, t) \in P!Project
           /\ P!Stamped(p, s, t).st = s /\ P!Stamped(p, s, t).ts = t
<1>1. proj[p] \in P!Project
  BY DEF P!TypeOK
<1> QED
  BY <1>1 DEF P!Project, P!Stamped, RowStates

LEMMA RowTypes ==
    ASSUME P!TypeOK, NEW x \in Rows
    PROVE  /\ row[x].st \in RowStates /\ row[x].ts \in Int /\ row[x].own \in {"yes", "no"}
           /\ row[x].owner \in PIds \cup {None} /\ row[x].kind \in P!Kinds \cup {None}
<1>1. row[x] \in P!Row
  BY DEF P!TypeOK
<1> QED
  BY <1>1 DEF P!Row, RowStates

LEMMA ProjectTypes ==
    ASSUME P!TypeOK, NEW p \in PIds
    PROVE  proj[p].st \in RowStates /\ proj[p].ts \in Int /\ proj[p].name \in Names \cup {None}
<1>1. proj[p] \in P!Project
  BY DEF P!TypeOK
<1> QED
  BY <1>1 DEF P!Project, RowStates

(* Rows only move on: a row that is there keeps its kind and owner, and a  *)
(* row that is gone does not come back.                                    *)
RowsMoveOn ==
    \A x \in Rows :
       /\ row'[x].kind = row[x].kind /\ row'[x].owner = row[x].owner
       /\ row'[x].st = "free" <=> row[x].st = "free"
       /\ P!Present(row'[x].st) => P!Present(row[x].st)

\* What requests hold, when rows move on.
LEMMA ProjectRequestsKept ==
    ASSUME ProjectRequests, preq' = preq \/ \E c \in Clients : P!Done(c),
           \A x \in Rows : row[x].st # "free" =>
              row'[x].st # "free" /\ row'[x].owner = row[x].owner
              /\ conf'[x].mirror = conf[x].mirror
    PROVE  ProjectRequests'
<1>1. CASE preq' = preq
  BY <1>1 DEF ProjectRequests
<1>2. CASE \E c \in Clients : P!Done(c)
  <2>1. P!Idle.op = "idle"
    BY DEF P!Idle
  <2>2. PICK c \in Clients : \E r : r.op = "idle" /\ preq' = [preq EXCEPT ![c] = r]
    BY <1>2, <2>1 DEF P!Done
  <2>3. preq'[c].op = "idle" /\ \A d \in Clients \ {c} : preq'[d] = preq[d]
    BY <2>2 DEF ProjectRequests
  <2>4. DOMAIN preq' = Clients
    BY <2>2 DEF ProjectRequests
  <2> QED
    BY <2>3, <2>4 DEF ProjectRequests
<1> QED
  BY <1>1, <1>2

\* When rows move on and nothing else but the index changes, the index and
\* the timestamps are all that is left to show.
LEMMA MoveOn ==
    ASSUME ProjectInv, row' \in [Rows -> P!Row], proj' \in [PIds -> P!Project], RowsMoveOn,
           art' \in [Rows -> [has : {"yes", "no"}, index : Nat]],
           \A x \in Rows : art'[x].has = art[x].has,
           conf' = conf, cred' = cred, stamp' = stamp,
           preq' = preq \/ \E c \in Clients : P!Done(c),
           P!IndexComplete', CascadeStamps'
    PROVE  ProjectInv'
<1>1. P!TypeOK'
  BY DEF ProjectInv, P!TypeOK
<1>2. ProjectRequests'
  BY ProjectRequestsKept DEF ProjectInv, RowsMoveOn
<1>3. FreeRowsEmpty' /\ RowsOwned'
  BY DEF ProjectInv, FreeRowsEmpty, RowsOwned, RowsMoveOn
<1>4. P!MirrorRules'
  BY DEF ProjectInv, P!MirrorRules, RowsMoveOn
<1> QED
  BY <1>1, <1>2, <1>3, <1>4 DEF ProjectInv

LEMMA ProjectsInit == ASSUME P!Init PROVE ProjectInv
<1>1. P!Idle.op = "idle" /\ P!Never \in Int
  BY DEF P!Idle, P!Never
<1>2. PICK r : r.op = "idle" /\ preq = [c \in Clients |-> r]
  BY <1>1 DEF P!Init
<1>3. P!NoRow \in P!Row /\ P!NoRow.st = "free"
  BY <1>1 DEF P!NoRow, P!Row
<1>4. P!NoConf \in P!MirrorConfig /\ P!NoConf.cred = None /\ P!NoConf.purge = "no"
  BY DEF P!NoConf, P!MirrorConfig
<1>5. P!TypeOK
  BY <1>1, <1>3, <1>4 DEF P!Init, P!TypeOK, P!Project
<1>6. \A x \in Rows : row[x].st = "free"
  BY <1>3 DEF P!Init
<1>7. ProjectRequests
  BY <1>2 DEF ProjectRequests
<1>8. FreeRowsEmpty /\ RowsOwned /\ CascadeStamps
  BY <1>4, <1>6 DEF P!Init, FreeRowsEmpty, RowsOwned, CascadeStamps, P!Present
<1>9. P!IndexComplete /\ P!MirrorRules
  BY <1>4, <1>6 DEF P!Init, P!IndexComplete, P!MirrorRules, P!LiveRows, P!Present
<1> QED
  BY <1>5, <1>7, <1>8, <1>9 DEF ProjectInv

\* Steps that change no table.
LEMMA TablesKept ==
    ASSUME ProjectInv, UNCHANGED <<proj, row, conf, art, cred>>, stamp' \in Nat, ProjectRequests'
    PROVE  ProjectInv'
BY DEF ProjectInv, P!TypeOK, FreeRowsEmpty, RowsOwned, P!IndexComplete, P!LiveRows,
       P!MirrorRules, CascadeStamps

LEMMA ResolveProject ==
    ASSUME ProjectInv, NEW c \in Clients, P!resolveProjectForAction(c)
    PROVE  ProjectInv'
<1>1. PICK p \in PIds : preq' = [preq EXCEPT ![c] = [op |-> "project", p |-> p]]
  BY DEF P!resolveProjectForAction, P!Hold, P!LiveProjects
<1>2. PICK r : r.op = "project" /\ r.p \in PIds /\ preq' = [preq EXCEPT ![c] = r]
  BY <1>1
<1>3. UNCHANGED <<proj, row, conf, art, cred, stamp>>
  BY DEF P!resolveProjectForAction
<1>4. ProjectRequests'
  BY <1>2, <1>3 DEF ProjectInv, ProjectRequests
<1> QED
  BY <1>3, <1>4, TablesKept DEF ProjectInv, P!TypeOK

LEMMA ResolveRepo ==
    ASSUME ProjectInv, NEW c \in Clients, P!resolveRepoFromURL(c)
    PROVE  ProjectInv'
<1>0. PICK p \in P!LiveProjects : \E x \in P!FindByTriple(p) :
        preq' = [preq EXCEPT ![c] = [op |-> "row", p |-> p, x |-> x, mirror |-> conf[x].mirror]]
  BY DEF P!resolveRepoFromURL, P!Hold
<1>1. PICK x \in P!FindByTriple(p) :
        preq' = [preq EXCEPT ![c] = [op |-> "row", p |-> p, x |-> x, mirror |-> conf[x].mirror]]
  BY <1>0
<1>2. p \in PIds /\ x \in Rows /\ row[x].st = "live" /\ row[x].owner = p
  BY DEF P!LiveProjects, P!FindByTriple, P!LiveRows
<1>3. PICK r : /\ r = [op |-> "row", p |-> p, x |-> x, mirror |-> conf[x].mirror]
               /\ preq' = [preq EXCEPT ![c] = r]
  BY <1>1
<1>4. r.op = "row" /\ r.p = p /\ r.x = x /\ r.mirror = conf[x].mirror
  BY <1>3
<1>5. UNCHANGED <<proj, row, conf, art, cred, stamp>>
  BY DEF P!resolveRepoFromURL
<1>6. preq'[c] = r /\ \A d \in Clients \ {c} : preq'[d] = preq[d]
  BY <1>3 DEF ProjectInv, ProjectRequests
<1>7. DOMAIN preq' = Clients
  BY <1>3 DEF ProjectInv, ProjectRequests
<1>8. ProjectRequests'
  BY <1>2, <1>4, <1>5, <1>6, <1>7 DEF ProjectInv, ProjectRequests
<1> QED
  BY <1>5, <1>8, TablesKept DEF ProjectInv, P!TypeOK

LEMMA DropRequest ==
    ASSUME ProjectInv, NEW c \in Clients, P!Drop(c)
    PROVE  ProjectInv'
<1>1. UNCHANGED <<proj, row, conf, art, cred, stamp>> /\ P!Done(c)
  BY DEF P!Drop
<1>2. ProjectRequests'
  BY <1>1, ProjectRequestsKept DEF ProjectInv
<1> QED
  BY <1>1, <1>2, TablesKept DEF ProjectInv, P!TypeOK

LEMMA ClockTicks == ASSUME ProjectInv, P!Tick PROVE ProjectInv'
<1>1. UNCHANGED <<proj, row, conf, art, cred, preq>> /\ stamp' \in Nat
  BY DEF P!Tick, ProjectInv, P!TypeOK
<1>2. ProjectRequests'
  BY <1>1, ProjectRequestsKept DEF ProjectInv
<1> QED
  BY <1>1, <1>2, TablesKept

\* Uploads and deletes of artifacts: of a row that is there.
LEMMA ArtifactWritten ==
    ASSUME ProjectInv, NEW c \in Clients, P!Upload(c) \/ P!DeleteArtifact(c)
    PROVE  ProjectInv'
<1>1. UNCHANGED <<proj, row, conf, cred, stamp>> /\ P!Done(c) /\ preq[c].x \in Rows
      /\ row[preq[c].x].st # "free"
  BY DEF P!Upload, P!DeleteArtifact, P!OnRow, ProjectInv, ProjectRequests, P!Present
<1>2. PICK a \in [has : {"yes", "no"}, index : Nat] :
        (a.has = "yes" => a.index > 0) /\ art' = [art EXCEPT ![preq[c].x] = a]
  BY DEF P!Upload, P!DeleteArtifact, P!IndexArtifact, P!IndexArtifactDelete
<1>3. P!TypeOK'
  BY <1>1, <1>2 DEF ProjectInv, P!TypeOK
<1>4. ProjectRequests'
  BY <1>1, ProjectRequestsKept DEF ProjectInv
<1>5. FreeRowsEmpty' /\ RowsOwned'
  BY <1>1, <1>2 DEF ProjectInv, FreeRowsEmpty, RowsOwned, P!TypeOK
<1>6. P!IndexComplete'
  BY <1>1, <1>2 DEF ProjectInv, P!IndexComplete, P!LiveRows, P!TypeOK
<1>7. P!MirrorRules' /\ CascadeStamps'
  BY <1>1 DEF ProjectInv, P!MirrorRules, CascadeStamps
<1> QED
  BY <1>3, <1>4, <1>5, <1>6, <1>7 DEF ProjectInv

\* One row is marked.
LEMMA OneRowMarked ==
    ASSUME ProjectInv, NEW x \in Rows, NEW s \in {"live", "deleted", "gone"}, NEW t \in Int,
           NEW o \in {"yes", "no"}, P!Present(row[x].st),
           row' = [row EXCEPT ![x] = P!Marked(x, s, t, o)]
    PROVE  /\ row' \in [Rows -> P!Row] /\ RowsMoveOn
           /\ row'[x].st = s /\ row'[x].own = o
           /\ \A y \in Rows \ {x} : row'[y] = row[y]
<1>1. PICK r : r = P!Marked(x, s, t, o)
  OBVIOUS
<1>2. r \in P!Row /\ r.st = s /\ r.own = o /\ r.kind = row[x].kind /\ r.owner = row[x].owner
  BY <1>1, MarkedRow DEF ProjectInv, RowStates
<1>3. row' = [row EXCEPT ![x] = r] /\ row \in [Rows -> P!Row]
  BY <1>1 DEF ProjectInv, P!TypeOK
<1>4. row' \in [Rows -> P!Row] /\ row'[x] = r /\ \A y \in Rows \ {x} : row'[y] = row[y]
  BY <1>2, <1>3
<1> QED
  BY <1>2, <1>4 DEF RowsMoveOn, P!Present

\* A row that was deleted by itself, or is gone: nothing is left to say of it.
LEMMA RowTakenByItself ==
    ASSUME ProjectInv, NEW x \in Rows, NEW s \in {"deleted", "gone"}, NEW t \in Int,
           NEW o \in {"yes", "no"}, P!Present(row[x].st), s = "deleted" => o = "yes",
           row' = [row EXCEPT ![x] = P!Marked(x, s, t, o)],
           UNCHANGED <<proj, conf, cred, stamp>>,
           NEW c \in Clients, P!Done(c), art' = art \/ art' = P!PruneRepoFTS({x})
    PROVE  ProjectInv'
<1>1. /\ row' \in [Rows -> P!Row] /\ RowsMoveOn
      /\ row'[x].st = s /\ row'[x].own = o
      /\ \A y \in Rows \ {x} : row'[y] = row[y]
  BY OneRowMarked
<1>2. /\ art' \in [Rows -> [has : {"yes", "no"}, index : Nat]]
      /\ \A y \in Rows : art'[y].has = art[y].has
      /\ \A y \in Rows \ {x} : art'[y] = art[y]
  <2>1. CASE art' = art
    BY <2>1 DEF ProjectInv, P!TypeOK
  <2>2. CASE art' = P!PruneRepoFTS({x})
    BY <2>2 DEF ProjectInv, P!TypeOK, P!PruneRepoFTS
  <2> QED
    BY <2>1, <2>2
<1>3. P!IndexComplete'
  BY <1>1, <1>2 DEF ProjectInv, P!IndexComplete, P!LiveRows
<1>4. CascadeStamps'
  BY <1>1 DEF ProjectInv, CascadeStamps
<1>5. proj' \in [PIds -> P!Project]
  BY DEF ProjectInv, P!TypeOK
<1> QED
  BY <1>1, <1>2, <1>3, <1>4, <1>5, MoveOn

\* The index of the rows X is taken out, or put back.
LEMMA IndexPruned ==
    ASSUME ProjectInv, NEW X, art' = P!PruneRepoFTS(X)
    PROVE  /\ art' \in [Rows -> [has : {"yes", "no"}, index : Nat]]
           /\ \A y \in Rows : art'[y].has = art[y].has
           /\ \A y \in Rows \ X : art'[y] = art[y]
BY DEF ProjectInv, P!TypeOK, P!PruneRepoFTS

LEMMA IndexPutBack ==
    ASSUME ProjectInv, NEW X, art' = P!ReindexRepo(X)
    PROVE  /\ art' \in [Rows -> [has : {"yes", "no"}, index : Nat]]
           /\ \A y \in Rows : art'[y].has = art[y].has
           /\ \A y \in Rows \ X : art'[y] = art[y]
           /\ \A y \in Rows \cap X : art'[y].has = "yes" => art'[y].index > 0
<1>1. \A y \in Rows : art[y] \in [has : {"yes", "no"}, index : Nat]
  BY DEF ProjectInv, P!TypeOK
<1>2. \A y \in Rows : /\ [art[y] EXCEPT !.index = @ + 1] \in [has : {"yes", "no"}, index : Nat]
                       /\ [art[y] EXCEPT !.index = @ + 1].has = art[y].has
                       /\ [art[y] EXCEPT !.index = @ + 1].index > 0
  BY <1>1
<1> QED
  BY <1>1, <1>2 DEF P!ReindexRepo

LEMMA DeleteRepo ==
    ASSUME ProjectInv, NEW c \in Clients, P!handleDeleteRepo(c)
    PROVE  ProjectInv'
<1>1. PICK x \in Rows : x = preq[c].x
  BY DEF ProjectInv, ProjectRequests, P!handleDeleteRepo, P!OnRow
<1>2. /\ P!Done(c) /\ P!Present(row[x].st) /\ art' = P!PruneRepoFTS({x})
      /\ UNCHANGED <<proj, conf, cred, stamp>>
      /\ row' = IF row[x].st = "live"
                THEN [row EXCEPT ![x] = P!Marked(x, "deleted", stamp, "yes")] ELSE row
  BY <1>1 DEF P!handleDeleteRepo
<1>3. CASE row[x].st = "live"
  <2>1. stamp \in Int
    BY DEF ProjectInv, P!TypeOK
  <2>2. row' = [row EXCEPT ![x] = P!Marked(x, "deleted", stamp, "yes")]
    BY <1>2, <1>3
  <2> QED
    BY <1>2, <2>1, <2>2, RowTakenByItself
<1>4. CASE row[x].st # "live"
  <2>1. row' = row
    BY <1>2, <1>4
  <2>2. /\ art' \in [Rows -> [has : {"yes", "no"}, index : Nat]]
        /\ \A y \in Rows : art'[y].has = art[y].has
        /\ \A y \in Rows \ {x} : art'[y] = art[y]
    BY <1>2, IndexPruned
  <2>3. P!IndexComplete'
    BY <2>1, <2>2, <1>4 DEF ProjectInv, P!IndexComplete, P!LiveRows
  <2>4. CascadeStamps' /\ RowsMoveOn
    BY <2>1, <1>2 DEF ProjectInv, CascadeStamps, RowsMoveOn
  <2>5. row' \in [Rows -> P!Row] /\ proj' \in [PIds -> P!Project]
    BY <2>1, <1>2 DEF ProjectInv, P!TypeOK
  <2> QED
    BY <1>2, <2>2, <2>3, <2>4, <2>5, MoveOn
<1> QED
  BY <1>3, <1>4

LEMMA RevokeKeys ==
    ASSUME ProjectInv, NEW c \in Clients,
           P!handleRevokeProjectAPIKey(c) \/ P!handleRevokeS3Key(c)
    PROVE  ProjectInv'
<1>1. PICK x \in Rows : x = preq[c].x
  BY DEF ProjectInv, ProjectRequests, P!handleRevokeProjectAPIKey, P!handleRevokeS3Key, P!OnRow
<1>2. P!Done(c) /\ UNCHANGED <<proj, conf, art, cred, stamp>>
  BY DEF P!handleRevokeProjectAPIKey, P!handleRevokeS3Key
<1>3. CASE row' = row
  <2>1. ProjectRequests'
    BY <1>2, <1>3, ProjectRequestsKept DEF ProjectInv
  <2> QED
    BY <1>2, <1>3, <2>1, TablesKept DEF ProjectInv, P!TypeOK
<1>4. CASE row' # row
  <2>1. stamp \in Int /\ P!Never \in Int
    BY DEF ProjectInv, P!TypeOK, P!Never
  <2>2. PICK t \in Int : P!Present(row[x].st) /\ row' = [row EXCEPT ![x] = P!Marked(x, "deleted", t, "yes")]
    BY <1>1, <1>4, <2>1 DEF P!handleRevokeProjectAPIKey, P!handleRevokeS3Key, P!Present
  <2> QED
    BY <1>2, <2>2, RowTakenByItself
<1> QED
  BY <1>3, <1>4

LEMMA DeleteS3Bucket ==
    ASSUME ProjectInv, NEW c \in Clients, P!handleDeleteS3Bucket(c)
    PROVE  ProjectInv'
<1>1. PICK x \in P!LiveRows : row' = [row EXCEPT ![x] = P!Marked(x, "gone", row[x].ts, row[x].own)]
  BY DEF P!handleDeleteS3Bucket
<1>2. x \in Rows /\ P!Present(row[x].st)
  BY DEF P!LiveRows, P!Present
<1>3. row[x].ts \in Int /\ row[x].own \in {"yes", "no"}
  BY <1>2, RowTypes DEF ProjectInv
<1>4. P!Done(c) /\ UNCHANGED <<proj, conf, art, cred, stamp>>
  BY DEF P!handleDeleteS3Bucket
<1> QED
  BY <1>1, <1>2, <1>3, <1>4, RowTakenByItself

LEMMA RestoreOneRepo == ASSUME ProjectInv, P!RestoreRepo PROVE ProjectInv'
<1>1. PICK x \in Rows : /\ P!Present(row[x].st) /\ art' = P!ReindexRepo({x})
                        /\ row' = [row EXCEPT ![x] = P!Marked(x, "live", P!Never, "no")]
  BY DEF P!RestoreRepo
<1>2. UNCHANGED <<proj, conf, cred, preq, stamp>>
  BY DEF P!RestoreRepo
<1>3. P!Never \in Int
  BY DEF P!Never
<1>4. /\ row' \in [Rows -> P!Row] /\ RowsMoveOn
      /\ row'[x].st = "live" /\ \A y \in Rows \ {x} : row'[y] = row[y]
  BY <1>1, <1>3, OneRowMarked
<1>5. /\ art' \in [Rows -> [has : {"yes", "no"}, index : Nat]]
      /\ \A y \in Rows : art'[y].has = art[y].has
      /\ \A y \in Rows \ {x} : art'[y] = art[y]
      /\ \A y \in Rows \cap {x} : art'[y].has = "yes" => art'[y].index > 0
  BY <1>1, IndexPutBack
<1>6. P!IndexComplete'
  BY <1>4, <1>5 DEF ProjectInv, P!IndexComplete, P!LiveRows
<1>7. CascadeStamps'
  BY <1>2, <1>4 DEF ProjectInv, CascadeStamps
<1>8. proj' \in [PIds -> P!Project]
  BY <1>2 DEF ProjectInv, P!TypeOK
<1> QED
  BY <1>2, <1>4, <1>5, <1>6, <1>7, <1>8, MoveOn

\* Deleting a project takes its live rows with the project's own timestamp.
LEMMA DeleteProject ==
    ASSUME ProjectInv, NEW c \in Clients, P!handleDeleteProject(c)
    PROVE  ProjectInv'
<1>1. PICK p \in PIds : p = preq[c].p
  BY DEF P!handleDeleteProject, P!OnProject, ProjectInv, ProjectRequests
<1>2. PICK ts \in Int : ts = IF proj[p].st = "live" THEN stamp ELSE proj[p].ts
  <2>1. stamp \in Int
    BY DEF ProjectInv, P!TypeOK
  <2>2. proj[p].ts \in Int
    BY ProjectTypes DEF ProjectInv
  <2> QED
    BY <2>1, <2>2
<1>3. PICK X : X = {x \in P!LiveRows : row[x].owner = p}
  OBVIOUS
<1>4. /\ P!Present(proj[p].st) /\ proj' = [proj EXCEPT ![p] = P!Stamped(p, "deleted", ts)]
      /\ row' = [x \in Rows |-> IF x \in X THEN P!Marked(x, "deleted", ts, "no") ELSE row[x]]
      /\ art' = P!PruneRepoFTS(X)
  BY <1>1, <1>2, <1>3 DEF P!handleDeleteProject, P!SoftDelete, P!CascadeDelete, P!CascadeTS
<1>5. P!Done(c) /\ UNCHANGED <<conf, cred, stamp>>
  BY DEF P!handleDeleteProject
<1>6. /\ proj' \in [PIds -> P!Project] /\ proj'[p].st = "deleted" /\ proj'[p].ts = ts
      /\ \A q \in PIds \ {p} : proj'[q] = proj[q]
  <2>1. PICK r : r = P!Stamped(p, "deleted", ts)
    OBVIOUS
  <2>2. r \in P!Project /\ r.st = "deleted" /\ r.ts = ts
    BY <2>1, StampedProject DEF ProjectInv, RowStates
  <2>3. proj' = [proj EXCEPT ![p] = r] /\ proj \in [PIds -> P!Project]
    BY <1>4, <2>1 DEF ProjectInv, P!TypeOK
  <2> QED
    BY <2>2, <2>3
<1>7. \A x \in X : x \in Rows /\ row[x].st = "live" /\ row[x].owner = p
  BY <1>3 DEF P!LiveRows
<1>8. ASSUME NEW x \in X
      PROVE  /\ row'[x] \in P!Row /\ row'[x].st = "deleted" /\ row'[x].ts = ts
             /\ row'[x].kind = row[x].kind /\ row'[x].owner = p
  <2>1. row'[x] = P!Marked(x, "deleted", ts, "no") /\ x \in Rows /\ row[x].owner = p
    BY <1>4, <1>7
  <2> QED
    BY <2>1, MarkedRow DEF ProjectInv, RowStates
<1>9. \A x \in Rows \ X : row'[x] = row[x]
  BY <1>4
<1>10. row' \in [Rows -> P!Row]
  BY <1>4, <1>8, <1>9 DEF ProjectInv, P!TypeOK
<1>11. RowsMoveOn
  BY <1>7, <1>8, <1>9 DEF RowsMoveOn, P!Present
<1>12. /\ art' \in [Rows -> [has : {"yes", "no"}, index : Nat]]
       /\ \A y \in Rows : art'[y].has = art[y].has
       /\ \A y \in Rows \ X : art'[y] = art[y]
  BY <1>4, IndexPruned
<1>13. P!IndexComplete'
  BY <1>8, <1>9, <1>12 DEF ProjectInv, P!IndexComplete, P!LiveRows
<1>14. CascadeStamps'
  <2> SUFFICES ASSUME NEW x \in Rows, row'[x].st = "deleted", row'[x].own = "no"
               PROVE  /\ row'[x].owner \in PIds
                      /\ proj'[row'[x].owner].st = "deleted" /\ row'[x].ts = proj'[row'[x].owner].ts
    BY DEF CascadeStamps
  <2>1. CASE x \in X
    BY <2>1, <1>6, <1>8
  <2>2. CASE x \notin X
    <3>1. row'[x] = row[x] /\ row[x].owner \in PIds /\ proj[row[x].owner].st = "deleted"
          /\ row[x].ts = proj[row[x].owner].ts
      BY <2>2, <1>9 DEF ProjectInv, CascadeStamps
    <3>2. row[x].owner = p => ts = proj[p].ts
      BY <3>1, <1>2
    <3> QED
      BY <3>1, <3>2, <1>6
  <2> QED
    BY <2>1, <2>2
<1> QED
  BY <1>5, <1>6, <1>10, <1>11, <1>12, <1>13, <1>14, MoveOn

\* Restoring a project: the rows that went with it, by the timestamp.
LEMMA RestoreFacts ==
    ASSUME ProjectInv, NEW p \in PIds, proj[p].st = "deleted",
           proj' = [proj EXCEPT ![p] = P!Stamped(p, "live", P!Never)], P!restoreCascadeInTx(p)
    PROVE  /\ proj' \in [PIds -> P!Project] /\ proj'[p].st = "live"
           /\ \A q \in PIds \ {p} : proj'[q] = proj[q]
           /\ \A x \in P!RestoredRows(p) :
                 /\ x \in Rows /\ row[x].st = "deleted" /\ row[x].owner = p
                 /\ row[x].ts = proj[p].ts
                 /\ row'[x] \in P!Row /\ row'[x].st = "live"
                 /\ row'[x].kind = row[x].kind /\ row'[x].owner = p
           /\ \A x \in Rows \ P!RestoredRows(p) : row'[x] = row[x]
           /\ row' \in [Rows -> P!Row]
<1>0. P!Never \in Int
  BY DEF P!Never
<1>1. /\ proj' \in [PIds -> P!Project] /\ proj'[p].st = "live"
      /\ \A q \in PIds \ {p} : proj'[q] = proj[q]
  <2>1. PICK r : r = P!Stamped(p, "live", P!Never)
    OBVIOUS
  <2>2. r \in P!Project /\ r.st = "live"
    BY <1>0, <2>1, StampedProject DEF ProjectInv, RowStates
  <2>3. proj' = [proj EXCEPT ![p] = r] /\ proj \in [PIds -> P!Project]
    BY <2>1 DEF ProjectInv, P!TypeOK
  <2> QED
    BY <2>2, <2>3
<1>2. \A x \in P!RestoredRows(p) : /\ x \in Rows /\ row[x].st = "deleted" /\ row[x].owner = p
                                  /\ row[x].ts = proj[p].ts
  BY DEF P!RestoredRows
<1>3. row' = [x \in Rows |-> IF x \in P!RestoredRows(p)
                             THEN P!Marked(x, "live", P!Never, "no") ELSE row[x]]
  BY DEF P!restoreCascadeInTx
<1>4. ASSUME NEW x \in P!RestoredRows(p)
      PROVE  /\ row'[x] \in P!Row /\ row'[x].st = "live"
             /\ row'[x].kind = row[x].kind /\ row'[x].owner = p
  <2>1. row'[x] = P!Marked(x, "live", P!Never, "no") /\ x \in Rows /\ row[x].owner = p
    BY <1>2, <1>3
  <2> QED
    BY <1>0, <2>1, MarkedRow DEF ProjectInv, RowStates
<1>5. \A x \in Rows \ P!RestoredRows(p) : row'[x] = row[x]
  BY <1>3
<1>6. row' \in [Rows -> P!Row]
  BY <1>3, <1>4, <1>5 DEF ProjectInv, P!TypeOK
<1> QED
  BY <1>1, <1>2, <1>4, <1>5, <1>6

LEMMA RestoreProject == ASSUME ProjectInv, P!RestoreIfNameFree PROVE ProjectInv'
<1>1. PICK p \in PIds : /\ proj[p].st = "deleted" /\ P!restoreCascadeInTx(p)
                        /\ proj' = [proj EXCEPT ![p] = P!Stamped(p, "live", P!Never)]
  BY DEF P!RestoreIfNameFree
<1>2. UNCHANGED <<conf, cred, preq, stamp>>
  BY DEF P!RestoreIfNameFree
<1>3. PICK X : X = P!RestoredRows(p)
  OBVIOUS
<1>4. /\ proj' \in [PIds -> P!Project] /\ proj'[p].st = "live"
      /\ \A q \in PIds \ {p} : proj'[q] = proj[q]
      /\ \A x \in X :
            /\ x \in Rows /\ row[x].st = "deleted" /\ row[x].owner = p
            /\ row[x].ts = proj[p].ts
            /\ row'[x] \in P!Row /\ row'[x].st = "live"
            /\ row'[x].kind = row[x].kind /\ row'[x].owner = p
      /\ \A x \in Rows \ X : row'[x] = row[x]
      /\ row' \in [Rows -> P!Row]
  BY <1>1, <1>3, RestoreFacts
<1>5. RowsMoveOn
  BY <1>4 DEF RowsMoveOn, P!Present
<1>6. PICK Z : Z = {x \in X : row[x].kind = "repo"}
  OBVIOUS
<1>7. art' = P!ReindexRepo(Z)
  BY <1>1, <1>3, <1>6 DEF P!restoreCascadeInTx
<1>8. /\ art' \in [Rows -> [has : {"yes", "no"}, index : Nat]]
      /\ \A y \in Rows : art'[y].has = art[y].has
      /\ \A y \in Rows \ Z : art'[y] = art[y]
      /\ \A y \in Rows \cap Z : art'[y].has = "yes" => art'[y].index > 0
  BY <1>7, IndexPutBack
<1>9. P!IndexComplete'
  <2> SUFFICES ASSUME NEW x \in Rows, row'[x].st = "live", row'[x].kind = "repo",
                      art'[x].has = "yes"
               PROVE  art'[x].index > 0
    BY DEF P!IndexComplete, P!LiveRows
  <2>1. CASE x \in X
    BY <2>1, <1>4, <1>6, <1>8
  <2>2. CASE x \notin X
    <3>1. row'[x] = row[x] /\ art'[x] = art[x]
      BY <2>2, <1>4, <1>6, <1>8
    <3> QED
      BY <3>1 DEF ProjectInv, P!IndexComplete, P!LiveRows
  <2> QED
    BY <2>1, <2>2
<1>10. CascadeStamps'
  <2> SUFFICES ASSUME NEW x \in Rows, row'[x].st = "deleted", row'[x].own = "no"
               PROVE  /\ row'[x].owner \in PIds
                      /\ proj'[row'[x].owner].st = "deleted" /\ row'[x].ts = proj'[row'[x].owner].ts
    BY DEF CascadeStamps
  <2>1. x \notin X /\ row'[x] = row[x]
    BY <1>4
  <2>2. row[x].owner \in PIds /\ proj[row[x].owner].st = "deleted"
        /\ row[x].ts = proj[row[x].owner].ts
    BY <2>1 DEF ProjectInv, CascadeStamps
  <2>3. row[x].owner # p
    BY <2>1, <2>2, <1>3 DEF P!RestoredRows
  <2> QED
    BY <2>1, <2>2, <2>3, <1>4
<1> QED
  BY <1>2, <1>4, <1>5, <1>8, <1>9, <1>10, MoveOn

LEMMA CreateProject == ASSUME ProjectInv, P!handleCreateProject PROVE ProjectInv'
<1>1. PICK p \in PIds, n \in Names : P!CreateInTx(p, n)
  BY DEF P!handleCreateProject
<1>2. UNCHANGED <<row, conf, art, cred, preq, stamp>>
  BY DEF P!handleCreateProject
<1>3. proj' \in [PIds -> P!Project] /\ \A q \in PIds \ {p} : proj'[q] = proj[q]
  BY <1>1 DEF P!CreateInTx, P!Project, P!Never, ProjectInv, P!TypeOK
<1>4. P!IndexComplete' /\ RowsMoveOn
  BY <1>2 DEF ProjectInv, P!IndexComplete, P!LiveRows, RowsMoveOn
<1>5. CascadeStamps'
  BY <1>1, <1>2, <1>3 DEF P!CreateInTx, ProjectInv, CascadeStamps
<1>6. /\ row' \in [Rows -> P!Row] /\ art' \in [Rows -> [has : {"yes", "no"}, index : Nat]]
      /\ \A y \in Rows : art'[y].has = art[y].has
  BY <1>2 DEF ProjectInv, P!TypeOK
<1> QED
  BY <1>2, <1>3, <1>4, <1>5, <1>6, MoveOn

\* A purged project takes its keys, buckets and credentials with it.
LEMMA PurgeProject == ASSUME ProjectInv, P!HardDelete PROVE ProjectInv'
<1>1. PICK p \in PIds :
        /\ P!Present(proj[p].st)
        /\ proj' = [proj EXCEPT ![p] = P!Stamped(p, "gone", proj[p].ts)]
        /\ row' = [x \in Rows |-> IF x \in P!RowsOf(p)
                                  THEN P!Marked(x, "gone", row[x].ts, row[x].own) ELSE row[x]]
        /\ cred' = [k \in CIds |-> IF cred[k] = p THEN "gone" ELSE cred[k]]
  BY DEF P!HardDelete
<1>2. UNCHANGED <<conf, art, preq, stamp>>
  BY DEF P!HardDelete
<1>3. PICK X : X = P!RowsOf(p)
  OBVIOUS
<1>4. /\ proj' \in [PIds -> P!Project] /\ \A q \in PIds \ {p} : proj'[q] = proj[q]
  <2>1. PICK r : r = P!Stamped(p, "gone", proj[p].ts)
    OBVIOUS
  <2>2. proj[p].ts \in Int
    BY ProjectTypes DEF ProjectInv
  <2>3. r \in P!Project
    BY <2>1, <2>2, StampedProject DEF ProjectInv, RowStates
  <2>4. proj' = [proj EXCEPT ![p] = r] /\ proj \in [PIds -> P!Project]
    BY <1>1, <2>1 DEF ProjectInv, P!TypeOK
  <2> QED
    BY <2>3, <2>4
<1>5. \A x \in X : x \in Rows /\ P!Present(row[x].st) /\ row[x].owner = p
  BY <1>3 DEF P!RowsOf
<1>6. ASSUME NEW x \in X
      PROVE  /\ row'[x] \in P!Row /\ row'[x].st = "gone"
             /\ row'[x].kind = row[x].kind /\ row'[x].owner = p
  <2>1. row'[x] = P!Marked(x, "gone", row[x].ts, row[x].own) /\ x \in Rows /\ row[x].owner = p
    BY <1>1, <1>3, <1>5
  <2>2. row[x].ts \in Int /\ row[x].own \in {"yes", "no"}
    BY <2>1, RowTypes DEF ProjectInv
  <2> QED
    BY <2>1, <2>2, MarkedRow DEF ProjectInv, RowStates
<1>7. \A x \in Rows \ X : row'[x] = row[x]
  BY <1>1, <1>3
<1>8. row' \in [Rows -> P!Row]
  BY <1>1, <1>3, <1>6, <1>7 DEF ProjectInv, P!TypeOK
<1>9. RowsMoveOn
  BY <1>5, <1>6, <1>7 DEF RowsMoveOn, P!Present
<1>10. P!TypeOK'
  BY <1>1, <1>2, <1>4, <1>8 DEF ProjectInv, P!TypeOK
<1>11. ProjectRequests'
  BY <1>2, <1>9, ProjectRequestsKept DEF ProjectInv, RowsMoveOn
<1>12. FreeRowsEmpty' /\ RowsOwned'
  BY <1>2, <1>9 DEF ProjectInv, FreeRowsEmpty, RowsOwned, RowsMoveOn
<1>13. \A x \in Rows : row'[x].st \in {"live", "deleted"} => row'[x] = row[x] /\ row[x].owner # p
  BY <1>3, <1>6, <1>7 DEF P!RowsOf, P!Present
<1>14. P!IndexComplete'
  BY <1>2, <1>13 DEF ProjectInv, P!IndexComplete, P!LiveRows
<1>15. P!MirrorRules'
  <2> SUFFICES ASSUME NEW x \in Rows, conf[x].cred # None, P!Present(row'[x].st)
               PROVE  cred'[conf[x].cred] = row'[x].owner
    BY <1>2 DEF P!MirrorRules, ProjectInv
  <2>1. row'[x] = row[x] /\ row[x].owner # p /\ cred[conf[x].cred] = row[x].owner
    BY <1>13 DEF P!Present, ProjectInv, P!MirrorRules
  <2>2. conf[x].cred \in CIds
    BY DEF ProjectInv, P!TypeOK, P!MirrorConfig
  <2> QED
    BY <1>1, <2>1, <2>2
<1>16. CascadeStamps'
  BY <1>4, <1>13 DEF ProjectInv, CascadeStamps
<1> QED
  BY <1>10, <1>11, <1>12, <1>14, <1>15, <1>16 DEF ProjectInv

\* A new row, of the project the request holds, and its configuration.
LEMMA RowInserted ==
    ASSUME ProjectInv, NEW c \in Clients, P!OnProject(c), P!Done(c), NEW x \in Rows,
           NEW kind \in P!Kinds, NEW n \in Names, P!Insert(x, kind, preq[c].p, n),
           NEW r \in P!MirrorConfig, r.purge = "no", r.cred # None => cred[r.cred] = preq[c].p,
           conf' = [conf EXCEPT ![x] = r], UNCHANGED <<proj, art, cred, stamp>>
    PROVE  ProjectInv'
<1>1. preq[c].p \in PIds /\ row[x].st = "free"
  BY DEF P!OnProject, ProjectInv, ProjectRequests, P!Insert
<1>2. PICK y \in P!Row : /\ y.st = "live" /\ y.owner = preq[c].p
                         /\ row' = [row EXCEPT ![x] = y]
  <2>1. PICK y : y = [st |-> "live", kind |-> kind, owner |-> preq[c].p, name |-> n,
                      ts |-> P!Never, own |-> "no"]
    OBVIOUS
  <2>2. y \in P!Row /\ y.st = "live" /\ y.owner = preq[c].p
    BY <1>1, <2>1 DEF P!Row, P!Never
  <2>3. row' = [row EXCEPT ![x] = y]
    BY <2>1 DEF P!Insert
  <2> QED
    BY <2>2, <2>3
<1>3. /\ row' \in [Rows -> P!Row] /\ row'[x] = y /\ \A z \in Rows \ {x} : row'[z] = row[z]
      /\ conf' \in [Rows -> P!MirrorConfig] /\ conf'[x] = r
      /\ \A z \in Rows \ {x} : conf'[z] = conf[z]
  BY <1>2 DEF ProjectInv, P!TypeOK
<1>4. P!TypeOK'
  BY <1>3 DEF ProjectInv, P!TypeOK
<1>5. ProjectRequests'
  BY <1>1, <1>3, ProjectRequestsKept DEF ProjectInv
<1>6. FreeRowsEmpty' /\ RowsOwned'
  BY <1>1, <1>2, <1>3 DEF ProjectInv, FreeRowsEmpty, RowsOwned
<1>7. P!IndexComplete'
  BY <1>1, <1>3 DEF ProjectInv, P!IndexComplete, P!LiveRows, FreeRowsEmpty
<1>8. P!MirrorRules'
  BY <1>2, <1>3 DEF ProjectInv, P!MirrorRules
<1>9. CascadeStamps'
  BY <1>2, <1>3 DEF ProjectInv, CascadeStamps
<1> QED
  BY <1>4, <1>5, <1>6, <1>7, <1>8, <1>9 DEF ProjectInv

LEMMA CreateRepo ==
    ASSUME ProjectInv, NEW c \in Clients, P!handleCreateRepo(c)
    PROVE  ProjectInv'
<1>1. PICK x \in Rows, n \in Names, m \in {"yes", "no"}, k \in P!mirrorCredOwnership(preq[c].p) :
        /\ P!Insert(x, "repo", preq[c].p, n)
        /\ conf' = [conf EXCEPT ![x] = [mirror |-> m, purge |-> "no", cred |-> k]]
  BY DEF P!handleCreateRepo
<1>2. P!OnProject(c) /\ P!Done(c) /\ UNCHANGED <<proj, art, cred, stamp>>
  BY DEF P!handleCreateRepo
<1>3. k \in CIds \cup {None} /\ (k # None => cred[k] = preq[c].p)
  BY DEF P!mirrorCredOwnership
<1>4. PICK r : r = [mirror |-> m, purge |-> "no", cred |-> k]
  OBVIOUS
<1>5. r \in P!MirrorConfig /\ r.purge = "no" /\ r.cred = k
  BY <1>3, <1>4 DEF P!MirrorConfig
<1> QED
  BY <1>1, <1>2, <1>3, <1>4, <1>5, RowInserted DEF P!Kinds

LEMMA CreateKeyOrBucket ==
    ASSUME ProjectInv, NEW c \in Clients,
           P!handleCreateProjectAPIKey(c) \/ P!handleCreateS3Key(c) \/ P!handleCreateS3Bucket(c)
    PROVE  ProjectInv'
<1>1. PICK x \in Rows, n \in Names, kind \in P!Kinds : P!Insert(x, kind, preq[c].p, n)
  BY DEF P!handleCreateProjectAPIKey, P!handleCreateS3Key, P!handleCreateS3Bucket, P!Kinds
<1>2. P!OnProject(c) /\ P!Done(c) /\ UNCHANGED <<proj, conf, art, cred, stamp>>
  BY DEF P!handleCreateProjectAPIKey, P!handleCreateS3Key, P!handleCreateS3Bucket
<1>3. PICK r \in P!MirrorConfig : r = conf[x]
  BY DEF ProjectInv, P!TypeOK
<1>4. r.purge = "no" /\ r.cred = None
  BY <1>1, <1>3 DEF P!Insert, ProjectInv, FreeRowsEmpty
<1>5. conf' = [conf EXCEPT ![x] = r]
  BY <1>2, <1>3 DEF ProjectInv, P!TypeOK
<1> QED
  BY <1>1, <1>2, <1>4, <1>5, RowInserted

LEMMA CreateUpstreamCred ==
    ASSUME ProjectInv, NEW c \in Clients, P!handleCreateUpstreamCred(c)
    PROVE  ProjectInv'
<1>1. PICK k \in CIds : cred[k] = None /\ cred' = [cred EXCEPT ![k] = preq[c].p]
  BY DEF P!handleCreateUpstreamCred
<1>2. P!Done(c) /\ UNCHANGED <<proj, row, conf, art, stamp>> /\ preq[c].p \in PIds
  BY DEF P!handleCreateUpstreamCred, P!OnProject, ProjectInv, ProjectRequests
<1>3. P!TypeOK'
  BY <1>1, <1>2 DEF ProjectInv, P!TypeOK
<1>4. ProjectRequests'
  BY <1>2, ProjectRequestsKept DEF ProjectInv
<1>5. FreeRowsEmpty' /\ RowsOwned' /\ P!IndexComplete' /\ CascadeStamps'
  BY <1>2 DEF ProjectInv, FreeRowsEmpty, RowsOwned, P!IndexComplete, P!LiveRows, CascadeStamps
<1>6. P!MirrorRules'
  <2> SUFFICES ASSUME NEW x \in Rows, conf[x].cred # None, P!Present(row[x].st)
               PROVE  cred'[conf[x].cred] = row[x].owner
    BY <1>2 DEF P!MirrorRules, ProjectInv
  <2>1. cred[conf[x].cred] = row[x].owner /\ row[x].owner \in PIds
    BY DEF ProjectInv, P!MirrorRules, RowsOwned
  <2>2. conf[x].cred \in CIds /\ cred \in [CIds -> PIds \cup {None, "gone"}]
    BY DEF ProjectInv, P!TypeOK, P!MirrorConfig
  <2>3. conf[x].cred # k
    BY <1>1, <2>1, IdsAssumption
  <2> QED
    BY <1>1, <2>1, <2>2, <2>3
<1> QED
  BY <1>3, <1>4, <1>5, <1>6 DEF ProjectInv

\* The repositories lose the credential that is deleted.
LEMMA DeleteUpstreamCred ==
    ASSUME ProjectInv, NEW c \in Clients, P!handleDeleteUpstreamCred(c)
    PROVE  ProjectInv'
<1>1. PICK k \in CIds :
        /\ cred' = [cred EXCEPT ![k] = "gone"]
        /\ conf' = [x \in Rows |-> IF conf[x].cred = k
                                   THEN [conf[x] EXCEPT !.cred = None] ELSE conf[x]]
  BY DEF P!handleDeleteUpstreamCred
<1>2. P!Done(c) /\ UNCHANGED <<proj, row, art, stamp>>
  BY DEF P!handleDeleteUpstreamCred
<1>3. ASSUME NEW x \in Rows
      PROVE  /\ conf'[x] \in P!MirrorConfig /\ conf'[x].mirror = conf[x].mirror
             /\ conf'[x].purge = conf[x].purge
             /\ conf'[x].cred = IF conf[x].cred = k THEN None ELSE conf[x].cred
  <2>1. conf[x] \in P!MirrorConfig
    BY DEF ProjectInv, P!TypeOK
  <2> QED
    BY <1>1, <2>1 DEF P!MirrorConfig
<1>4. conf' \in [Rows -> P!MirrorConfig]
  BY <1>1, <1>3
<1>5. P!TypeOK'
  BY <1>1, <1>2, <1>4 DEF ProjectInv, P!TypeOK
<1>6. ProjectRequests'
  BY <1>2, <1>3, ProjectRequestsKept DEF ProjectInv
<1>7. FreeRowsEmpty' /\ RowsOwned' /\ P!IndexComplete' /\ CascadeStamps'
  BY <1>2, <1>3 DEF ProjectInv, FreeRowsEmpty, RowsOwned, P!IndexComplete, P!LiveRows, CascadeStamps
<1>8. P!MirrorRules'
  <2> SUFFICES ASSUME NEW x \in Rows
               PROVE  /\ conf'[x].purge = "yes" => conf'[x].mirror = "yes"
                      /\ conf'[x].cred # None /\ P!Present(row[x].st)
                         => cred'[conf'[x].cred] = row[x].owner
    BY <1>2 DEF P!MirrorRules
  <2>1. conf[x].cred \in CIds \cup {None} /\ cred \in [CIds -> PIds \cup {None, "gone"}]
    BY DEF ProjectInv, P!TypeOK, P!MirrorConfig
  <2> QED
    BY <1>1, <1>3, <2>1 DEF ProjectInv, P!MirrorRules
<1> QED
  BY <1>5, <1>6, <1>7, <1>8 DEF ProjectInv

\* The mirror flag a request read when it resolved the repository still
\* holds, and the credential is one of its project.
LEMMA PatchRepo ==
    ASSUME ProjectInv, NEW c \in Clients, P!handlePatchRepo(c)
    PROVE  ProjectInv'
<1>1. PICK x \in Rows : x = preq[c].x
  BY DEF P!handlePatchRepo, P!OnRow, ProjectInv, ProjectRequests
<1>2. PICK d \in P!PurgeAllowed(c), k \in P!mirrorCredOwnership(preq[c].p) :
        conf' = [conf EXCEPT ![x] = [@ EXCEPT !.purge = d, !.cred = k]]
  BY <1>1 DEF P!handlePatchRepo
<1>3. P!Done(c) /\ UNCHANGED <<proj, row, art, cred, stamp>> /\ row[x].st = "live"
      /\ row[x].owner = preq[c].p /\ preq[c].mirror = conf[x].mirror
  BY <1>1 DEF P!handlePatchRepo, P!OnRow, ProjectInv, ProjectRequests
<1>4. d \in {"yes", "no"} /\ (d = "yes" => conf[x].mirror = "yes")
  BY <1>3 DEF P!PurgeAllowed
<1>5. k \in CIds \cup {None} /\ (k # None => cred[k] = row[x].owner)
  BY <1>3 DEF P!mirrorCredOwnership
<1>6. conf[x] \in P!MirrorConfig /\ conf \in [Rows -> P!MirrorConfig]
  BY DEF ProjectInv, P!TypeOK
<1>7. PICK r : r = [conf[x] EXCEPT !.purge = d, !.cred = k]
  OBVIOUS
<1>8. r \in P!MirrorConfig /\ r.purge = d /\ r.cred = k /\ r.mirror = conf[x].mirror
  BY <1>4, <1>5, <1>6, <1>7 DEF P!MirrorConfig
<1>9. /\ conf' \in [Rows -> P!MirrorConfig] /\ conf'[x] = r
      /\ \A y \in Rows \ {x} : conf'[y] = conf[y]
  BY <1>2, <1>6, <1>7, <1>8
<1>10. P!TypeOK'
  BY <1>3, <1>9 DEF ProjectInv, P!TypeOK
<1>11. ProjectRequests'
  BY <1>3, <1>8, <1>9, ProjectRequestsKept DEF ProjectInv
<1>12. FreeRowsEmpty' /\ RowsOwned' /\ P!IndexComplete' /\ CascadeStamps'
  BY <1>3, <1>9 DEF ProjectInv, FreeRowsEmpty, RowsOwned, P!IndexComplete, P!LiveRows, CascadeStamps
<1>13. P!MirrorRules'
  BY <1>3, <1>4, <1>5, <1>8, <1>9 DEF ProjectInv, P!MirrorRules
<1> QED
  BY <1>10, <1>11, <1>12, <1>13 DEF ProjectInv

LEMMA ProjectsNext == ASSUME ProjectInv, P!Next PROVE ProjectInv'
<1>1. CASE P!Tick \/ P!handleCreateProject \/ P!RestoreIfNameFree \/ P!HardDelete \/ P!RestoreRepo
  BY <1>1, ClockTicks, CreateProject, RestoreProject, PurgeProject, RestoreOneRepo
<1>2. ASSUME NEW c \in Clients, P!Request(c)
      PROVE  ProjectInv'
  <2>1. CASE P!resolveProjectForAction(c) \/ P!resolveRepoFromURL(c) \/ P!Drop(c)
    BY <2>1, ResolveProject, ResolveRepo, DropRequest
  <2>2. CASE P!handleDeleteProject(c) \/ P!handleCreateRepo(c) \/ P!handlePatchRepo(c)
             \/ P!handleDeleteRepo(c) \/ P!handleDeleteS3Bucket(c)
    BY <2>2, DeleteProject, CreateRepo, PatchRepo, DeleteRepo, DeleteS3Bucket
  <2>3. CASE P!handleCreateProjectAPIKey(c) \/ P!handleCreateS3Key(c) \/ P!handleCreateS3Bucket(c)
             \/ P!handleCreateMyS3Key(c)
    BY <2>3, CreateKeyOrBucket DEF P!handleCreateMyS3Key
  <2>4. CASE P!handleCreateUpstreamCred(c) \/ P!handleDeleteUpstreamCred(c)
    BY <2>4, CreateUpstreamCred, DeleteUpstreamCred
  <2>5. CASE P!handleRevokeProjectAPIKey(c) \/ P!handleRevokeS3Key(c) \/ P!handleDeleteMyS3Key(c)
    BY <2>5, RevokeKeys DEF P!handleDeleteMyS3Key
  <2>6. CASE P!Upload(c) \/ P!DeleteArtifact(c) \/ P!handleWipeRepo(c)
    BY <2>6, ArtifactWritten DEF P!handleWipeRepo
  <2> QED
    BY <1>2, <2>1, <2>2, <2>3, <2>4, <2>5, <2>6 DEF P!Request
<1> QED
  BY <1>1, <1>2 DEF P!Next

\* The projects stay as they are when the part takes no step.
LEMMA ProjectsStutter == ASSUME ProjectInv, UNCHANGED pvars PROVE ProjectInv'
BY DEF pvars, ProjectInv, P!TypeOK, ProjectRequests, FreeRowsEmpty, RowsOwned, P!IndexComplete,
       P!LiveRows, P!MirrorRules, CascadeStamps

LEMMA ProjectInvariant == TSpec => [](part = "projects" => ProjectInv)
<1>1. TInit => (part = "projects" => ProjectInv)
  BY ProjectsInit DEF TInit
<1>2. (part = "projects" => ProjectInv) /\ [TNext]_tvars => (part = "projects" => ProjectInv)'
  <2> SUFFICES ASSUME part = "projects" => ProjectInv, [TNext]_tvars, part' = "projects"
               PROVE  ProjectInv'
    OBVIOUS
  <2>1. ProjectInv /\ (P!Next \/ UNCHANGED pvars)
    BY PartSteps
  <2> QED
    BY <2>1, ProjectsNext, ProjectsStutter
<1> QED
  BY <1>1, <1>2, PTL DEF TSpec

\* Every artifact of a live repository is indexed, purges are on in mirrors
\* only, and a repository names a credential of its own project, after any
\* interleaving (fts.go, api/repos.go, mirror_validate.go).
THEOREM RepositoriesStayConsistent == TSpec => []RepositoriesConsistent
<1>1. (part = "projects" => ProjectInv) => RepositoriesConsistent
  BY DEF ProjectInv, RepositoriesConsistent
<1> QED
  BY <1>1, ProjectInvariant, PTL

LEMMA RestoreNext == ASSUME ProjectInv, P!Next PROVE P!RestoreStep
<1> SUFFICES ASSUME NEW p \in PIds, proj[p].st = "deleted", proj'[p].st = "live",
                    NEW x \in P!RowsOf(p)
             PROVE  /\ row[x].own = "no" => row'[x].st = "live"
                    /\ row[x].own = "yes" /\ row[x].st = "deleted" /\ row'[x].st = "live"
                       => row[x].ts = proj[p].ts
  BY DEF P!RestoreStep
<1>1. P!RestoreIfNameFree
  <2>1. proj' # proj
    OBVIOUS
  <2>2. CASE P!handleCreateProject
    <3>1. PICK q \in PIds, n \in Names : P!CreateInTx(q, n)
      BY <2>2 DEF P!handleCreateProject
    <3>2. q # p /\ proj'[p] = proj[p]
      BY <3>1 DEF P!CreateInTx, ProjectInv, P!TypeOK
    <3> QED
      BY <3>2
  <2>3. CASE P!HardDelete
    <3>1. PICK q \in PIds : proj' = [proj EXCEPT ![q] = P!Stamped(q, "gone", proj[q].ts)]
      BY <2>3 DEF P!HardDelete
    <3>2. P!Stamped(q, "gone", proj[q].ts).st = "gone"
      BY ProjectTypes, StampedProject DEF ProjectInv, RowStates
    <3> QED
      BY <3>1, <3>2 DEF ProjectInv, P!TypeOK
  <2>4. ASSUME NEW c \in Clients, P!handleDeleteProject(c)
        PROVE  FALSE
    <3>1. PICK q \in PIds, ts \in Int : proj' = [proj EXCEPT ![q] = P!Stamped(q, "deleted", ts)]
      <4>1. preq[c].p \in PIds /\ stamp \in Int
        BY <2>4 DEF P!handleDeleteProject, P!OnProject, ProjectInv, ProjectRequests, P!TypeOK
      <4>2. proj[preq[c].p].ts \in Int
        BY <4>1, ProjectTypes DEF ProjectInv
      <4> QED
        BY <2>4, <4>1, <4>2 DEF P!handleDeleteProject, P!SoftDelete
    <3>2. P!Stamped(q, "deleted", ts).st = "deleted"
      BY StampedProject DEF ProjectInv, RowStates
    <3> QED
      BY <3>1, <3>2 DEF ProjectInv, P!TypeOK
  <2>5. \A c \in Clients : P!Request(c) => P!handleDeleteProject(c) \/ proj' = proj
    BY DEF P!Request, P!resolveProjectForAction, P!resolveRepoFromURL, P!Drop, P!handleCreateRepo,
           P!handleCreateProjectAPIKey, P!handleCreateS3Key, P!handleCreateS3Bucket,
           P!handleCreateUpstreamCred, P!handleDeleteUpstreamCred, P!handlePatchRepo,
           P!handleDeleteRepo, P!handleRevokeProjectAPIKey, P!handleRevokeS3Key,
           P!handleDeleteS3Bucket, P!handleCreateMyS3Key, P!handleDeleteMyS3Key, P!Upload,
           P!DeleteArtifact, P!handleWipeRepo
  <2> QED
    BY <2>1, <2>2, <2>3, <2>4, <2>5 DEF P!Next, P!Tick, P!RestoreRepo
<1>2. PICK q \in PIds : /\ proj[q].st = "deleted" /\ P!restoreCascadeInTx(q)
                        /\ proj' = [proj EXCEPT ![q] = P!Stamped(q, "live", P!Never)]
  BY <1>1 DEF P!RestoreIfNameFree
<1>3. q = p
  <2>1. \A z \in PIds \ {q} : proj'[z] = proj[z]
    BY <1>2, RestoreFacts
  <2> QED
    BY <2>1
<1>4. /\ \A y \in P!RestoredRows(p) : row[y].ts = proj[p].ts /\ row'[y].st = "live"
      /\ \A y \in Rows \ P!RestoredRows(p) : row'[y] = row[y]
  <2>1. /\ P!restoreCascadeInTx(p)
        /\ proj' = [proj EXCEPT ![p] = P!Stamped(p, "live", P!Never)]
    BY <1>2, <1>3
  <2>2. /\ \A y \in P!RestoredRows(p) :
              /\ y \in Rows /\ row[y].st = "deleted" /\ row[y].owner = p
              /\ row[y].ts = proj[p].ts
              /\ row'[y] \in P!Row /\ row'[y].st = "live"
              /\ row'[y].kind = row[y].kind /\ row'[y].owner = p
        /\ \A y \in Rows \ P!RestoredRows(p) : row'[y] = row[y]
    BY <2>1, RestoreFacts, Zenon
  <2> QED
    BY <2>2
<1>5. x \in Rows /\ row[x].owner = p /\ row[x].st \in {"live", "deleted"}
  BY DEF P!RowsOf, P!Present
<1>6. ASSUME row[x].own = "no"
      PROVE  row'[x].st = "live"
  <2>1. CASE row[x].st = "live"
    BY <2>1, <1>4, <1>5
  <2>2. CASE row[x].st = "deleted"
    <3>1. row[x].ts = proj[p].ts
      BY <1>5, <1>6, <2>2 DEF ProjectInv, CascadeStamps
    <3>2. x \in P!RestoredRows(p)
      BY <1>5, <2>2, <3>1 DEF P!RestoredRows
    <3> QED
      BY <1>4, <3>2
  <2> QED
    BY <1>5, <2>1, <2>2
<1>7. row[x].st = "deleted" /\ row'[x].st = "live" => row[x].ts = proj[p].ts
  BY <1>4, <1>5
<1> QED
  BY <1>6, <1>7

\* Restoring a project brings back every row its deletion took and nobody
\* revoked since, and none that was revoked in another second
\* (projects.go:116, 122, 349).
THEOREM RestoresAreExact == TSpec => RestoreExact
<1>1. (part = "projects" => ProjectInv) /\ [TNext]_tvars
      => [part = "projects" => P!RestoreStep]_tvars
  <2> SUFFICES ASSUME part = "projects", ProjectInv, [TNext]_tvars, ~ UNCHANGED tvars
               PROVE  P!RestoreStep
    OBVIOUS
  <2>1. P!Next
    BY DEF TNext
  <2> QED
    BY <2>1, RestoreNext
<1> QED
  BY <1>1, ProjectInvariant, PTL DEF TSpec, RestoreExact
-----------------------------------------------------------------------------
(* Accounts: proofs about module Accounts itself, for any accounts,        *)
(* sessions, keys and concurrent requests.                                 *)
(*                                                                         *)
(* That a super-admin remains is not inductive: a request may create an    *)
(* ordinary account, so the invariant also says that whoever got past      *)
(* authentication found an account (RequestsStarted).  The sessions have   *)
(* an invariant of their own: the expiry a request is about to write was   *)
(* computed from the row as it was, and the row may be gone by then.       *)

(* What the theorems assume of the constants.                              *)
ConstantsOK ==
    /\ IsFiniteSet(Ids)
    /\ SessionTTL \in Nat /\ SessionHardTTL \in Nat /\ SessionTTL <= SessionHardTTL

Someone == \E u \in Ids : acct[u].st # "free"

AccountTypes == acct \in [Ids -> Account] /\ setups \in Nat /\ DOMAIN req = Clients

(* A request past authentication found an account.                         *)
RequestsStarted == \A c \in Clients : req[c].op \notin {"idle", "setup"} => Someone

SetupsCounted == SetupOnce /\ (setups = 1 => Someone)

AccountInv == AccountTypes /\ SuperAdminRemains /\ RequestsStarted /\ SetupsCounted

-----------------------------------------------------------------------------
\* The guard of deletions and demotions leaves another live super-admin.
LEMMA AnotherSuperAdmin ==
    ASSUME ConstantsOK, NEW u \in LiveSuperAdmins, SuperAdminLeft(u)
    PROVE  \E v \in LiveSuperAdmins : v # u
<1>1. Cardinality(LiveSuperAdmins) > 1
  BY DEF SuperAdminLeft, LiveSuperAdmins
<1>2. IsFiniteSet(LiveSuperAdmins)
  <2>1. LiveSuperAdmins \in SUBSET Ids
    BY DEF LiveSuperAdmins, LiveUsers
  <2> QED
    BY <2>1, FS_Subset DEF ConstantsOK
<1>3. SUFFICES ASSUME \A v \in LiveSuperAdmins : v = u
               PROVE  FALSE
  OBVIOUS
<1>4. LiveSuperAdmins = {u}
  BY <1>3
<1>5. Cardinality(LiveSuperAdmins) = 1
  BY <1>4, FS_Singleton
<1> QED
  BY <1>1, <1>5

\* A new account is live, and a super-admin if it is the first.
LEMMA InsertKeeps ==
    ASSUME acct \in [Ids -> Account], SuperAdminRemains, NEW u \in Ids,
           NEW super \in {"yes", "no"}, NEW must \in {"yes", "no"},
           InsertUser(u, super, must), super = "yes" \/ Someone
    PROVE  acct' \in [Ids -> Account] /\ SuperAdminRemains' /\ Someone'
<1>1. acct' \in [Ids -> Account] /\ acct'[u] = [st |-> "live", super |-> super, must |-> must]
  BY DEF InsertUser, Account, States
<1>2. \A v \in Ids \ {u} : acct'[v] = acct[v]
  BY DEF InsertUser
<1>3. acct[u].st = "free"
  BY DEF InsertUser
<1>4. Someone'
  BY <1>1 DEF Someone
<1>5. LiveSuperAdmins' # {}
  <2>1. CASE super = "yes"
    <3>1. u \in LiveSuperAdmins'
      BY <2>1, <1>1 DEF LiveSuperAdmins, LiveUsers
    <3> QED
      BY <3>1
  <2>2. CASE Someone
    <3>1. PICK v \in LiveSuperAdmins : TRUE
      BY <2>2 DEF SuperAdminRemains, Someone
    <3>2. v \in Ids \ {u}
      BY <1>3 DEF LiveSuperAdmins, LiveUsers
    <3>3. v \in LiveSuperAdmins'
      BY <3>2, <1>2 DEF LiveSuperAdmins, LiveUsers
    <3> QED
      BY <3>3
  <2> QED
    BY <2>1, <2>2
<1> QED
  BY <1>1, <1>4, <1>5 DEF SuperAdminRemains

\* A deletion under the guard leaves a live super-admin and no free row.
LEMMA DeleteKeeps ==
    ASSUME ConstantsOK, acct \in [Ids -> Account], SuperAdminRemains,
           NEW u, DeleteEnforceLastSuperAdmin(u)
    PROVE  acct' \in [Ids -> Account] /\ SuperAdminRemains' /\ Someone'
<1>0. u \in Ids /\ acct[u].st = "live" /\ SuperAdminLeft(u)
  BY DEF DeleteEnforceLastSuperAdmin, Live
<1>1. acct' \in [Ids -> Account]
  <2>1. [acct[u] EXCEPT !.st = "gone"] \in Account
    BY <1>0 DEF Account, States
  <2> QED
    BY <1>0, <2>1 DEF DeleteEnforceLastSuperAdmin
<1>2. \A v \in Ids \ {u} : acct'[v] = acct[v]
  BY DEF DeleteEnforceLastSuperAdmin
<1>3. acct'[u].st = "gone"
  BY <1>0 DEF DeleteEnforceLastSuperAdmin, Account
<1>4. PICK v \in LiveSuperAdmins : v # u
  <2>1. CASE acct[u].super = "no"
    BY <2>1, <1>0 DEF SuperAdminRemains, LiveSuperAdmins
  <2>2. CASE acct[u].super = "yes"
    <3>1. u \in LiveSuperAdmins
      BY <2>2, <1>0 DEF LiveSuperAdmins, LiveUsers
    <3> QED
      BY <3>1, <1>0, AnotherSuperAdmin
  <2> QED
    BY <2>1, <2>2, <1>0 DEF Account
<1>5. v \in LiveSuperAdmins'
  BY <1>2, <1>4 DEF LiveSuperAdmins, LiveUsers
<1>6. Someone'
  BY <1>0, <1>3 DEF Someone
<1> QED
  BY <1>1, <1>5, <1>6 DEF SuperAdminRemains

\* So does a demotion.
LEMMA PatchKeeps ==
    ASSUME ConstantsOK, acct \in [Ids -> Account], SuperAdminRemains,
           NEW u \in LiveUsers, NEW super \in {"yes", "no"}, NEW must \in {"yes", "no"},
           acct' = [acct EXCEPT ![u].super = super, ![u].must = must],
           super = "yes" \/ SuperAdminLeft(u)
    PROVE  acct' \in [Ids -> Account] /\ SuperAdminRemains' /\ Someone'
<1>0. u \in Ids /\ acct[u].st = "live"
  BY DEF LiveUsers
<1>1. acct' \in [Ids -> Account]
  <2>1. [acct[u] EXCEPT !.super = super, !.must = must] \in Account
    BY <1>0 DEF Account, States
  <2> QED
    BY <1>0, <2>1
<1>2. \A v \in Ids \ {u} : acct'[v] = acct[v]
  OBVIOUS
<1>3. acct'[u].st = "live" /\ acct'[u].super = super
  BY <1>0 DEF Account
<1>4. LiveSuperAdmins' # {}
  <2>1. CASE super = "yes"
    <3>1. u \in LiveSuperAdmins'
      BY <2>1, <1>0, <1>3 DEF LiveSuperAdmins, LiveUsers
    <3> QED
      BY <3>1
  <2>2. CASE SuperAdminLeft(u) /\ super = "no"
    <3>1. PICK v \in LiveSuperAdmins : v # u
      <4>1. CASE acct[u].super = "no"
        BY <4>1, <1>0 DEF SuperAdminRemains, LiveSuperAdmins
      <4>2. CASE acct[u].super = "yes"
        <5>1. u \in LiveSuperAdmins
          BY <4>2, <1>0 DEF LiveSuperAdmins, LiveUsers
        <5> QED
          BY <5>1, <2>2, AnotherSuperAdmin
      <4> QED
        BY <4>1, <4>2, <1>0 DEF Account
    <3>2. v \in LiveSuperAdmins'
      BY <3>1, <1>2 DEF LiveSuperAdmins, LiveUsers
    <3> QED
      BY <3>2
  <2> QED
    BY <2>1, <2>2
<1>5. Someone'
  BY <1>0, <1>3 DEF Someone
<1> QED
  BY <1>1, <1>4, <1>5 DEF SuperAdminRemains

\* A new password changes neither who is live nor who is a super-admin.
LEMMA PasswordKeeps ==
    ASSUME acct \in [Ids -> Account], SuperAdminRemains, Someone, NEW u,
           acct' = UpdatePasswordHash(u)
    PROVE  acct' \in [Ids -> Account] /\ SuperAdminRemains' /\ Someone'
<1>1. acct' \in [Ids -> Account]
  <2>1. u \in Ids => [acct[u] EXCEPT !.must = "no"] \in Account
    BY DEF Account
  <2> QED
    BY <2>1 DEF UpdatePasswordHash
<1>2. \A v \in Ids : acct'[v].st = acct[v].st /\ acct'[v].super = acct[v].super
  BY DEF UpdatePasswordHash, Account
<1>3. LiveSuperAdmins' = LiveSuperAdmins
  BY <1>2 DEF LiveSuperAdmins, LiveUsers
<1> QED
  BY <1>1, <1>2, <1>3 DEF SuperAdminRemains, Someone

\* A request that leaves the accounts alone: it may go on only if it had
\* got past authentication, or finds an account now.
LEMMA OthersKeep ==
    ASSUME AccountInv, UNCHANGED <<acct, setups>>, NEW c \in Clients, NEW r,
           req' = [req EXCEPT ![c] = r], r.op \notin {"idle", "setup"} => Someone
    PROVE  AccountInv'
BY DEF AccountInv, AccountTypes, SuperAdminRemains, LiveSuperAdmins, LiveUsers,
       RequestsStarted, Someone, SetupsCounted, SetupOnce

\* A request that changes the accounts, and keeps what the lemmas above say.
LEMMA WritersKeep ==
    ASSUME AccountInv, NEW c \in Clients, NEW r, req' = [req EXCEPT ![c] = r],
           acct' \in [Ids -> Account], SuperAdminRemains', Someone',
           setups' = setups \/ (setups = 0 /\ setups' = 1)
    PROVE  AccountInv'
BY DEF AccountInv, AccountTypes, RequestsStarted, SetupsCounted, SetupOnce

LEMMA NoAccountNoSetup ==
    ASSUME AccountInv, LiveUsers = {}
    PROVE  setups = 0 /\ ~Someone
<1>1. LiveSuperAdmins = {}
  BY DEF LiveSuperAdmins
<1>2. ~Someone
  BY <1>1 DEF AccountInv, SuperAdminRemains, Someone
<1> QED
  BY <1>2 DEF AccountInv, AccountTypes, SetupsCounted, SetupOnce

\* Every request keeps the invariant of the accounts.
LEMMA AccountStep ==
    ASSUME ConstantsOK, AccountInv, NEW c \in Clients, Request(c)
    PROVE  AccountInv'
<1>0. acct \in [Ids -> Account] /\ SuperAdminRemains
  BY DEF AccountInv, AccountTypes
<1>st. req[c].op \notin {"idle", "setup"} => Someone
  BY DEF AccountInv, RequestsStarted
<1>lu. ASSUME NEW u \in LiveUsers
       PROVE  Someone
  BY <1>lu DEF LiveUsers, Someone
<1>lv. ASSUME NEW u, Live(u)
       PROVE  Someone
  BY <1>lv DEF Live, Someone
<1>1. CASE SetupBegin(c)
  BY <1>1, OthersKeep DEF SetupBegin, Hold
<1>2. CASE SetupCommit(c)
  <2>1. CASE LiveUsers # {} /\ UNCHANGED <<acct, setups>>
    BY <2>1, <1>2, OthersKeep DEF SetupCommit, Done, Idle
  <2>2. CASE LiveUsers = {} /\ setups' = setups + 1 /\ \E u \in Ids : InsertUser(u, "yes", "no")
    <3>1. setups = 0
      BY <2>2, NoAccountNoSetup
    <3>2. acct' \in [Ids -> Account] /\ SuperAdminRemains' /\ Someone'
      BY <2>2, <1>0, InsertKeeps
    <3>3. setups' = 1 /\ req' = [req EXCEPT ![c] = Idle]
      BY <1>2, <2>2, <3>1 DEF SetupCommit, Done
    <3> QED
      BY <3>1, <3>2, <3>3, WritersKeep
  <2> QED
    BY <2>1, <2>2, <1>2 DEF SetupCommit
<1>3. CASE LoginVerify(c)
  BY <1>3, <1>lu, OthersKeep DEF LoginVerify, Hold
<1>4. CASE LoginCreateSession(c)
  BY <1>4, OthersKeep DEF LoginCreateSession, Done, Idle
<1>5. CASE authenticateSession(c)
  <2>1. PICK s \in Sids : Live(sess[s].user) /\
              \E r : req' = [req EXCEPT ![c] = r]
    BY <1>5 DEF authenticateSession, Hold
  <2> QED
    BY <1>5, <2>1, <1>lv, OthersKeep DEF authenticateSession
<1>6. CASE authenticateAPIKey(c)
  BY <1>6, <1>lv, OthersKeep DEF authenticateAPIKey, Hold
<1>7. CASE authenticatePassword(c)
  BY <1>7, <1>lu, OthersKeep DEF authenticatePassword, Hold
<1>8. CASE VerifyBearer(c)
  BY <1>8, <1>lu, OthersKeep DEF VerifyBearer, Hold
<1>9. CASE TouchSession(c)
  BY <1>9, <1>st, OthersKeep DEF TouchSession, Hold
<1>10. CASE handleLogout(c)
  BY <1>10, OthersKeep DEF handleLogout, Done, Idle
<1>11. CASE ChangePassword(c)
  <2>1. Someone
    BY <1>11, <1>st DEF ChangePassword
  <2>2. acct' \in [Ids -> Account] /\ SuperAdminRemains' /\ Someone'
    BY <1>11, <1>0, <2>1, PasswordKeeps DEF ChangePassword
  <2> QED
    BY <1>11, <2>2, WritersKeep DEF ChangePassword, Hold
<1>12. CASE ChangePasswordSessions(c)
  BY <1>12, OthersKeep DEF ChangePasswordSessions, Done, Idle
<1>13. CASE DeleteMe(c)
  <2>1. CASE DeleteEnforceLastSuperAdmin(req[c].user)
    <3>1. acct' \in [Ids -> Account] /\ SuperAdminRemains' /\ Someone'
      BY <2>1, <1>0, DeleteKeeps
    <3>2. \E r : req' = [req EXCEPT ![c] = r]
      BY <1>13 DEF DeleteMe, Hold, Done
    <3> QED
      BY <1>13, <3>1, <3>2, WritersKeep DEF DeleteMe
  <2>2. CASE Done(c) /\ UNCHANGED acct
    BY <1>13, <2>2, OthersKeep DEF DeleteMe, Done, Idle
  <2> QED
    BY <2>1, <2>2, <1>13 DEF DeleteMe
<1>14. CASE DeleteMeSessions(c)
  BY <1>14, <1>st, OthersKeep DEF DeleteMeSessions, Hold
<1>15. CASE DeleteMeKeys(c)
  BY <1>15, OthersKeep DEF DeleteMeKeys, Done, Idle
<1>16. CASE handleCreateAPIKey(c)
  BY <1>16, OthersKeep DEF handleCreateAPIKey, Done, Idle
<1>17. CASE handleRevokeAPIKey(c)
  BY <1>17, OthersKeep DEF handleRevokeAPIKey, Done, Idle
<1>18. CASE handleCreateUser(c)
  <2>1. Someone
    BY <1>18, <1>st DEF handleCreateUser, MayAdmin, MayAct
  <2>2. acct' \in [Ids -> Account] /\ SuperAdminRemains' /\ Someone'
    BY <1>18, <1>0, <2>1, InsertKeeps DEF handleCreateUser
  <2> QED
    BY <1>18, <2>2, WritersKeep DEF handleCreateUser, Done
<1>19. CASE handleDeleteUser(c)
  <2>1. acct' \in [Ids -> Account] /\ SuperAdminRemains' /\ Someone'
    BY <1>19, <1>0, DeleteKeeps DEF handleDeleteUser
  <2> QED
    BY <1>19, <2>1, WritersKeep DEF handleDeleteUser, Done
<1>20. CASE handlePatchUser(c)
  <2>1. acct' \in [Ids -> Account] /\ SuperAdminRemains' /\ Someone'
    BY <1>20, <1>0, PatchKeeps DEF handlePatchUser, ApplyAdminPatch
  <2> QED
    BY <1>20, <2>1, WritersKeep DEF handlePatchUser, Done
<1>21. CASE Drop(c)
  BY <1>21, OthersKeep DEF Drop, Done, Idle
<1> QED
  BY <1>1, <1>2, <1>3, <1>4, <1>5, <1>6, <1>7, <1>8, <1>9, <1>10, <1>11, <1>12, <1>13,
     <1>14, <1>15, <1>16, <1>17, <1>18, <1>19, <1>20, <1>21
  DEF Request, SessionOrAPIKey, BasicOrAPIKey

\* The invariant of the accounts holds in every state.
THEOREM AccountInvariance ==
    ASSUME ConstantsOK
    PROVE  Spec => []AccountInv
<1>1. Init => AccountInv
  BY DEF Init, AccountInv, AccountTypes, Account, States, SuperAdminRemains, RequestsStarted,
         SetupsCounted, SetupOnce, Idle
<1>2. AccountInv /\ [Next]_vars => AccountInv'
  <2> SUFFICES ASSUME AccountInv, [Next]_vars
               PROVE  AccountInv'
    OBVIOUS
  <2>1. CASE Tick
    BY <2>1 DEF Tick, AccountInv, AccountTypes, SuperAdminRemains, LiveSuperAdmins, LiveUsers,
                RequestsStarted, Someone, SetupsCounted, SetupOnce
  <2>2. CASE \E c \in Clients : Request(c)
    BY <2>2, AccountStep
  <2>3. CASE UNCHANGED vars
    BY <2>3 DEF vars, AccountInv, AccountTypes, SuperAdminRemains, LiveSuperAdmins, LiveUsers,
                RequestsStarted, Someone, SetupsCounted, SetupOnce
  <2> QED
    BY <2>1, <2>2, <2>3 DEF Next
<1> QED
  BY <1>1, <1>2, PTL DEF Spec

(* An installation with an account always has a live super-admin: the      *)
(* counts of users.go:211 and admin patches, each in its transaction, are  *)
(* enough whatever deletions, demotions and setups interleave.             *)
THEOREM ASuperAdminRemains ==
    ASSUME ConstantsOK
    PROVE  Spec => []SuperAdminRemains
<1>1. AccountInv => SuperAdminRemains
  BY DEF AccountInv
<1> QED
  BY <1>1, AccountInvariance, PTL

(* First-run setup creates one account in the life of the installation:    *)
(* the check repeated in its transaction (setup.go:72) is enough.          *)
THEOREM SetupHappensOnce ==
    ASSUME ConstantsOK
    PROVE  Spec => []SetupOnce
<1>1. AccountInv => SetupOnce
  BY DEF AccountInv, SetupsCounted
<1> QED
  BY <1>1, AccountInvariance, PTL
-----------------------------------------------------------------------------
(* Sessions.                                                               *)

SessionTypes ==
    /\ sess \in [Sids -> Session] /\ keys \in [Kids -> Key]
    /\ now \in Nat /\ ended \subseteq Sids /\ DOMAIN req = Clients

(* Requests name accounts.                                                 *)
RequestsNamed ==
    \A c \in Clients :
        /\ req[c].op \in {"login", "actor"} => req[c].user \in Ids
        /\ req[c].op = "slide" => req[c].actor.op = "actor" /\ req[c].actor.user \in Ids

(* The expiry a request is about to store is within the cap of the row it  *)
(* read, or that row is gone.                                              *)
SlidesCapped ==
    \A c \in Clients : req[c].op = "slide" =>
        /\ req[c].sid \in Sids /\ req[c].seen \in Nat /\ req[c].exp \in Nat
        /\ sess[req[c].sid].st # "free"
        /\ sess[req[c].sid].st = "live" => req[c].exp <= HardCap(req[c].sid)

(* A session row that is gone is not used again.                           *)
EndedGone == \A s \in ended : sess[s].st = "gone"

SessionInv ==
    SessionTypes /\ RequestsNamed /\ SlidesCapped /\ SessionWithinHardCap /\ EndedGone

\* Deleting sessions.
LEMMA SessionsDeleted ==
    ASSUME SessionInv, NEW S, sess' = SessionsWithout(S)
    PROVE  /\ sess' \in [Sids -> Session]
           /\ \A s \in Sids : sess'[s] = sess[s] \/ (sess[s].st = "live" /\ sess'[s].st = "gone")
<1>1. DeadSession \in Session /\ DeadSession.st = "gone"
  BY DEF DeadSession, NoSession, Session, States
<1> QED
  BY <1>1 DEF SessionInv, SessionTypes, SessionsWithout

\* Requests that create no session and raise no expiry: rows stay or go.
LEMMA RowsStayOrGo ==
    ASSUME SessionInv, NEW c \in Clients, NEW r, req' = [req EXCEPT ![c] = r],
           sess' \in [Sids -> Session], keys' \in [Kids -> Key], now' = now,
           \A s \in Sids : sess'[s] = sess[s] \/ (sess[s].st = "live" /\ sess'[s].st = "gone"),
           ended' = ended,
           r.op \in {"login", "actor"} => r.user \in Ids,
           r.op # "slide"
    PROVE  SessionInv'
<1> USE DEF SessionInv
<1>1. SessionTypes'
  BY DEF SessionTypes
<1>2. RequestsNamed'
  BY DEF SessionTypes, RequestsNamed
<1>3. SlidesCapped'
  BY DEF SessionTypes, SlidesCapped, HardCap
<1>4. SessionWithinHardCap'
  BY DEF SessionTypes, SessionWithinHardCap, HardCap
<1>5. EndedGone'
  BY DEF SessionTypes, EndedGone
<1> QED
  BY <1>1, <1>2, <1>3, <1>4, <1>5

\* A sign-in takes a row that was never used.
LEMMA LoginKeeps ==
    ASSUME ConstantsOK, SessionInv, NEW c \in Clients, LoginCreateSession(c)
    PROVE  SessionInv'
<1> USE DEF SessionInv
<1>0. req' = [req EXCEPT ![c] = Idle] /\ UNCHANGED <<keys, now, ended>> /\ req[c].user \in Ids
  BY DEF LoginCreateSession, Done, RequestsNamed
<1>1. PICK s \in Sids :
         /\ sess[s].st = "free"
         /\ sess' = [sess EXCEPT ![s] =
               [st |-> "live", user |-> req[c].user, issued |-> now, seen |-> now,
                exp |-> SessionExpiry]]
  BY DEF LoginCreateSession
<1>2. [st |-> "live", user |-> req[c].user, issued |-> now, seen |-> now,
       exp |-> SessionExpiry] \in Session
  BY <1>0 DEF Session, States, SessionTypes, SessionExpiry, ConstantsOK
<1>3. SessionTypes'
  BY <1>0, <1>1, <1>2 DEF SessionTypes
<1>4. RequestsNamed'
  BY <1>0 DEF SessionTypes, RequestsNamed, Idle
<1>5. SlidesCapped'
  BY <1>0, <1>1 DEF SessionTypes, SlidesCapped, HardCap, Idle
<1>6. SessionWithinHardCap'
  BY <1>1 DEF SessionTypes, SessionWithinHardCap, HardCap, SessionExpiry, ConstantsOK
<1>7. EndedGone'
  BY <1>0, <1>1 DEF SessionTypes, EndedGone
<1> QED
  BY <1>3, <1>4, <1>5, <1>6, <1>7

\* A request computes the expiry from the row it reads.
LEMMA AuthenticateKeeps ==
    ASSUME ConstantsOK, SessionInv, NEW c \in Clients, authenticateSession(c)
    PROVE  SessionInv'
<1> USE DEF SessionInv
<1>0. UNCHANGED <<sess, keys, now, ended>>
  BY DEF authenticateSession
<1>1. PICK s \in Sids :
         /\ SessionFound(s) /\ Live(sess[s].user)
         /\ \/ Hold(c, [op |-> "slide", sid |-> s, seen |-> now, exp |-> SlidingExpiry(s),
                         actor |-> Actor(sess[s].user, s)])
            \/ Hold(c, Actor(sess[s].user, s))
  BY DEF authenticateSession
<1>2. sess[s].user \in Ids /\ sess[s].st = "live"
  BY <1>1 DEF Live, SessionFound
<1>3. CASE Hold(c, Actor(sess[s].user, s))
  <2>1. PICK r : r.op = "actor" /\ r.user \in Ids /\ req' = [req EXCEPT ![c] = r]
    BY <1>2, <1>3 DEF Hold, Actor
  <2> QED
    BY <1>0, <2>1, RowsStayOrGo DEF SessionTypes
<1>4. CASE Hold(c, [op |-> "slide", sid |-> s, seen |-> now, exp |-> SlidingExpiry(s),
                    actor |-> Actor(sess[s].user, s)])
  <2> DEFINE r == [op |-> "slide", sid |-> s, seen |-> now, exp |-> SlidingExpiry(s),
                   actor |-> Actor(sess[s].user, s)]
  <2>1. sess[s].issued \in Nat
    BY DEF SessionTypes, Session
  <2>2. SlidingExpiry(s) \in Nat /\ SlidingExpiry(s) <= HardCap(s)
    BY <2>1 DEF SlidingExpiry, HardCap, ConstantsOK, SessionTypes
  <2>3. r.actor.op = "actor" /\ r.actor.user \in Ids
    BY <1>2 DEF Actor
  <2>4. r.op = "slide" /\ r.sid = s /\ r.seen = now /\ r.exp = SlidingExpiry(s)
    OBVIOUS
  <2>5. req' = [req EXCEPT ![c] = r]
    BY <1>4 DEF Hold
  <2> HIDE DEF r
  <2>6. SessionTypes' /\ SessionWithinHardCap' /\ EndedGone'
    BY <1>0, <2>5 DEF SessionTypes, SessionWithinHardCap, HardCap, EndedGone
  <2>7. RequestsNamed'
    BY <2>3, <2>4, <2>5 DEF RequestsNamed, SessionTypes
  <2>8. SlidesCapped'
    BY <1>0, <1>2, <2>2, <2>4, <2>5 DEF SlidesCapped, SessionTypes, HardCap
  <2> QED
    BY <2>6, <2>7, <2>8
<1> QED
  BY <1>1, <1>3, <1>4

\* The late write of that expiry.
LEMMA TouchKeeps ==
    ASSUME ConstantsOK, SessionInv, NEW c \in Clients, TouchSession(c)
    PROVE  SessionInv'
<1> USE DEF SessionInv
<1>0. /\ req[c].op = "slide" /\ req' = [req EXCEPT ![c] = req[c].actor]
      /\ UNCHANGED <<keys, now, ended>>
      /\ req[c].actor.op = "actor" /\ req[c].actor.user \in Ids
  BY DEF TouchSession, Hold, RequestsNamed
<1>1. CASE UNCHANGED sess
  BY <1>0, <1>1, RowsStayOrGo DEF SessionTypes
<1>2. CASE sess[req[c].sid].st = "live"
           /\ sess' = [sess EXCEPT ![req[c].sid].seen = req[c].seen, ![req[c].sid].exp = req[c].exp]
  <2>0. PICK s \in Sids : s = req[c].sid
    BY <1>0 DEF SlidesCapped
  <2>1. req[c].seen \in Nat /\ req[c].exp \in Nat /\ req[c].exp <= HardCap(s)
    BY <1>0, <1>2, <2>0 DEF SlidesCapped
  <2>2. [sess[s] EXCEPT !.seen = req[c].seen, !.exp = req[c].exp] \in Session
    BY <2>1 DEF SessionTypes, Session
  <2>3. sess' = [sess EXCEPT ![s] = [sess[s] EXCEPT !.seen = req[c].seen, !.exp = req[c].exp]]
    BY <1>2, <2>0
  <2>4. /\ sess'[s].st = "live" /\ sess'[s].issued = sess[s].issued /\ sess'[s].exp = req[c].exp
        /\ \A x \in Sids \ {s} : sess'[x] = sess[x]
    BY <1>2, <2>0, <2>3 DEF SessionTypes, Session
  <2>5. SessionTypes'
    BY <1>0, <2>2, <2>3 DEF SessionTypes
  <2>6. RequestsNamed'
    BY <1>0 DEF RequestsNamed, SessionTypes
  <2>7. SlidesCapped'
    BY <1>0, <1>2, <2>0, <2>4 DEF SlidesCapped, HardCap, SessionTypes
  <2>8. SessionWithinHardCap'
    BY <2>1, <2>4 DEF SessionWithinHardCap, HardCap
  <2>9. EndedGone'
    BY <1>0, <1>2, <2>0, <2>4 DEF EndedGone, SessionTypes
  <2> QED
    BY <2>5, <2>6, <2>7, <2>8, <2>9
<1> QED
  BY <1>1, <1>2 DEF TouchSession, SlideExpiry

\* A password reset ends the sessions it finds.
LEMMA PatchEnds ==
    ASSUME SessionInv, NEW c \in Clients, handlePatchUser(c)
    PROVE  SessionInv'
<1> USE DEF SessionInv
<1>0. req' = [req EXCEPT ![c] = Idle] /\ UNCHANGED <<keys, now>>
  BY DEF handlePatchUser, Done
<1>1. PICK u \in Ids, pw \in {0, 1} :
         /\ ended' = IF pw = 1 THEN ended \cup SessionsOf(u) ELSE ended
         /\ sess' = IF pw = 1 THEN SessionsWithout(SessionsOf(u)) ELSE sess
  BY DEF handlePatchUser, ApplyAdminPatch, LiveUsers
<1>2. CASE pw = 0
  <2>1. Idle.op = "idle" /\ UNCHANGED <<sess, ended>>
    BY <1>1, <1>2 DEF Idle
  <2> QED
    BY <1>0, <2>1, RowsStayOrGo DEF SessionTypes
<1>3. CASE pw = 1
  <2>1. /\ sess' \in [Sids -> Session]
        /\ \A s \in Sids : sess'[s] = sess[s] \/ (sess[s].st = "live" /\ sess'[s].st = "gone")
    BY <1>1, <1>3, SessionsDeleted
  <2>2. SessionTypes'
    BY <1>0, <1>1, <1>3, <2>1 DEF SessionTypes, SessionsOf
  <2>3. RequestsNamed'
    BY <1>0 DEF SessionTypes, RequestsNamed, Idle
  <2>4. SlidesCapped'
    BY <1>0, <2>1 DEF SessionTypes, SlidesCapped, HardCap, Idle
  <2>5. SessionWithinHardCap'
    BY <2>1 DEF SessionTypes, SessionWithinHardCap, HardCap
  <2>6. \A s \in SessionsOf(u) : s \in Sids /\ sess'[s] = DeadSession
    BY <1>1, <1>3 DEF SessionsWithout, SessionsOf
  <2>7. EndedGone'
    BY <1>1, <1>3, <2>1, <2>6 DEF SessionTypes, EndedGone, DeadSession, NoSession
  <2> QED
    BY <2>2, <2>3, <2>4, <2>5, <2>7
<1> QED
  BY <1>1, <1>2, <1>3

\* Every request keeps the invariant of the sessions.
LEMMA SessionStep ==
    ASSUME ConstantsOK, SessionInv, NEW c \in Clients, Request(c)
    PROVE  SessionInv'
<1>0. /\ sess \in [Sids -> Session] /\ keys \in [Kids -> Key]
      /\ req[c].op \in {"login", "actor"} => req[c].user \in Ids
  BY DEF SessionInv, SessionTypes, RequestsNamed
<1> DEFINE Same == UNCHANGED <<sess, keys, now, ended>>
<1>lu. ASSUME NEW r, req' = [req EXCEPT ![c] = r], Same, r.op # "slide",
              r.op \in {"login", "actor"} => r.user \in Ids
       PROVE  SessionInv'
  BY <1>0, <1>lu, RowsStayOrGo
<1>go. ASSUME NEW S, NEW r, sess' = sess \/ sess' = SessionsWithout(S),
              req' = [req EXCEPT ![c] = r], UNCHANGED <<keys, now, ended>>,
              r.op \notin {"slide", "login", "actor"}
       PROVE  SessionInv'
  BY <1>0, <1>go, RowsStayOrGo, SessionsDeleted
<1> HIDE DEF Same
<1>1. CASE SetupBegin(c)
  <2>1. PICK r : r.op = "setup" /\ req' = [req EXCEPT ![c] = r]
    BY <1>1 DEF SetupBegin, Hold
  <2> QED
    BY <1>1, <2>1, <1>lu DEF SetupBegin, Same
<1>2. CASE SetupCommit(c) \/ handleCreateUser(c) \/ handleDeleteUser(c) \/ Drop(c)
  <2>1. Idle.op = "idle" /\ req' = [req EXCEPT ![c] = Idle] /\ Same
    BY <1>2 DEF SetupCommit, handleCreateUser, handleDeleteUser, Drop, Done, Idle, Same
  <2> QED
    BY <2>1, <1>lu
<1>3. CASE LoginVerify(c)
  BY <1>3, <1>lu DEF LoginVerify, LiveUsers, Hold, Same
<1>4. CASE authenticateAPIKey(c)
  <2>1. PICK k \in Kids : Live(keys[k].user) /\ Hold(c, Actor(keys[k].user, None))
    BY <1>4 DEF authenticateAPIKey
  <2>2. Actor(keys[k].user, None).op = "actor" /\ Actor(keys[k].user, None).user \in Ids
    BY <2>1 DEF Actor, Live
  <2> QED
    BY <1>4, <2>1, <2>2, <1>lu DEF authenticateAPIKey, Hold, Same
<1>5. CASE authenticatePassword(c) \/ VerifyBearer(c)
  <2>1. PICK u \in LiveUsers : Hold(c, Actor(u, None))
    BY <1>5 DEF authenticatePassword, VerifyBearer
  <2>2. Actor(u, None).op = "actor" /\ Actor(u, None).user \in Ids
    BY DEF Actor, LiveUsers
  <2> QED
    BY <1>5, <2>1, <2>2, <1>lu DEF authenticatePassword, VerifyBearer, Hold, Same
<1>6. CASE handleLogout(c)
  BY <1>6, <1>go DEF handleLogout, Done, Idle
<1>7. CASE ChangePassword(c)
  <2>1. PICK r : r.op = "changed" /\ req' = [req EXCEPT ![c] = r]
    BY <1>7 DEF ChangePassword, Hold
  <2> QED
    BY <1>7, <2>1, <1>lu DEF ChangePassword, Same
<1>8. CASE ChangePasswordSessions(c)
  BY <1>8, <1>go DEF ChangePasswordSessions, Done, Idle
<1>9. CASE DeleteMe(c)
  <2>0. Idle.op = "idle" /\ \A u : [op |-> "left", user |-> u].op = "left"
    BY DEF Idle
  <2>1. PICK r : r.op \in {"left", "idle"} /\ req' = [req EXCEPT ![c] = r]
    BY <1>9, <2>0 DEF DeleteMe, Hold, Done
  <2> QED
    BY <1>9, <2>1, <1>lu DEF DeleteMe, Same
<1>10. CASE DeleteMeSessions(c)
  BY <1>10, <1>go DEF DeleteMeSessions, Hold
<1>11. CASE DeleteMeKeys(c) \/ handleCreateAPIKey(c) \/ handleRevokeAPIKey(c)
  <2>1. keys' \in [Kids -> Key]
    <3>1. CASE DeleteMeKeys(c)
      BY <3>1, <1>0 DEF DeleteMeKeys, RevokeAllByUser, Key, States
    <3>2. CASE handleCreateAPIKey(c)
      BY <3>2, <1>0 DEF handleCreateAPIKey, MayAct, Key, States
    <3>3. CASE handleRevokeAPIKey(c)
      BY <3>3, <1>0 DEF handleRevokeAPIKey, LiveKeys, Key, States
    <3> QED
      BY <1>11, <3>1, <3>2, <3>3
  <2>2. req' = [req EXCEPT ![c] = Idle] /\ UNCHANGED <<sess, now, ended>>
    BY <1>11 DEF DeleteMeKeys, handleCreateAPIKey, handleRevokeAPIKey, Done
  <2> QED
    <3>1. Idle.op = "idle"
      BY DEF Idle
    <3> QED
      BY <1>0, <2>1, <2>2, <3>1, RowsStayOrGo
<1> QED
  BY <1>1, <1>2, <1>3, <1>4, <1>5, <1>6, <1>7, <1>8, <1>9, <1>10, <1>11, LoginKeeps,
     AuthenticateKeeps, TouchKeeps, PatchEnds
  DEF Request, SessionOrAPIKey, BasicOrAPIKey

\* The invariant of the sessions holds in every state.
THEOREM SessionInvariance ==
    ASSUME ConstantsOK
    PROVE  Spec => []SessionInv
<1>1. Init => SessionInv
  <2> SUFFICES ASSUME Init
               PROVE  SessionInv
    OBVIOUS
  <2>1. SessionTypes
    BY DEF Init, SessionTypes, Session, Key, NoSession, States
  <2>2. RequestsNamed /\ SlidesCapped
    BY DEF Init, RequestsNamed, SlidesCapped, Idle
  <2>3. SessionWithinHardCap /\ EndedGone
    BY DEF Init, SessionWithinHardCap, EndedGone, NoSession
  <2> QED
    BY <2>1, <2>2, <2>3 DEF SessionInv
<1>2. SessionInv /\ [Next]_vars => SessionInv'
  <2> SUFFICES ASSUME SessionInv, [Next]_vars
               PROVE  SessionInv'
    OBVIOUS
  <2>1. CASE Tick
    BY <2>1 DEF Tick, SessionInv, SessionTypes, RequestsNamed, SlidesCapped, HardCap,
                SessionWithinHardCap, EndedGone
  <2>2. CASE \E c \in Clients : Request(c)
    BY <2>2, SessionStep
  <2>3. CASE UNCHANGED vars
    BY <2>3 DEF vars, SessionInv, SessionTypes, RequestsNamed, SlidesCapped, HardCap,
                SessionWithinHardCap, EndedGone
  <2> QED
    BY <2>1, <2>2, <2>3 DEF Next
<1> QED
  BY <1>1, <1>2, PTL DEF Spec

(* Every table has rows of its columns' types, whatever requests overlap.  *)
THEOREM AccountTypesHold ==
    ASSUME ConstantsOK
    PROVE  Spec => []TypeOK
<1>1. AccountInv /\ SessionInv => TypeOK
  BY DEF AccountInv, AccountTypes, SessionInv, SessionTypes, TypeOK
<1> QED
  BY <1>1, AccountInvariance, SessionInvariance, PTL

(* No session outlives its hard cap: the conditional update of SlideExpiry *)
(* (sessions.go:94) is enough although the expiry it stores was computed   *)
(* before, from a row that may be gone.  Nor does a session that an        *)
(* administrator's reset ended come back by such a late write.             *)
THEOREM SessionsStayBounded ==
    ASSUME ConstantsOK
    PROVE  Spec => []SessionsBounded
<1>1. SessionInv => SessionsBounded
  BY DEF SessionInv, EndedGone, ResetEndsSessions, SessionsBounded
<1> QED
  BY <1>1, SessionInvariance, PTL
=============================================================================
