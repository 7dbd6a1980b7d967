------------------------------ MODULE Projects ------------------------------
(***************************************************************************)
(* Projects and the rows they own (repositories, project API keys, S3 keys *)
(* and buckets), their deletion, restoring and purge, the credentials of   *)
(* mirrors and the search index: internal/metadata (projects, repos,       *)
(* apikeys, s3keys, buckets_cascade, upstream_creds, fts, search) and the  *)
(* handlers of internal/api that write them.                               *)
(*                                                                         *)
(* A handler resolves names to ids outside its transaction; req[c] is what *)
(* it resolved, and other requests run before its transaction does.  A row *)
(* is deleted by a timestamp of one second; the model's clock counts these *)
(* seconds.  Left out: descriptions and other columns no rule reads, who   *)
(* may send the request (Membership), the directories (PathStore).         *)
(***************************************************************************)
EXTENDS Integers, FiniteSets

CONSTANTS PIds, Rows, CIds,  \* ids of projects, rows and credentials
          Names, Clients, None,
          MaxTime,           \* bound of the clock
          MaxIndex           \* bound of the index rows of one artifact

VARIABLES
    proj,   \* proj[p]: the row of projects
    row,    \* row[x]: a row of repos, api_keys, s3_access_keys or s3_buckets
    conf,   \* conf[x]: the mirror columns of the repository x
    art,    \* art[x]: does repository x hold its artifact; index rows of it
    cred,   \* cred[k]: the project of a row of upstream_creds; "gone" after it
    req, now

vars == <<proj, row, conf, art, cred, req, now>>

Kinds == {"repo", "apikey", "s3key", "bucket"}
Never == 0 - 1  \* the timestamp of a live row, or one in another format

Project == [st : {"free", "live", "deleted", "gone"}, name : Names \cup {None},
            ts : Int]
(* own, a history variable: the row was revoked or deleted by itself.      *)
Row == [st : {"free", "live", "deleted", "gone"}, kind : Kinds \cup {None},
        owner : PIds \cup {None}, name : Names \cup {None}, ts : Int,
        own : {"yes", "no"}]
MirrorConfig == [mirror : {"yes", "no"}, purge : {"yes", "no"},
                 cred : CIds \cup {None}]

NoRow == [st |-> "free", kind |-> None, owner |-> None, name |-> None,
          ts |-> Never, own |-> "no"]
NoConf == [mirror |-> "no", purge |-> "no", cred |-> None]
Idle == [op |-> "idle"]

Init ==
    /\ proj = [p \in PIds |-> [st |-> "free", name |-> None, ts |-> Never]]
    /\ row = [x \in Rows |-> NoRow]
    /\ conf = [x \in Rows |-> NoConf]
    /\ art = [x \in Rows |-> [has |-> "no", index |-> 0]]
    /\ cred = [k \in CIds |-> None]
    /\ req = [c \in Clients |-> Idle]
    /\ now = 0

-----------------------------------------------------------------------------
Done(c) == req' = [req EXCEPT ![c] = Idle]
Hold(c, r) == req' = [req EXCEPT ![c] = r]

(* The columns of a row that deleting and restoring write.                 *)
Marked(x, st, ts, own) == [row[x] EXCEPT !.st = st, !.ts = ts, !.own = own]
Stamped(p, st, ts) == [proj[p] EXCEPT !.st = st, !.ts = ts]

Present(s) == s \in {"live", "deleted"}
LiveProjects == {p \in PIds : proj[p].st = "live"}
LiveRows == {x \in Rows : row[x].st = "live"}
RowsOf(p) == {x \in Rows : row[x].owner = p /\ Present(row[x].st)}

(* The partial unique indexes on live rows: a bucket's name is global, the *)
(* name of a repository or a key belongs to its project.                   *)
Clash(x, y) ==
    /\ x # y /\ row[x].kind = row[y].kind /\ row[x].name = row[y].name
    /\ row[x].kind # "s3key"
    /\ row[x].kind = "bucket" \/ row[x].owner = row[y].owner

NameFree(kind, p, n) ==
    \A y \in LiveRows : ~ /\ row[y].kind = kind /\ row[y].name = n
                          /\ kind # "s3key"
                          /\ kind = "bucket" \/ row[y].owner = p

FindByName(n) == {p \in LiveProjects : proj[p].name = n}
ProjectNameFree(n) == FindByName(n) = {}

(* FindByTriple, and the queries of the other tables: a live row of a live *)
(* project.                                                                *)
FindByTriple(p) == {x \in LiveRows : row[x].owner = p /\ p \in LiveProjects}

-----------------------------------------------------------------------------
(* The handlers' first half: the names in the URL become ids.              *)

resolveProjectForAction(c) ==
    /\ req[c].op = "idle"
    /\ \E p \in LiveProjects : Hold(c, [op |-> "project", p |-> p])
    /\ UNCHANGED <<proj, row, conf, art, cred, now>>

(* The repository's configuration is read along with its id.               *)
resolveRepoFromURL(c) ==
    /\ req[c].op = "idle"
    /\ \E p \in LiveProjects : \E x \in FindByTriple(p) :
          Hold(c, [op |-> "row", p |-> p, x |-> x, mirror |-> conf[x].mirror])
    /\ UNCHANGED <<proj, row, conf, art, cred, now>>

OnProject(c) == req[c].op = "project"
OnRow(c, kind) == req[c].op = "row" /\ row[req[c].x].kind = kind

-----------------------------------------------------------------------------
(* The search index.  The index rows of a repository's artifacts are       *)
(* written in the transaction that writes the artifact, and taken out and  *)
(* put back when the repository is deleted and restored.                   *)

PruneRepoFTS(X) == [x \in Rows |-> IF x \in X THEN [art[x] EXCEPT !.index = 0]
                                   ELSE art[x]]

\* Mutant: a restored repository is not indexed again.
ReindexNothing(X) == art

(* ReindexRepo only inserts.                                               *)
ReindexRepo(X) ==
    [x \in Rows |-> IF x \in X /\ art[x].has = "yes"
                    THEN [art[x] EXCEPT !.index = @ + 1] ELSE art[x]]

IndexRoom(X) == \A x \in X : art[x].index < MaxIndex

(* An upload deletes the artifact's index rows and inserts one.            *)
IndexArtifact(x) == art' = [art EXCEPT ![x] = [has |-> "yes", index |-> 1]]

IndexArtifactDelete(x) == art' = [art EXCEPT ![x] = [has |-> "no", index |-> 0]]

(* An upload writes to the repository it resolved, deleted or not since.   *)
Upload(c) ==
    /\ OnRow(c, "repo") /\ Present(row[req[c].x].st) /\ Done(c)
    /\ IndexArtifact(req[c].x)
    /\ UNCHANGED <<proj, row, conf, cred, now>>

DeleteArtifact(c) ==
    /\ OnRow(c, "repo") /\ Present(row[req[c].x].st) /\ Done(c)
    /\ IndexArtifactDelete(req[c].x)
    /\ UNCHANGED <<proj, row, conf, cred, now>>

(* handleWipeRepo: every artifact goes, the repository stays.              *)
handleWipeRepo(c) == DeleteArtifact(c)

-----------------------------------------------------------------------------
(* Deleting a project takes its live rows with it, and marks them with its *)
(* own timestamp, so that restoring it finds them again.                   *)

CreateInTx(p, n) ==
    /\ proj[p].st = "free" /\ ProjectNameFree(n)
    /\ proj' = [proj EXCEPT ![p] = [st |-> "live", name |-> n, ts |-> Never]]

handleCreateProject ==
    /\ \E p \in PIds, n \in Names : CreateInTx(p, n)
    /\ UNCHANGED <<row, conf, art, cred, req, now>>

\* Mutant: each statement takes the time of day again.
CascadeTSNow(p) == now

(* deleted_at read back: an earlier delete's when there was one.           *)
CascadeTS(p) == IF proj[p].st = "live" THEN now ELSE proj[p].ts

(* RevokeAllForProject, SoftDeleteAllBucketsForProject, the project's API  *)
(* keys and SoftDeleteRepoForProjectCascade.                               *)
CascadeDelete(p, ts) ==
    LET taken == {x \in LiveRows : row[x].owner = p}
    IN  /\ row' = [x \in Rows |->
                     IF x \in taken
                     THEN Marked(x, "deleted", ts, "no") ELSE row[x]]
        /\ art' = PruneRepoFTS(taken)

SoftDelete(p) ==
    /\ Present(proj[p].st)
    /\ proj' = [proj EXCEPT ![p] = Stamped(p, "deleted",
                    IF proj[p].st = "live" THEN now ELSE proj[p].ts)]
    /\ CascadeDelete(p, CascadeTS(p))

handleDeleteProject(c) ==
    /\ OnProject(c) /\ Done(c) /\ SoftDelete(req[c].p)
    /\ UNCHANGED <<conf, cred, now>>

(* RestoreCascaded...ForProject: the rows with the project's timestamp.    *)
RestoredRows(p) ==
    {x \in Rows : /\ row[x].owner = p /\ row[x].st = "deleted"
                  /\ row[x].ts = proj[p].ts}

(* restoreCascadeInTx: fails as a whole on a unique index.                 *)
restoreCascadeInTx(p) ==
    LET back == RestoredRows(p)
    IN  /\ \A x \in back, y \in LiveRows \cup back : ~Clash(x, y)
        /\ IndexRoom(back)
        /\ row' = [x \in Rows |-> IF x \in back
                                  THEN Marked(x, "live", Never, "no") ELSE row[x]]
        /\ art' = ReindexRepo({x \in back : row[x].kind = "repo"})

(* A project that is live already is left alone.                           *)
RestoreIfNameFree ==
    /\ \E p \in PIds :
          /\ proj[p].st = "deleted" /\ ProjectNameFree(proj[p].name)
          /\ proj' = [proj EXCEPT ![p] = Stamped(p, "live", Never)]
          /\ restoreCascadeInTx(p)
    /\ UNCHANGED <<conf, cred, req, now>>

(* HardDelete, of a live project too; the keys, buckets and credentials go *)
(* by the foreign keys.                                                    *)
HardDelete ==
    /\ \E p \in PIds :
          /\ Present(proj[p].st)
          /\ \A x \in RowsOf(p) : row[x].kind # "repo"
          /\ proj' = [proj EXCEPT ![p] = Stamped(p, "gone", proj[p].ts)]
          /\ row' = [x \in Rows |-> IF x \in RowsOf(p)
                                    THEN Marked(x, "gone", row[x].ts, row[x].own) ELSE row[x]]
          /\ cred' = [k \in CIds |-> IF cred[k] = p THEN "gone" ELSE cred[k]]
    /\ UNCHANGED <<conf, art, req, now>>

-----------------------------------------------------------------------------
(* Creating rows.  The project may have been deleted since it was resolved:*)
(* only the foreign key is checked.                                        *)

Insert(x, kind, p, n) ==
    /\ row[x].st = "free" /\ Present(proj[p].st) /\ NameFree(kind, p, n)
    /\ row' = [row EXCEPT ![x] = [st |-> "live", kind |-> kind, owner |-> p,
                                  name |-> n, ts |-> Never, own |-> "no"]]

\* Mutant: any credential will do.
AnyCred(p) == {k \in CIds : cred[k] \in PIds} \cup {None}

(* mirrorCredOwnership: the credentials a repository of p may name.        *)
mirrorCredOwnership(p) == {k \in CIds : cred[k] = p} \cup {None}

handleCreateRepo(c) ==
    /\ OnProject(c) /\ Done(c)
    /\ \E x \in Rows, n \in Names, m \in {"yes", "no"}, k \in mirrorCredOwnership(req[c].p) :
          /\ m = "yes" \/ k = None
          /\ Insert(x, "repo", req[c].p, n)
          /\ conf' = [conf EXCEPT ![x] = [mirror |-> m, purge |-> "no", cred |-> k]]
    /\ UNCHANGED <<proj, art, cred, now>>

handleCreateProjectAPIKey(c) ==
    /\ OnProject(c) /\ Done(c)
    /\ \E x \in Rows, n \in Names : Insert(x, "apikey", req[c].p, n)
    /\ UNCHANGED <<proj, conf, art, cred, now>>

handleCreateS3Key(c) ==
    /\ OnProject(c) /\ Done(c)
    /\ \E x \in Rows, n \in Names : Insert(x, "s3key", req[c].p, n)
    /\ UNCHANGED <<proj, conf, art, cred, now>>

handleCreateMyS3Key(c) == handleCreateS3Key(c)

handleCreateS3Bucket(c) ==
    /\ OnProject(c) /\ Done(c)
    /\ \E x \in Rows, n \in Names : Insert(x, "bucket", req[c].p, n)
    /\ UNCHANGED <<proj, conf, art, cred, now>>

handleCreateUpstreamCred(c) ==
    /\ OnProject(c) /\ Done(c) /\ Present(proj[req[c].p].st)
    /\ \E k \in CIds : cred[k] = None /\ cred' = [cred EXCEPT ![k] = req[c].p]
    /\ UNCHANGED <<proj, row, conf, art, now>>

(* An id is never used again; repositories lose a deleted credential by ON *)
(* DELETE SET NULL.                                                        *)
handleDeleteUpstreamCred(c) ==
    /\ OnProject(c) /\ Done(c)
    /\ \E k \in CIds :
          /\ cred[k] = req[c].p
          /\ cred' = [cred EXCEPT ![k] = "gone"]
          /\ conf' = [x \in Rows |-> IF conf[x].cred = k
                                     THEN [conf[x] EXCEPT !.cred = None] ELSE conf[x]]
    /\ UNCHANGED <<proj, row, art, now>>

-----------------------------------------------------------------------------
(* Deleting and changing one row.                                          *)

(* drift_purge=true is refused by what the handler read.                   *)
PurgeAllowed(c) == IF req[c].mirror = "yes" THEN {"yes", "no"} ELSE {"no"}

handlePatchRepo(c) ==
    LET x == req[c].x IN
    /\ OnRow(c, "repo") /\ Done(c) /\ row[x].st = "live"
    /\ \E d \in PurgeAllowed(c), k \in mirrorCredOwnership(req[c].p) :
          conf' = [conf EXCEPT ![x] = [@ EXCEPT !.purge = d, !.cred = k]]
    /\ UNCHANGED <<proj, row, art, cred, now>>

handleDeleteRepo(c) ==
    LET x == req[c].x IN
    /\ OnRow(c, "repo") /\ Done(c) /\ Present(row[x].st)
    /\ row' = IF row[x].st = "live"
              THEN [row EXCEPT ![x] = Marked(x, "deleted", now, "yes")]
              ELSE row
    /\ art' = PruneRepoFTS({x})
    /\ UNCHANGED <<proj, conf, cred, now>>

(* ReposRepo.Restore, from the trash: the row's project may be deleted, the *)
(* row itself live (its packages were trashed, or it came back before).    *)
RestoreRepo ==
    /\ \E x \in Rows :
          /\ row[x].kind = "repo" /\ Present(row[x].st) /\ IndexRoom({x})
          /\ \A y \in LiveRows : ~Clash(x, y)
          /\ row' = [row EXCEPT ![x] = Marked(x, "live", Never, "no")]
          /\ art' = ReindexRepo({x})
    /\ UNCHANGED <<proj, conf, cred, req, now>>

(* APIKeysRepo.Revoke stamps whatever row it finds.                        *)
handleRevokeProjectAPIKey(c) ==
    LET x == req[c].x IN
    /\ OnRow(c, "apikey") /\ Done(c) /\ Present(row[x].st)
    /\ row' = [row EXCEPT ![x] = Marked(x, "deleted", now, "yes")]
    /\ UNCHANGED <<proj, conf, art, cred, now>>

(* S3KeysRepo.Revoke stamps live rows only, in another format.             *)
handleRevokeS3Key(c) ==
    LET x == req[c].x IN
    /\ OnRow(c, "s3key") /\ Done(c)
    /\ row' = IF row[x].st = "live"
              THEN [row EXCEPT ![x] = Marked(x, "deleted", Never, "yes")]
              ELSE row
    /\ UNCHANGED <<proj, conf, art, cred, now>>

handleDeleteMyS3Key(c) == handleRevokeS3Key(c)

(* handleDeleteS3Bucket found the bucket in its project; DeleteBucket then *)
(* finds it by its name, in whichever project.                             *)
handleDeleteS3Bucket(c) ==
    /\ OnRow(c, "bucket") /\ Done(c)
    /\ \E x \in LiveRows :
          /\ row[x].kind = "bucket" /\ row[x].name = row[req[c].x].name
          /\ row[x].owner \in LiveProjects
          /\ row' = [row EXCEPT ![x] = Marked(x, "gone", row[x].ts, row[x].own)]
    /\ UNCHANGED <<proj, conf, art, cred, now>>

-----------------------------------------------------------------------------
Tick ==
    /\ now < MaxTime /\ now' = now + 1
    /\ UNCHANGED <<proj, row, conf, art, cred, req>>

(* A request that ends without a write: refused, not found, cancelled.     *)
Drop(c) ==
    /\ req[c].op # "idle" /\ Done(c)
    /\ UNCHANGED <<proj, row, conf, art, cred, now>>

Request(c) ==
    \/ resolveProjectForAction(c) \/ resolveRepoFromURL(c) \/ Drop(c)
    \/ handleDeleteProject(c) \/ handleCreateRepo(c)
    \/ handleCreateProjectAPIKey(c) \/ handleCreateS3Key(c) \/ handleCreateS3Bucket(c)
    \/ handleCreateUpstreamCred(c) \/ handleDeleteUpstreamCred(c)
    \/ handlePatchRepo(c) \/ handleDeleteRepo(c)
    \/ handleRevokeProjectAPIKey(c) \/ handleRevokeS3Key(c) \/ handleDeleteS3Bucket(c)
    \/ handleCreateMyS3Key(c) \/ handleDeleteMyS3Key(c)
    \/ Upload(c) \/ DeleteArtifact(c) \/ handleWipeRepo(c)

Next ==
    \/ Tick \/ handleCreateProject \/ RestoreIfNameFree \/ HardDelete \/ RestoreRepo
    \/ \E c \in Clients : Request(c)

Spec == Init /\ [][Next]_vars

-----------------------------------------------------------------------------
TypeOK ==
    /\ proj \in [PIds -> Project]
    /\ row \in [Rows -> Row]
    /\ conf \in [Rows -> MirrorConfig]
    /\ art \in [Rows -> [has : {"yes", "no"}, index : Nat]]
    /\ cred \in [CIds -> PIds \cup {None, "gone"}]
    /\ now \in Nat

(* Restoring a project brings back every row its deletion took and that    *)
(* nobody revoked since: the cascade and its reversal agree on the         *)
(* timestamp, also when a second delete found the project deleted already  *)
(* and took rows that a late request had created (projects.go:122).  And   *)
(* "independently revoked rows survive Restore" (projects.go:116): a key   *)
(* or repository that was revoked or deleted by itself does not come back  *)
(* with its project, unless that happened in the very second of the        *)
(* project's deletion, which the timestamps cannot tell apart.             *)
RestoreStep ==
    \A p \in PIds :
       proj[p].st = "deleted" /\ proj'[p].st = "live"
       => \A x \in RowsOf(p) :
             /\ row[x].own = "no" => row'[x].st = "live"
             /\ row[x].own = "yes" /\ row[x].st = "deleted" /\ row'[x].st = "live"
                => row[x].ts = proj[p].ts

(* Every artifact of a live repository is in the search index, whatever    *)
(* uploads raced the deletion of the repository or of its project, and     *)
(* however it came back: ReindexRepo puts back what PruneRepoFTS took.     *)
IndexComplete ==
    \A x \in LiveRows :
       row[x].kind = "repo" /\ art[x].has = "yes" => art[x].index > 0

(* The rules on mirrors survive every interleaving of create, patch and    *)
(* deleted credentials: drift purge, which deletes packages, is on only in *)
(* mirrors, and a repository names a credential of its own project.        *)
MirrorRules ==
    \A x \in Rows :
       /\ conf[x].purge = "yes" => conf[x].mirror = "yes"
       /\ conf[x].cred # None /\ Present(row[x].st)
          => cred[conf[x].cred] = row[x].owner
=============================================================================
