------------------------------ MODULE OciRefs ------------------------------
(***************************************************************************)
(* The reference counts of the OCI registry: internal/protocol/oci and the *)
(* docker_* tables of internal/metadata.                                   *)
(*                                                                         *)
(* docker_manifests holds one row per (repository, manifest); an image     *)
(* references blobs, an index references child manifests of its own        *)
(* repository.  docker_blobs is global.  ref_count of a blob or of a child *)
(* counts the manifest rows that reference it; the garbage collector       *)
(* removes a blob row, with the repository links that cascade from it,     *)
(* once its count is 0.                                                    *)
(*                                                                         *)
(* SQLite has one writer, so the body of a db.WriteTx is one step: db is   *)
(* the whole database and a transaction replaces it, or, when a statement  *)
(* fails, leaves it alone.  What a handler reads before its transaction is *)
(* kept in req[c] until the transaction runs, other writers in between.    *)
(*                                                                         *)
(* Left out: bodies and media types (a manifest is its digest), the        *)
(* full-text index, scan rows, audit and authorization.  A tag stands for  *)
(* an (image, tag) pair of the schema.                                     *)
(***************************************************************************)
EXTENDS Integers, FiniteSets

CONSTANTS Repos, Tags, Blobs, Manifests,
          Index,        \* the manifests whose body is an image index
          Refs,         \* what the body of each manifest references
          None,         \* no tag, no manifest
          Clients,      \* concurrent requests with reads before their tx
          Overlap       \* may a write commit between a tag delete's reads
                        \* and its transaction?

ASSUME RefsAssumption ==
    /\ Index \subseteq Manifests
    /\ Refs \in [Manifests -> SUBSET (Blobs \cup Manifests)]
    /\ \A m \in Manifests : IF m \in Index THEN Refs[m] \subseteq Manifests
                                           ELSE Refs[m] \subseteq Blobs

ASSUME FiniteAssumption ==
    /\ IsFiniteSet(Repos)
    /\ IsFiniteSet(Manifests)

ASSUME NoneAssumption == None \notin Manifests /\ None \notin Tags

ASSUME OverlapAssumption == Overlap \in BOOLEAN

VARIABLES
    db,     \* the committed database
    req     \* req[c]: what client c read before its transaction

vars == <<db, req>>

Images == Manifests \ Index
Rows == Repos \X Manifests

(* The state of the tables.  The count of a row that is not there is 0,    *)
(* which is what the next INSERT gives it.                                 *)
DB == [manifests : SUBSET Rows,
       mref      : [Rows -> Nat],
       tags      : [Repos \X Tags -> Manifests \cup {None}],
       blobs     : SUBSET Blobs,
       bref      : [Blobs -> Nat],
       links     : SUBSET (Repos \X Blobs)]

Idle == [op |-> "idle"]

Request == [op : {"idle"}]
       \cup [op : {"resolved", "delete"}, repo : Repos, tag : Tags,
             digest : Manifests, refs : Nat]
       \cup [op : {"promote"}, repo : Repos, tag : Tags, digest : Manifests]

TypeOK == db \in DB /\ req \in [Clients -> Request]

Init ==
    /\ db = [manifests |-> {}, mref |-> [x \in Rows |-> 0],
             tags |-> [x \in Repos \X Tags |-> None], blobs |-> {},
             bref |-> [b \in Blobs |-> 0], links |-> {}]
    /\ req = [c \in Clients |-> Idle]

-----------------------------------------------------------------------------
(* Statements of the repositories in internal/metadata, as functions of    *)
(* the database.                                                           *)

(* The manifests of D whose body lists x: the number of times a            *)
(* transaction over D increments or decrements the count of x.             *)
Listing(D, x) == {p \in D : x \in Refs[p]}

\* Mutant: references are counted on every push, not once per row.
InsertEveryPush(d, r, m) ==
    [d EXCEPT
        !.manifests = @ \cup {<<r, m>>},
        !.bref = [b \in Blobs |-> IF m \notin Index /\ b \in Refs[m]
                                  THEN @[b] + 1 ELSE @[b]],
        !.mref = [x \in Rows |-> IF x[1] = r /\ m \in Index /\ x[2] \in Refs[m]
                                 THEN @[x] + 1 ELSE @[x]]]

(* incRefs, and the INSERT before it: only for a row that is new.          *)
Insert(d, r, m) ==
    IF <<r, m>> \in d.manifests
    THEN d
    ELSE [d EXCEPT
            !.manifests = @ \cup {<<r, m>>},
            !.mref = [x \in Rows |->
                         IF x[1] = r /\ m \in Index /\ x[2] \in Refs[m]
                         THEN @[x] + 1 ELSE @[x]],
            !.bref = [b \in Blobs |->
                         IF m \notin Index /\ b \in Refs[m]
                         THEN @[b] + 1 ELSE @[b]]]

(* The transaction of Insert fails on a missing child row.                 *)
CanInsert(d, r, m) ==
    \/ <<r, m>> \in d.manifests
    \/ m \notin Index
    \/ \A c \in Refs[m] : <<r, c>> \in d.manifests

Tagged(d, r, m) == \E t \in Tags : d.tags[<<r, t>>] = m

\* Mutant: the manifest a tag moved off goes whatever else holds it.
OrphanedWhenPresent(d, r, m) == <<r, m>> \in d.manifests

(* reapManifestIfOrphaned: no tag and no index holds the row.              *)
Orphaned(d, r, m) ==
    <<r, m>> \in d.manifests /\ ~Tagged(d, r, m) /\ d.mref[<<r, m>>] = 0

(***************************************************************************)
(* D is the set of manifests that the recursion of reapManifest, started   *)
(* at root, deletes in repository r.  Every deleted index decrements each  *)
(* child, and a child goes too when that leaves it at 0 with no tag.       *)
(* Digests rule out cycles, so there is exactly one such D.                *)
(***************************************************************************)
IsReapSet(d, r, root, D) ==
    /\ root \in D
    /\ \A c \in Manifests \ {root} :
          c \in D <=> /\ <<r, c>> \in d.manifests
                      /\ ~Tagged(d, r, c)
                      /\ Listing(D \cap Index, c) # {}
                      /\ d.mref[<<r, c>>] =< Cardinality(Listing(D \cap Index, c))

(* No DecRef of the recursion meets a missing row or a count of 0.         *)
CanReap(d, r, D) ==
    /\ \A c \in Manifests :
          Cardinality(Listing(D \cap Index, c)) =< d.mref[<<r, c>>]
    /\ \A b \in Blobs : Cardinality(Listing(D \ Index, b)) =< d.bref[b]

(* reapManifest: the counts released, the rows deleted.                    *)
Reap(d, r, D) ==
    [d EXCEPT
        !.manifests = @ \ ({r} \X D),
        !.mref = [x \in Rows |->
                     IF x[1] # r THEN @[x]
                     ELSE IF x[2] \in D THEN 0
                     ELSE @[x] - Cardinality(Listing(D \cap Index, x[2]))],
        !.bref = [b \in Blobs |-> @[b] - Cardinality(Listing(D \ Index, b))]]

(* A transaction that goes on from d and ends by reaping root; when some   *)
(* DecRef fails it rolls back, and the request ends in RequestCancelled.   *)
ReapFrom(d, r, root) ==
    \E D \in SUBSET Manifests :
        /\ IsReapSet(d, r, root, D)
        /\ CanReap(d, r, D)
        /\ db' = Reap(d, r, D)

SetTag(d, r, t, m) ==
    IF t = None THEN d ELSE [d EXCEPT !.tags[<<r, t>>] = m]

(* The digest form's DELETE of every tag that points at the manifest.      *)
UntagDigest(d, r, m) ==
    [d EXCEPT !.tags = [x \in Repos \X Tags |->
                           IF x[1] = r /\ @[x] = m THEN None ELSE @[x]]]

LinkAll(d, r, bs) == [d EXCEPT !.links = @ \cup ({r} \X bs)]

UpsertZeroRef(d, bs) == [d EXCEPT !.blobs = @ \cup bs]

(***************************************************************************)
(* writeManifestWithRefcounts, the transaction body shared by push, pull   *)
(* and promote: link the blobs (a foreign key fails when a blob row is     *)
(* gone), insert, move the tag, count the references, and reap the         *)
(* manifest the tag pointed at before when nothing holds it any more.      *)
(***************************************************************************)
Written(d, r, m, t) ==
    SetTag(Insert(IF m \in Index THEN d ELSE LinkAll(d, r, Refs[m]), r, m),
           r, t, m)

WriteManifest(d, r, m, t) ==
    /\ m \in Images => Refs[m] \subseteq d.blobs
    /\ CanInsert(d, r, m)
    /\ LET w == Written(d, r, m, t)
           prior == IF t = None THEN None ELSE d.tags[<<r, t>>]
       IN IF prior \notin {None, m} /\ Orphaned(w, r, prior)
          THEN ReapFrom(w, r, prior) ELSE db' = w

-----------------------------------------------------------------------------
(* Blobs.                                                                  *)

(* blobUploadPut and blobMonolithicPost: row and link in one transaction.  *)
BlobPut(r, b) ==
    /\ db' = LinkAll(UpsertZeroRef(db, {b}), r, {b})
    /\ UNCHANGED req

(* blobMount: the transaction re-checks that the source still owns it.     *)
BlobMount(src, r, b) ==
    /\ <<src, b>> \in db.links
    /\ db' = LinkAll(db, r, {b})
    /\ UNCHANGED req

\* Mutant: the link goes although manifests reference the blob.
BlobDeleteUnchecked(r, b) ==
    /\ <<r, b>> \in db.links
    /\ db' = [db EXCEPT !.links = @ \ {<<r, b>>}]
    /\ UNCHANGED req

(* blobDelete: drops the link while no manifest references the blob.       *)
BlobDelete(r, b) ==
    /\ <<r, b>> \in db.links
    /\ db.bref[b] = 0
    /\ db' = [db EXCEPT !.links = @ \ {<<r, b>>}]
    /\ UNCHANGED req

(* The garbage collector deletes an unreferenced row; links cascade.  Its  *)
(* age and the upload markers, which only delay it, are in BlobGc.         *)
GcDelete(b) ==
    /\ b \in db.blobs
    /\ db.bref[b] = 0
    /\ db' = [db EXCEPT !.blobs = @ \ {b}, !.links = @ \ (Repos \X {b})]
    /\ UNCHANGED req

-----------------------------------------------------------------------------
(* Manifests.                                                              *)

(* manifestPut.  An image's links are checked again in the transaction;    *)
(* an index's children only by the increments of a new row.                *)
ManifestPut(r, m, t) ==
    /\ m \in Images => {r} \X Refs[m] \subseteq db.links
    /\ WriteManifest(db, r, m, t)
    /\ UNCHANGED req

(* commitManifest of a pull from another registry: the blobs are in the    *)
(* CAS and get their rows in the same transaction.                         *)
PullCommit(r, m, t) ==
    /\ WriteManifest(IF m \in Index THEN db ELSE UpsertZeroRef(db, Refs[m]),
                     r, m, t)
    /\ UNCHANGED req

(* PromoteREST.Handle reads the source's tag and manifest ...              *)
PromoteRead(c, src, srcTag, r, t) ==
    /\ req[c] = Idle
    /\ LET m == db.tags[<<src, srcTag>>]
       IN /\ m # None
          /\ <<src, m>> \in db.manifests
          /\ req' = [req EXCEPT ![c] = [op |-> "promote", repo |-> r,
                                        tag |-> t, digest |-> m]]
    /\ UNCHANGED db

(* ... and writes the destination without looking at the source again.     *)
PromoteCommit(c) ==
    /\ req[c].op = "promote"
    /\ WriteManifest(db, req[c].repo, req[c].digest, req[c].tag)
    /\ req' = [req EXCEPT ![c] = Idle]

\* Mutant: only manifests listed by two indexes are protected.
StillReferencedOffByOne(d, r, m) == d.mref[<<r, m>>] > 1

(* errManifestStillReferenced: an index lists the manifest, 405.           *)
StillReferenced(d, r, m) == d.mref[<<r, m>>] > 0

(* manifestDelete by digest: everything is read again in the transaction.  *)
DigestDelete(r, m) ==
    /\ <<r, m>> \in db.manifests
    /\ ~StillReferenced(db, r, m)
    /\ ReapFrom(UntagDigest(db, r, m), r, m)
    /\ UNCHANGED req

(* manifestDelete by tag: the reader pool resolves the tag ...             *)
TagDeleteResolve(c, r, t) ==
    /\ req[c] = Idle
    /\ db.tags[<<r, t>>] # None
    /\ req' = [req EXCEPT ![c] = [op |-> "resolved", repo |-> r, tag |-> t,
                                  digest |-> db.tags[<<r, t>>], refs |-> 0]]
    /\ UNCHANGED db

(* ... and then reads the manifest; 404 when it is gone by now.            *)
TagDeleteRead(c) ==
    /\ req[c].op = "resolved"
    /\ LET x == <<req[c].repo, req[c].digest>>
       IN req' = [req EXCEPT ![c] =
                    IF x \in db.manifests
                    THEN [req[c] EXCEPT !.op = "delete", !.refs = db.mref[x]]
                    ELSE Idle]
    /\ UNCHANGED db

(* What the request read is still so.                                      *)
ReadIsCurrent(q) ==
    /\ db.tags[<<q.repo, q.tag>>] = q.digest
    /\ <<q.repo, q.digest>> \in db.manifests
    /\ db.mref[<<q.repo, q.digest>>] = q.refs

(* No tag of the digest is left in the transaction, and the count read     *)
(* before it was 0.                                                        *)
LastReference(w, q) == ~Tagged(w, q.repo, q.digest) /\ q.refs = 0

(***************************************************************************)
(* The transaction removes the tag, wherever it points now, and counts the *)
(* tags of the digest read before; the manifest's own count is the one     *)
(* read before the transaction.                                            *)
(***************************************************************************)
TagDeleteCommit(c) ==
    LET q == req[c]
        w == SetTag(db, q.repo, q.tag, None)
    IN /\ q.op = "delete"
       /\ Overlap \/ ReadIsCurrent(q)
       /\ IF LastReference(w, q)
          THEN ReapFrom(w, q.repo, q.digest) ELSE db' = w
       /\ req' = [req EXCEPT ![c] = Idle]

(* A transaction that fails, or a client that goes away: nothing changed.  *)
RequestCancelled(c) ==
    /\ req[c] # Idle
    /\ req' = [req EXCEPT ![c] = Idle]
    /\ UNCHANGED db

(* How many references to b the image rows of repository r hold.           *)
GivesBack(d, r, b) ==
    Cardinality(Listing({m \in Images : <<r, m>> \in d.manifests}, b))

(* WipeDocker: every row of the repository goes; each blob gives back as   *)
(* many references as the repository's manifests had, or, when its count   *)
(* is too small for that, none.                                            *)
WipeDocker(r) ==
    /\ db' = [db EXCEPT
                !.links = @ \ ({r} \X Blobs),
                !.tags = [x \in Repos \X Tags |->
                             IF x[1] = r THEN None ELSE @[x]],
                !.manifests = @ \ ({r} \X Manifests),
                !.mref = [x \in Rows |-> IF x[1] = r THEN 0 ELSE @[x]],
                !.bref = [b \in Blobs |-> IF GivesBack(db, r, b) =< @[b]
                                          THEN @[b] - GivesBack(db, r, b)
                                          ELSE @[b]]]
    /\ UNCHANGED req

-----------------------------------------------------------------------------
Next ==
    \/ \E r \in Repos, b \in Blobs : BlobPut(r, b) \/ BlobDelete(r, b)
    \/ \E src, r \in Repos, b \in Blobs : BlobMount(src, r, b)
    \/ \E b \in Blobs : GcDelete(b)
    \/ \E r \in Repos, m \in Manifests, t \in Tags \cup {None} :
          ManifestPut(r, m, t) \/ PullCommit(r, m, t)
    \/ \E r \in Repos, m \in Manifests : DigestDelete(r, m)
    \/ \E c \in Clients, src, r \in Repos, s, t \in Tags :
          PromoteRead(c, src, s, r, t)
    \/ \E c \in Clients, r \in Repos, t \in Tags : TagDeleteResolve(c, r, t)
    \/ \E c \in Clients : \/ PromoteCommit(c) \/ TagDeleteRead(c)
                          \/ TagDeleteCommit(c) \/ RequestCancelled(c)
    \/ \E r \in Repos : WipeDocker(r)

Spec == Init /\ [][Next]_vars

-----------------------------------------------------------------------------
(***************************************************************************)
(* The properties are stated of a database, so that the intermediate       *)
(* states of a transaction can be talked about as well.                    *)
(***************************************************************************)
BlobHolders(d, b) == {x \in d.manifests : x[2] \in Images /\ b \in Refs[x[2]]}
ChildHolders(d, r, c) ==
    {x \in d.manifests : x[1] = r /\ x[2] \in Index /\ c \in Refs[x[2]]}

ExactBlobs(d) == \A b \in Blobs : d.bref[b] = Cardinality(BlobHolders(d, b))
ExactChildren(d) ==
    \A r \in Repos, c \in Manifests :
        d.mref[<<r, c>>] = Cardinality(ChildHolders(d, r, c))
CompleteIndexes(d) ==
    \A x \in d.manifests :
        x[2] \in Index => {x[1]} \X Refs[x[2]] \subseteq d.manifests
KeptBlobs(d) ==
    \A x \in d.manifests :
        x[2] \in Images => /\ Refs[x[2]] \subseteq d.blobs
                           /\ {x[1]} \X Refs[x[2]] \subseteq d.links
TagsExist(d) ==
    \A r \in Repos, t \in Tags :
        d.tags[<<r, t>>] # None => <<r, d.tags[<<r, t>>]>> \in d.manifests

(* A count is the number of manifest rows that reference the blob or the   *)
(* child, the invariant writeManifestWithRefcounts names: too high and the *)
(* bytes are never collected, too low and they are collected in use.       *)
RefCountsExact == ExactBlobs(db) /\ ExactChildren(db)

(* Every child an index row lists is a row of the same repository: what    *)
(* the 405 of a digest delete is for.                                      *)
IndexComplete == CompleteIndexes(db)

(* The blobs of a stored image keep their rows and their repository's      *)
(* links, so that the image can be pulled: neither the collector, nor a    *)
(* blob delete, nor a wipe of another repository takes them away.          *)
ImagesServable == KeptBlobs(db)

(* A tag resolves to a stored manifest, whatever is being deleted.         *)
TagsResolve == TagsExist(db)
=============================================================================
