------------------------------ MODULE S3Store ------------------------------
(***************************************************************************)
(* The S3 gateway (protocol/s3/backend): the rows of buckets, objects and  *)
(* multipart uploads on one side, files on the other, for one bucket name  *)
(* and one key.  The file of an object is named by the bucket's NAME, its  *)
(* row by the bucket's ID: a bucket of a deleted project keeps its row and *)
(* its files while another project may take the name.  Writers of a name   *)
(* share one lock (storage.Locks); most of them resolve the id before they *)
(* take it, and aborts and bucket creation do not take it at all.          *)
(*                                                                         *)
(* A content is a number, standing for the bytes and for their MD5; Torn   *)
(* is the content of a part whose row could not be written.  An upload has *)
(* one part.  A request is op, pc, the id b it resolved, the upload i, the *)
(* content v it carries, the ETag e it names or will store, cond, and the  *)
(* file it replaces.                                                       *)
(***************************************************************************)
EXTENDS Integers, FiniteSets

CONSTANTS Buckets,     \* ids of the buckets that ever bear the name
          Uploads,     \* upload ids
          Clients,     \* concurrent requests
          None,
          MaxContent   \* bound on distinct contents uploaded

VARIABLES bst,      \* "none", "live", "deleted" (with its project) or "gone"
          obj,      \* ETag of the row of the key in each bucket, 0 for none
          file,     \* content of <bucket name>/<key>, 0 for none
          up,       \* upload rows and staging directories
          lock,     \* holder of the lock of the bucket name
          req, fresh,
          foreign,  \* rows whose file was last touched under another bucket id
          published \* <<upload, n>>: times an upload was committed


Torn == -1
Content == -1 .. MaxContent
Ops == {"put", "copy", "delete", "delbucket", "force", "start", "part", "complete", "abort"}
Conds == {"any", "absent", "match"}
Idle == [op |-> "idle", pc |-> "idle", b |-> None, i |-> None, v |-> 0, e |-> 0,
         cond |-> "any", old |-> 0]
NoUpload == [row |-> "none", b |-> None, part |-> 0, staged |-> 0]

S3TypeOK ==
    /\ bst \in [Buckets -> {"none", "live", "deleted", "gone"}]
    /\ obj \in [Buckets -> Content]
    /\ file \in Content
    /\ up \in [Uploads -> [row : {"none", "open", "gone"}, b : Buckets \cup {None},
                           part : Content, staged : Content]]
    /\ lock \in Clients \cup {None}
    /\ req \in [Clients -> [op : Ops \cup {"idle", "create"}, b : Buckets \cup {None},
                            pc : {"idle", "read", "resolve", "lock", "tx", "commit", "unlink",
                                  "mkdir", "row", "clean"},
                            i : Uploads \cup {None}, v : Content, e : Content,
                            cond : Conds, old : Content]]
    /\ fresh \in 0 .. MaxContent
    /\ foreign \subseteq Buckets
    /\ published \in [Uploads -> Nat]

S3Init ==
    /\ bst = [b \in Buckets |-> "none"]
    /\ obj = [b \in Buckets |-> 0]
    /\ file = 0
    /\ up = [i \in Uploads |-> NoUpload]
    /\ lock = None
    /\ req = [c \in Clients |-> Idle]
    /\ fresh = 0
    /\ foreign = {}
    /\ published = [i \in Uploads |-> 0]

-----------------------------------------------------------------------------
(* The live bucket of the name, of a live project.                         *)
findBucketID(b) == bst[b] = "live"
FindBucketProjectID == {b \in Buckets : findBucketID(b)}
NoBucket == FindBucketProjectID = {}
RowExists(b) == bst[b] \in {"live", "deleted"}

(* Rows of objects and uploads.                                            *)
Upsert(b, e) == obj' = [obj EXCEPT ![b] = e]
Delete(b) == obj' = [obj EXCEPT ![b] = 0]
FindByKey(b) == obj[b]
FindUpload(i) == up[i].row = "open"
StartUpload(i, b) == [up EXCEPT ![i] = [NoUpload EXCEPT !.row = "open", !.b = b]]
DeleteUpload(u) == [u EXCEPT !.row = IF @ = "open" THEN "gone" ELSE @, !.part = 0]
ListStaleUploads == {i \in Uploads : FindUpload(i)}

(* An upload is served to the bucket its row names, if that one is live.   *)
verifyUploadOwnership(i) == FindUpload(i) /\ findBucketID(up[i].b)

(* Rows of other buckets whose file an operation under id b has touched.   *)
Touched(b) == (foreign \ {b}) \cup {x \in Buckets \ {b} : RowExists(x) /\ obj[x] # 0}

Done(c) == req' = [req EXCEPT ![c] = Idle]
Goto(c, pc) == req' = [req EXCEPT ![c].pc = pc]

(* The objects and uploads of a bucket row go with it (ON DELETE CASCADE); *)
(* staging directories stay.                                               *)
DropBucket(b) ==
    /\ bst' = [bst EXCEPT ![b] = "gone"]
    /\ Delete(b)
    /\ up' = [i \in Uploads |->
                IF FindUpload(i) /\ up[i].b = b THEN DeleteUpload(up[i]) ELSE up[i]]

-----------------------------------------------------------------------------
(* A signed request arrives.  RequireBucketAccess lets it through when the *)
(* key's project owns the live bucket of the name, or there is none: the   *)
(* bucket in question is the one of the key's project, own.                *)
RequireBucketAccess(own) == NoBucket \/ findBucketID(own)

Begin(c, own, r) ==
    /\ req[c] = Idle /\ RequireBucketAccess(own)
    /\ IF r.op \in {"put", "part"}
       THEN fresh < MaxContent /\ fresh' = fresh + 1
       ELSE fresh' = fresh
    /\ req' = [req EXCEPT ![c] = [r EXCEPT !.v = IF r.op \in {"put", "part"} THEN fresh' ELSE 0]]
    /\ UNCHANGED <<bst, obj, file, up, lock, foreign, published>>

(* A put, with If-None-Match: * ("absent"), If-Match ("match") or neither. *)
interceptPutObject(c, own, cond) ==
    \E e \in 0 .. fresh :
        /\ (e # 0) <=> (cond = "match")
        /\ Begin(c, own, [Idle EXCEPT !.op = "put", !.pc = "resolve", !.cond = cond, !.e = e])

interceptCreateMultipartUpload(c, own, i) ==
    Begin(c, own, [Idle EXCEPT !.op = "start", !.pc = "resolve", !.i = i])

(* The other requests, which the S3 library hands to the backend.          *)
Request(c, own, op, i) ==
    /\ op = "copy" => ~NoBucket
    /\ \E e \in 0 .. fresh :
         /\ (e # 0) <=> (op = "complete")
         /\ Begin(c, own, [Idle EXCEPT !.op = op, !.e = e, !.i = i,
                              !.pc = CASE op = "copy"                   -> "read"
                                       [] op \in {"delbucket", "force"} -> "lock"
                                       [] OTHER                         -> "resolve"])

(* The content of the object, if its row and its file are there.           *)
GetObject == {v \in {file} : v # 0 /\ \E b \in FindBucketProjectID : FindByKey(b) # 0}

(* CopyObject reads the source under the lock, then puts what it read.     *)
CopyObject(c) ==
    /\ req[c].pc = "read" /\ lock = None
    /\ IF GetObject # {}
       THEN req' = [req EXCEPT ![c].pc = "resolve", ![c].v = file]
       ELSE Done(c)
    /\ UNCHANGED <<bst, obj, file, up, lock, fresh, foreign, published>>

(* Every object and upload operation resolves the name first.  An abort of *)
(* an upload it does not find removes the staging directory all the same.  *)
Resolve(c) ==
    /\ req[c].pc = "resolve"
    /\ LET r == req[c]
           found == ~NoBucket
           usable == IF r.op \in {"part", "complete", "abort"} THEN verifyUploadOwnership(r.i)
                     ELSE found
           id == CHOOSE b \in FindBucketProjectID : TRUE
       IN IF usable
          THEN req' = [req EXCEPT ![c].b = id,
                                  ![c].pc = IF r.op \in {"start", "abort"} THEN "tx" ELSE "lock"]
          ELSE IF r.op = "abort" THEN Goto(c, "clean")
          ELSE Done(c)
    /\ UNCHANGED <<bst, obj, file, up, lock, fresh, foreign, published>>

-----------------------------------------------------------------------------
(* PutObject: the lock, the preconditions, then the file is replaced.      *)
PutCondition(c) ==
    LET cur == FindByKey(req[c].b) IN
    CASE req[c].cond = "absent" -> cur = 0
      [] req[c].cond = "match"  -> cur = req[c].e
      [] OTHER                  -> TRUE

PutObject(c) ==
    /\ lock = None
    /\ req[c].pc = "lock" /\ req[c].op \in {"put", "copy"}
    /\ IF PutCondition(c)
       THEN /\ lock' = c
            /\ file' = req[c].v
            /\ req' = [req EXCEPT ![c].pc = "commit", ![c].e = req[c].v, ![c].old = file]
       ELSE Done(c) /\ UNCHANGED <<lock, file>>
    /\ UNCHANGED <<bst, obj, up, fresh, foreign, published>>

(* The commit of a put or of a completed upload.  The insert fails when    *)
(* the bucket's row is gone, and may fail for any other reason; Replace    *)
(* then puts the previous file back.                                       *)
ReplaceCommit(c) ==
    /\ req[c].pc = "commit"
    /\ RowExists(req[c].b)
    /\ Upsert(req[c].b, req[c].e)
    /\ foreign' = Touched(req[c].b)
    /\ IF req[c].op = "complete"
       THEN /\ up' = [up EXCEPT ![req[c].i] = [DeleteUpload(@) EXCEPT !.staged = 0]]
            /\ published' = [published EXCEPT ![req[c].i] = @ + 1]
       ELSE UNCHANGED <<up, published>>
    /\ lock' = None /\ Done(c)
    /\ UNCHANGED <<bst, file, fresh>>

\* Mutant: a failed insert leaves the new file in place.
KeepNewFile(c) ==
    /\ req[c].pc = "commit"
    /\ lock' = None /\ Done(c)
    /\ UNCHANGED <<bst, obj, file, up, fresh, foreign, published>>

ReplaceRollback(c) ==
    /\ req[c].pc = "commit"
    /\ file' = req[c].old
    /\ lock' = None /\ Done(c)
    /\ UNCHANGED <<bst, obj, up, fresh, foreign, published>>

(* DeleteObject: the row, then whatever file has the name.                 *)
DeleteObject(c) ==
    /\ req[c].pc = "lock" /\ req[c].op = "delete" /\ lock = None
    /\ \/ /\ Delete(req[c].b)
          /\ lock' = c /\ Goto(c, "unlink")
       \/ Done(c) /\ UNCHANGED <<obj, lock>>
    /\ UNCHANGED <<bst, file, up, fresh, foreign, published>>

DeleteFile(c) ==
    /\ req[c].pc = "unlink"
    /\ file' = 0
    /\ foreign' = Touched(req[c].b)
    /\ lock' = None /\ Done(c)
    /\ UNCHANGED <<bst, obj, up, fresh, published>>

-----------------------------------------------------------------------------
(* Creation through the REST API: the row, then the directory; when the    *)
(* directory cannot be made the row is deleted again.                      *)
CreateBucketForProject(c, b) ==
    /\ req[c] = Idle /\ bst[b] = "none" /\ NoBucket
    /\ bst' = [bst EXCEPT ![b] = "live"]
    /\ req' = [req EXCEPT ![c] = [Idle EXCEPT !.op = "create", !.pc = "mkdir", !.b = b]]
    /\ UNCHANGED <<obj, file, up, lock, fresh, foreign, published>>

CreateBucketDir(c) ==
    /\ req[c].pc = "mkdir"
    /\ \/ UNCHANGED <<bst, obj, up>>
       \/ file = 0 /\ RowExists(req[c].b) /\ DropBucket(req[c].b)
    /\ Done(c)
    /\ UNCHANGED <<file, lock, fresh, foreign, published>>

(* Deleting a bucket resolves the name under the lock.  An empty bucket's  *)
(* directory is removed if it is empty too; a forced delete removes it.    *)
DeleteBucket(c) ==
    /\ req[c].pc = "lock" /\ req[c].op = "delbucket" /\ lock = None
    /\ \/ \E b \in FindBucketProjectID : FindByKey(b) = 0 /\ DropBucket(b)
       \/ (\A b \in FindBucketProjectID : FindByKey(b) # 0) /\ UNCHANGED <<bst, obj, up>>
    /\ Done(c)
    /\ UNCHANGED <<file, lock, fresh, foreign, published>>

ForceDeleteBucket(c) ==
    /\ req[c].pc = "lock" /\ req[c].op = "force" /\ lock = None
    /\ \/ /\ \E b \in Buckets :
               findBucketID(b) /\ DropBucket(b) /\ foreign' = Touched(b)
          /\ file' = 0
       \/ NoBucket /\ UNCHANGED <<bst, obj, up, file, foreign>>
    /\ Done(c)
    /\ UNCHANGED <<lock, fresh, published>>

(* The bucket goes and comes back with its project; a restore fails while  *)
(* the name is taken.                                                      *)
SoftDeleteAllBucketsForProject(b) ==
    /\ bst[b] = "live"
    /\ bst' = [bst EXCEPT ![b] = "deleted"]
    /\ UNCHANGED <<obj, file, up, lock, req, fresh, foreign, published>>

RestoreCascadedBucketsForProject(b) ==
    /\ bst[b] = "deleted" /\ NoBucket
    /\ bst' = [bst EXCEPT ![b] = "live"]
    /\ UNCHANGED <<obj, file, up, lock, req, fresh, foreign, published>>

-----------------------------------------------------------------------------
(* Multipart uploads.                                                      *)
CreateMultipartUploadCtx(c) ==
    /\ req[c].pc = "tx" /\ req[c].op = "start"
    /\ IF RowExists(req[c].b) /\ up[req[c].i].row = "none"
       THEN up' = StartUpload(req[c].i, req[c].b)
       ELSE up' = up
    /\ Done(c)
    /\ UNCHANGED <<bst, obj, file, lock, fresh, foreign, published>>

(* The part's file is replaced first, its row written after it.            *)
UploadPart(c) ==
    /\ req[c].pc = "lock" /\ req[c].op = "part" /\ lock = None
    /\ up' = [up EXCEPT ![req[c].i].staged = req[c].v]
    /\ lock' = c
    /\ Goto(c, "row")
    /\ UNCHANGED <<bst, obj, file, fresh, foreign, published>>

AddPart(c) ==
    /\ req[c].pc = "row"
    /\ up' = IF FindUpload(req[c].i) THEN [up EXCEPT ![req[c].i].part = req[c].v] ELSE up
    /\ lock' = None
    /\ Done(c)
    /\ UNCHANGED <<bst, obj, file, fresh, foreign, published>>

AddPartFails(c) ==
    /\ req[c].pc = "row" /\ FindUpload(req[c].i)
    /\ up' = [up EXCEPT ![req[c].i].staged = IF @ = 0 THEN 0 ELSE Torn]
    /\ lock' = None
    /\ Done(c)
    /\ UNCHANGED <<bst, obj, file, fresh, foreign, published>>

\* Mutant: the client's list of parts is not compared with the rows.
StalePartsComplete(c) ==
    /\ req[c].pc = "lock" /\ req[c].op = "complete" /\ lock = None
    /\ lock' = c
    /\ file' = req[c].e
    /\ req' = [req EXCEPT ![c].pc = "commit", ![c].v = req[c].e, ![c].old = file]
    /\ UNCHANGED <<bst, obj, up, fresh, foreign, published>>

(* The rows of the parts are read under the lock: the client's ETag has to *)
(* be the stored one.  Then the staged file becomes the object's.          *)
CompleteMultipartUpload(c) ==
    /\ req[c].pc = "lock" /\ req[c].op = "complete" /\ lock = None
    /\ LET u == up[req[c].i] IN
       IF u.part = req[c].e /\ u.staged # 0
       THEN /\ lock' = c
            /\ file' = u.staged
            /\ req' = [req EXCEPT ![c].pc = "commit", ![c].v = u.staged, ![c].old = file]
       ELSE Done(c) /\ UNCHANGED <<lock, file>>
    /\ UNCHANGED <<bst, obj, up, fresh, foreign, published>>

(* An abort deletes the row, then the directory, without the lock.         *)
AbortMultipartUpload(c) ==
    /\ req[c].pc = "tx" /\ req[c].op = "abort"
    /\ up' = [up EXCEPT ![req[c].i] = DeleteUpload(@)]
    /\ Goto(c, "clean")
    /\ UNCHANGED <<bst, obj, file, lock, fresh, foreign, published>>

RemoveStaging(c) ==
    /\ req[c].pc = "clean"
    /\ up' = [up EXCEPT ![req[c].i].staged = 0]
    /\ Done(c)
    /\ UNCHANGED <<bst, obj, file, lock, fresh, foreign, published>>

(* The sweep aborts an upload older than the retention, whoever owns it.   *)
SweepOrphanMultiparts(c, i) ==
    /\ req[c] = Idle /\ i \in ListStaleUploads
    /\ req' = [req EXCEPT ![c] = [Idle EXCEPT !.op = "abort", !.pc = "resolve", !.i = i]]
    /\ UNCHANGED <<bst, obj, file, up, lock, fresh, foreign, published>>

S3Next ==
    \/ \E c \in Clients, own \in Buckets :
         \/ \E cond \in Conds : interceptPutObject(c, own, cond)
         \/ \E i \in Uploads :
              \/ interceptCreateMultipartUpload(c, own, i)
              \/ \E op \in Ops \ {"put", "start"} : Request(c, own, op, i)
    \/ \E c \in Clients :
         \/ CopyObject(c) \/ Resolve(c)
         \/ PutObject(c) \/ ReplaceCommit(c) \/ ReplaceRollback(c)
         \/ DeleteObject(c) \/ DeleteFile(c)
         \/ CreateBucketDir(c) \/ DeleteBucket(c) \/ ForceDeleteBucket(c)
         \/ CreateMultipartUploadCtx(c) \/ UploadPart(c) \/ AddPart(c) \/ AddPartFails(c)
         \/ CompleteMultipartUpload(c) \/ AbortMultipartUpload(c) \/ RemoveStaging(c)
         \/ \E b \in Buckets : CreateBucketForProject(c, b)
         \/ \E i \in Uploads : SweepOrphanMultiparts(c, i)
    \/ \E b \in Buckets : SoftDeleteAllBucketsForProject(b) \/ RestoreCascadedBucketsForProject(b)

-----------------------------------------------------------------------------
(* An object's row and its file agree whenever nobody holds the bucket's   *)
(* lock: puts, copies, completed uploads, failed commits and deletes never *)
(* leave one bucket's row with another content.  What the code does not    *)
(* prevent is named: a file last touched through another bucket of the     *)
(* same name, and a part whose row was not written after its file.         *)
ObjectsIntact ==
    lock = None =>
        \A b \in Buckets \ foreign :
            RowExists(b) /\ obj[b] # 0 => file \in {obj[b], Torn}

(* An upload is published at most once, however often it is completed and  *)
(* whatever aborts it in between (multipart.go:250, 367).                  *)
PublishedOnce == \A i \in Uploads : published[i] <= 1
=============================================================================
