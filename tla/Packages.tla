------------------------------ MODULE Packages ------------------------------
(***************************************************************************)
(* Uploads and deletes of the package protocols in one repository of type  *)
(* proto: the row of each version, its file, a second file (go.mod, chart  *)
(* provenance, Maven checksum) and its entry in the search index.  Uploads *)
(* replace the file and commit the row under the lock of the path; npm has *)
(* one lock for the whole repository, which deletes take too; PyPI locks   *)
(* the file name from its check to the commit.  Other deletes take no      *)
(* lock.  The kick of the index regeneration that ends a handler is in     *)
(* RegenCoalescer.                                                         *)
(*                                                                         *)
(* A content is a number no other upload has, 0 for none; it also stands   *)
(* for the digest, for a chart's app version, and for the id of the row    *)
(* its upload created.                                                     *)
(***************************************************************************)
EXTENDS Integers, FiniteSets, FiniteSetsExt

CONSTANTS Versions,    \* 1 .. n: versions of one package in increasing order, and their paths
          DistTags,    \* npm tags; "latest" is one
          Clients, None,
          MaxUploads   \* bound on uploads

Protos    == {"rpm", "deb", "helm", "pypi", "npm", "maven", "go"}
Content   == 0 .. MaxUploads

VARIABLES proto, row, file, side,
          index,     \* entries of the search index: <<version, content>>
          tags,      \* npm dist-tags: the version, 0 for none
          lock,      \* by path; 0 is the lock of the repository
          req,
          sess,      \* a PyPI upload session: its state and its staged files
          tmp,       \* staged files on disk
          made,      \* contents uploaded
          shadowed,  \* versions whose file is now another version's
          torn       \* paths whose file a delete took from a later upload
vars == <<proto, row, file, side, index, tags, lock, req, sess, tmp, made, shadowed, torn>>

NoRow == [c |-> 0, id |-> 0, path |-> 0]
Idle == [op |-> "idle", pc |-> "idle", k |-> 0, p |-> 0, v |-> 0, old |-> 0, old2 |-> 0,
         id |-> 0, tags |-> {}, todo |-> {}]

TypeOK ==
    /\ proto \in Protos
    /\ row \in [Versions -> [c : Content, id : Content, path : Versions \cup {0}]]
    /\ file \in [Versions -> Content] /\ side \in [Versions -> Content]
    /\ index \subseteq Versions \X Content
    /\ tags \in [DistTags -> Versions \cup {0}]
    /\ lock \in [Versions \cup {0} -> Clients \cup {None}]
    /\ req \in [Clients -> [op : {"idle", "put", "stage", "session", "delete"},
                            pc : {"idle", "staged", "mod", "commit", "find", "tx", "move", "side"},
                            k : Versions \cup {0}, p : Versions \cup {0}, v : Content, old : Content,
                            old2 : Content, id : Content, tags : SUBSET DistTags,
                            todo : SUBSET (Versions \X Content)]]
    /\ sess \in [st : {"none", "open", "gone"}, files : [Versions -> Content]]
    /\ tmp \subseteq Content /\ made \in Content
    /\ shadowed \subseteq Versions /\ torn \subseteq Versions

Init ==
    /\ proto \in Protos
    /\ row = [k \in Versions |-> NoRow]
    /\ file = [p \in Versions |-> 0] /\ side = [p \in Versions |-> 0]
    /\ index = {}
    /\ tags = [t \in DistTags |-> 0]
    /\ lock = [p \in Versions \cup {0} |-> None]
    /\ req = [c \in Clients |-> Idle]
    /\ sess = [st |-> "none", files |-> [k \in Versions |-> 0]]
    /\ tmp = {} /\ made = 0
    /\ shadowed = {} /\ torn = {}

-----------------------------------------------------------------------------
Has(k) == row[k].c # 0
AtPath(p) == {k \in Versions : Has(k) /\ row[k].path = p}

LockOf(p) == IF proto = "npm" THEN 0 ELSE p
Lock(c, p) == lock' = [lock EXCEPT ![LockOf(p)] = c]
Unlock(c) == lock' = [x \in DOMAIN lock |-> IF lock[x] = c THEN None ELSE lock[x]]
Done(c) == req' = [req EXCEPT ![c] = Idle]
Goto(c, pc) == req' = [req EXCEPT ![c] = [@ EXCEPT !.pc = pc]]
Leave(c) == Done(c) /\ Unlock(c)

\* Mutant: entries of the search index stay.
KeepIndex(k, v) == index

(* What the search index loses: npm and Go entries go by digest, charts by *)
(* version and app version, the others by version.                         *)
IndexRPMDelete(k) == {e \in index : e[1] # k}
IndexHelmDelete(k, v) == index \ {<<k, v>>}
IndexPackageDelete(v) == {e \in index : e[2] # v}

IndexDelete(k, v) ==
    IF proto \in {"npm", "go"} THEN IndexPackageDelete(v)
    ELSE IF proto = "helm" THEN IndexHelmDelete(k, v)
    ELSE IndexRPMDelete(k)

(* The row of an upsert keeps its id.                                      *)
Insert(c, k, p, v) ==
    /\ row' = [row EXCEPT ![k] = [c |-> v, id |-> IF Has(k) THEN @.id ELSE v, path |-> p]]
    /\ index' = IndexDelete(k, v) \cup {<<k, v>>}
    /\ shadowed' = (shadowed \ {k}) \cup (AtPath(p) \ {k})

-----------------------------------------------------------------------------
(* The body is staged and the package parsed; its content is new.          *)
Receive(c, t, k, p, T) ==
    /\ proto = t /\ req[c] = Idle /\ made < MaxUploads
    /\ made' = made + 1
    /\ req' = [req EXCEPT ![c] = [Idle EXCEPT !.op = "put", !.pc = "staged", !.k = k, !.p = p,
                                              !.v = made + 1, !.tags = T]]
    /\ UNCHANGED <<proto, row, file, side, index, tags, lock, sess, tmp, shadowed, torn>>

(* An RPM has to bear its canonical name; the path of an npm, PyPI, Maven  *)
(* or Go upload says what it holds.                                        *)
PutRPM(c, k)      == Receive(c, "rpm", k, k, {})
HandleLegacyUpload(c, k) == Receive(c, "pypi", k, k, {})
PutArtifact(c, k) == Receive(c, "maven", k, k, {})
PutModule(c, k)   == Receive(c, "go", k, k, {})

(* The pool path of a deb and the name of a chart are the client's.        *)
PutDEB(c, k, p)   == Receive(c, "deb", k, p, {})
PutChart(c, k, p) == Receive(c, "helm", k, p, {})

(* The dist-tags of a publish may only name the version it publishes.      *)
Publish(c, k, T)  == Receive(c, "npm", k, k, T)

(* A provenance file, or a Maven file that is not an artifact.             *)
PutSide(p, t) ==
    /\ proto = t /\ made < MaxUploads
    /\ made' = made + 1
    /\ side' = [side EXCEPT ![p] = made + 1]
    /\ UNCHANGED <<proto, row, file, index, tags, lock, req, sess, tmp, shadowed, torn>>

PutProvenance(p) == PutSide(p, "helm")
PutSidecar(p)    == PutSide(p, "maven")

(* Under the lock: a version that exists is refused by npm and PyPI, else  *)
(* the file is replaced.  A session's file has to be on disk still.        *)
\* Mutant: nobody waits for the lock.
AnyPut(c) == TRUE

LockedPut(c) == lock[LockOf(req[c].p)] = None

(* npm refuses a version it has, PyPI a file name it has.                  *)
VersionExists(k) == proto = "npm" /\ Has(k)
FileExists(p) == proto = "pypi" /\ AtPath(p) # {}

Place(c) ==
    /\ req[c].pc = "staged" /\ LockedPut(c)
    /\ LET r == req[c]
           refused == \/ VersionExists(r.k) \/ FileExists(r.p)
                      \/ r.op = "session" /\ r.v \notin tmp
       IN IF refused
          THEN Done(c) /\ UNCHANGED <<file, lock>>
          ELSE /\ Lock(c, r.p)
               /\ file' = [file EXCEPT ![r.p] = r.v]
               /\ req' = [req EXCEPT ![c] = [r EXCEPT !.pc = IF proto = "go" THEN "mod" ELSE "commit",
                                                      !.old = file[r.p]]]
    /\ UNCHANGED <<proto, row, side, index, tags, sess, tmp, made, shadowed, torn>>

(* Go modules: go.mod is replaced inside the replacement of the zip.       *)
PlaceMod(c) ==
    /\ req[c].pc = "mod"
    /\ side' = [side EXCEPT ![req[c].p] = req[c].v]
    /\ req' = [req EXCEPT ![c] = [@ EXCEPT !.pc = "commit", !.old2 = side[req[c].p]]]
    /\ UNCHANGED <<proto, row, file, index, tags, lock, sess, tmp, made, shadowed, torn>>

(* A session goes on with the next of its files, or is deleted.            *)
NextOfSession(c) ==
    LET todo == req[c].todo \ {<<req[c].k, req[c].v>>} IN
    IF req[c].op = "session" /\ todo # {}
    THEN /\ \E f \in todo :
              req' = [req EXCEPT ![c] = [@ EXCEPT !.pc = "staged", !.k = f[1], !.p = f[1], !.v = f[2],
                                                  !.todo = todo]]
         /\ UNCHANGED <<sess, tmp>>
    ELSE /\ Done(c)
         /\ IF req[c].op = "session"
            THEN /\ sess' = [sess EXCEPT !.st = "gone"]
                 /\ tmp' = tmp \ Range(sess.files)
            ELSE UNCHANGED <<sess, tmp>>

(* The tags of a publish may only name the version it publishes.           *)
SetDistTags(k, T) == tags' = [t \in DistTags |-> IF t \in T THEN k ELSE tags[t]]

Commit(c) ==
    /\ req[c].pc = "commit"
    /\ LET r == req[c] IN
       IF FileExists(r.p)
       THEN Leave(c) /\ UNCHANGED <<row, index, tags, sess, tmp, shadowed, torn>>
       ELSE /\ Insert(c, r.k, r.p, r.v)
            /\ SetDistTags(r.k, r.tags)
            /\ NextOfSession(c)
            /\ Unlock(c)
            /\ torn' = IF file[r.p] = r.v /\ (proto = "go" => side[r.p] = r.v) THEN torn \ {r.p} ELSE torn
    /\ UNCHANGED <<proto, file, side, made>>

Rollback(c) ==
    /\ req[c].pc \in {"mod", "commit"}
    /\ LET r == req[c] IN
         /\ file' = [file EXCEPT ![r.p] = IF proto = "pypi" THEN 0 ELSE r.old]
         /\ side' = IF proto = "go" /\ r.pc = "commit" THEN [side EXCEPT ![r.p] = r.old2] ELSE side
    /\ Leave(c)
    /\ UNCHANGED <<proto, row, index, tags, sess, tmp, made, shadowed, torn>>

-----------------------------------------------------------------------------
(* PEP 694 sessions: in memory, with an expiry; files are staged one by    *)
(* one and published by the commit.                                        *)
CreateSession ==
    /\ proto = "pypi" /\ sess.st = "none"
    /\ sess' = [sess EXCEPT !.st = "open"]
    /\ UNCHANGED <<proto, row, file, side, index, tags, lock, req, tmp, made, shadowed, torn>>

handleUploadFile(c, k) ==
    /\ proto = "pypi" /\ sess.st = "open" /\ req[c] = Idle /\ made < MaxUploads
    /\ made' = made + 1
    /\ tmp' = tmp \cup {made + 1}
    /\ req' = [req EXCEPT ![c] = [Idle EXCEPT !.op = "stage", !.pc = "side", !.k = k, !.v = made + 1]]
    /\ UNCHANGED <<proto, row, file, side, index, tags, lock, sess, shadowed, torn>>

(* The file joins the session the request found, or is dropped with an     *)
(* error; the one it replaces is removed.                                  *)
StageFile(c) ==
    /\ req[c].pc = "side" /\ req[c].op = "stage"
    /\ LET r == req[c] IN
         \/ /\ tmp' = tmp \ {sess.files[r.k]}
            /\ sess' = [sess EXCEPT !.files[r.k] = r.v]
         \/ /\ tmp' = tmp \ {r.v}
            /\ sess' = sess
    /\ Done(c)
    /\ UNCHANGED <<proto, row, file, side, index, tags, lock, made, shadowed, torn>>

ExpireSession ==
    /\ sess.st = "open"
    /\ sess' = [sess EXCEPT !.st = "gone"]
    /\ tmp' = tmp \ Range(sess.files)
    /\ UNCHANGED <<proto, row, file, side, index, tags, lock, req, made, shadowed, torn>>

handleCommit(c) ==
    /\ proto = "pypi" /\ sess.st = "open" /\ req[c] = Idle
    /\ LET files == {<<k, sess.files[k]>> : k \in {x \in Versions : sess.files[x] # 0}} IN
       \E f \in files :
         req' = [req EXCEPT ![c] = [Idle EXCEPT !.op = "session", !.pc = "staged", !.k = f[1],
                                                !.p = f[1], !.v = f[2], !.todo = files]]
    /\ UNCHANGED <<proto, row, file, side, index, tags, lock, sess, tmp, made, shadowed, torn>>

-----------------------------------------------------------------------------
(* A delete finds a row of the path and whether the file is there.         *)
FindRow(c, t, k, p) ==
    /\ proto = t /\ req[c] = Idle
    /\ req' = [req EXCEPT ![c] = [Idle EXCEPT !.op = "delete", !.pc = "tx", !.k = k, !.p = p,
                                              !.v = row[k].c, !.id = row[k].id, !.old = file[p]]]
    /\ UNCHANGED <<proto, row, file, side, index, tags, sess, tmp, made, shadowed, torn>>

DeleteRPM(c, p)   == \E k \in AtPath(p) : FindRow(c, "rpm", k, p) /\ lock' = lock
DeleteModule(c, p) == \E k \in AtPath(p) : FindRow(c, "go", k, p) /\ lock' = lock
DeletePackage(c, p) == \E k \in AtPath(p) : FindRow(c, "pypi", k, p) /\ lock' = lock

(* One of the rows, when a chart or a deb shares its path with others.     *)
DeleteDEB(c, p)   == \E k \in AtPath(p) : FindRow(c, "deb", k, p) /\ lock' = lock
DeleteChart(c, p) == \E k \in AtPath(p) : FindRow(c, "helm", k, p) /\ lock' = lock

(* Maven deletes a file that has no row too.                               *)
DeleteArtifact(c, p) ==
    \E k \in AtPath(p) \cup {x \in {p} : AtPath(p) = {} /\ file[p] # 0} :
        FindRow(c, "maven", k, p) /\ lock' = lock

(* npm holds the lock of the repository until it is done.                  *)
Unpublish(c, p) ==
    \E k \in AtPath(p) : lock[0] = None /\ FindRow(c, "npm", k, p) /\ Lock(c, p)

(* Rows the transaction deletes: by id, of a deb by path.                  *)
DeleteByStoragePoolPath(p) == AtPath(p)
DeletedRows(r) ==
    IF proto = "deb" THEN DeleteByStoragePoolPath(r.p)
    ELSE {k \in {r.k} : Has(k) /\ row[k].id = r.id}

highestVersion(S) == IF S = {} THEN 0 ELSE Max(S)

\* Mutant: the tags of a deleted version stay.
KeepDistTags(r) == tags

(* A deleted version takes its dist-tags with it; latest moves to the      *)
(* highest version left.                                                   *)
DropDistTags(r) ==
    LET left == {k \in Versions : Has(k)} \ {r.k} IN
    [t \in DistTags |-> IF tags[t] # r.k THEN tags[t]
                        ELSE IF t = "latest" THEN highestVersion(left) ELSE 0]

AfterTx(r) ==
    IF r.old # 0 THEN "move" ELSE IF proto \in {"helm", "go"} THEN "side" ELSE "idle"

DeleteTx(c) ==
    /\ req[c].pc = "tx"
    /\ LET r == req[c] IN
         /\ row' = [k \in Versions |-> IF k \in DeletedRows(r) THEN NoRow ELSE row[k]]
         /\ index' = IF r.v = 0 THEN index ELSE IndexDelete(r.k, r.v)
         /\ shadowed' = shadowed \ DeletedRows(r)
         /\ tags' = IF proto = "npm" THEN DropDistTags(r) ELSE tags
         /\ IF AfterTx(r) = "idle" THEN Leave(c) ELSE Goto(c, AfterTx(r)) /\ lock' = lock
    /\ UNCHANGED <<proto, file, side, sess, tmp, made, torn>>

DeleteFails(c) ==
    /\ req[c].pc = "tx"
    /\ Leave(c)
    /\ UNCHANGED <<proto, row, file, side, index, tags, sess, tmp, made, shadowed, torn>>

(* The file goes to the trash, whoever stored it; a failure ends the       *)
(* request, the row is gone already.                                       *)
MoveToTrash(c) ==
    /\ req[c].pc = "move"
    /\ LET r == req[c] IN
         /\ file' = [file EXCEPT ![r.p] = 0]
         /\ torn' = IF AtPath(r.p) # {} \/ lock[r.p] \notin {None, c} THEN torn \cup {r.p} ELSE torn
         /\ IF proto \in {"helm", "go"} /\ file[r.p] # 0
            THEN Goto(c, "side") /\ lock' = lock
            ELSE Leave(c)
    /\ UNCHANGED <<proto, row, side, index, tags, sess, tmp, made, shadowed>>

MoveFails(c) ==
    /\ req[c].pc = "move"
    /\ Leave(c)
    /\ UNCHANGED <<proto, row, file, side, index, tags, sess, tmp, made, shadowed, torn>>

MoveSide(c) ==
    /\ req[c].pc = "side" /\ req[c].op = "delete"
    /\ LET r == req[c] IN
         /\ \/ side' = [side EXCEPT ![r.p] = 0]
            \/ side' = side
         /\ torn' = IF AtPath(r.p) # {} \/ lock[r.p] # None THEN torn \cup {r.p} ELSE torn
    /\ Done(c)
    /\ UNCHANGED <<proto, row, file, index, tags, lock, sess, tmp, made, shadowed>>

Next ==
    \/ \E c \in Clients, k \in Versions :
         \/ PutRPM(c, k) \/ HandleLegacyUpload(c, k) \/ PutArtifact(c, k) \/ PutModule(c, k)
         \/ \E p \in Versions : PutDEB(c, k, p) \/ PutChart(c, k, p)
         \/ \E T \in SUBSET DistTags : Publish(c, k, T)
         \/ DeleteRPM(c, k) \/ DeleteModule(c, k) \/ DeletePackage(c, k) \/ DeleteDEB(c, k)
         \/ DeleteChart(c, k) \/ DeleteArtifact(c, k) \/ Unpublish(c, k)
         \/ handleUploadFile(c, k)
    \/ \E c \in Clients :
         \/ Place(c) \/ PlaceMod(c) \/ Commit(c) \/ Rollback(c)
         \/ StageFile(c) \/ handleCommit(c)
         \/ DeleteTx(c) \/ DeleteFails(c) \/ MoveToTrash(c) \/ MoveFails(c) \/ MoveSide(c)
    \/ \E p \in Versions : PutProvenance(p) \/ PutSidecar(p)
    \/ CreateSession \/ ExpireSession

Spec == Init /\ [][Next]_vars

-----------------------------------------------------------------------------
(* Downloads.  A file is served as it is on disk, where npm and Go look    *)
(* for the row first; the severity gate on the way is ScanGate's, and      *)
(* looking at a file's size and opening it are one moment here.            *)
ServeFile(p) == file[p]
servePackage(p)     == ServeFile(p)   \* rpm
servePoolPackage(p) == ServeFile(p)   \* deb
getChart(p)         == ServeFile(p)
getPackage(p)       == ServeFile(p)   \* pypi
getArtifact(p)      == ServeFile(p)   \* maven
getTarball(p)       == IF AtPath(p) = {} THEN 0 ELSE ServeFile(p)
serveModule(p)      == IF AtPath(p) = {} THEN 0 ELSE ServeFile(p)
serveMod(p)         == IF AtPath(p) = {} THEN 0 ELSE side[p]

Served(p) ==
    IF proto = "rpm" THEN servePackage(p)
    ELSE IF proto = "deb" THEN servePoolPackage(p)
    ELSE IF proto = "helm" THEN getChart(p)
    ELSE IF proto = "pypi" THEN getPackage(p)
    ELSE IF proto = "maven" THEN getArtifact(p)
    ELSE IF proto = "npm" THEN getTarball(p)
    ELSE serveModule(p)

(* Listings of rows.  A packument reads its versions and then its tags;    *)
(* here both at one moment.  Without any tag latest is the last version.   *)
ListVersions == {k \in Versions : Has(k)}
getList == ListVersions
getPackument ==
    [versions |-> ListVersions,
     tags |-> IF ListVersions # {} /\ \A t \in DistTags : tags[t] = 0
              THEN [tags EXCEPT !["latest"] = Max(ListVersions)] ELSE tags]

(* A version that is listed is served with the content its row describes   *)
(* (a Go module with its go.mod as well) whenever nobody holds the lock    *)
(* of its path, through concurrent uploads, refused                        *)
(* republications, sessions and failed commits.  Two things the code does  *)
(* not prevent: a chart or deb stored under another one's path, and, except*)
(* for npm, a delete that moves the file of an upload that came after its  *)
(* transaction (storage/pathstore.go:205).                                 *)
RowFileAgree ==
    /\ proto = "npm" => torn = {}
    /\ \A k \in getList \ shadowed :
         LET p == row[k].path IN
         p \notin torn /\ lock[LockOf(p)] = None =>
            /\ Served(p) = row[k].c
            /\ proto = "go" => serveMod(p) = row[k].c

(* Every dist-tag of a packument names a version it lists                  *)
(* (npm/delete.go:81).                                                     *)
DistTagsResolve ==
    LET doc == getPackument IN
    \A t \in DistTags : doc.tags[t] # 0 => doc.tags[t] \in doc.versions

(* Search finds no version that is gone, except where an entry is keyed by *)
(* more than the version and outlives a second upload (go, helm) or one of *)
(* several rows deleted at once (deb).  And it finds every version where   *)
(* entries are keyed by content: elsewhere the second of two deletes takes *)
(* the entry of an upload that came between them (fts.go:62, 106, 151).    *)
SearchMatchesRows ==
    /\ proto \in {"rpm", "maven", "pypi", "npm"} => \A e \in index : Has(e[1])
    /\ proto \in {"npm", "go"} => \A k \in Versions : Has(k) => \E e \in index : e[1] = k
=============================================================================
