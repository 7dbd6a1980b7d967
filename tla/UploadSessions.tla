--------------------------- MODULE UploadSessions ---------------------------
(***************************************************************************)
(* One chunked upload of the OCI registry: POST opens a session, each PATCH *)
(* appends a chunk to the session's file, PUT appends the last one, checks *)
(* the digest and renames the file into the content-addressed store.  No   *)
(* lock covers a session, so its requests may overlap, and the collector   *)
(* may prune it under them.                                                *)
(*                                                                         *)
(* A file is an inode: a request that has it open writes to it wherever it *)
(* is linked by then.  A content is the sequence of its bytes, each the    *)
(* number of the request that sent it; the content is also the digest.     *)
(***************************************************************************)
EXTENDS Integers, Sequences

CONSTANTS Clients,
          ChunkMax, SessionMax,   \* limits, in bytes
          MaxOps                  \* bound on requests that carry bytes

Inodes == 1 .. MaxOps + 1

VARIABLES st,      \* the row of blob_upload_sessions
          bytes,   \* its bytes_so_far
          inode,   \* the content of each inode
          link,    \* what <dataRoot>/tmp/uploads/<uuid> names, 0 for nothing
          made,    \* inodes created
          cas,     \* files of the store: name and inode
          rows,    \* digests in docker_blobs and docker_repo_blobs
          ureq, ops,
          sweep,   \* the collector has deleted the row and not yet the file
          torn,    \* inodes made or written after the store hashed the file
          upast    \* what else went wrong
uvars == <<st, bytes, inode, link, made, cas, rows, ureq, ops, sweep, torn, upast>>

NoReq == [op |-> "idle", pc |-> "idle", id |-> 0, n |-> 0, seen |-> 0, fd |-> 0,
          actual |-> <<>>, hash |-> <<>>]

UTypeOK ==
    /\ st \in {"none", "open", "gone"} /\ bytes \in Nat
    /\ DOMAIN inode = Inodes /\ link \in Inodes \cup {0} /\ made \in 0 .. MaxOps + 1
    /\ \A e \in cas : e.i \in Inodes
    /\ ops \in 0 .. MaxOps /\ sweep \in {"no", "file"} /\ torn \subseteq Inodes
    /\ upast \subseteq {"fault", "refused", "clipped"}

UInit ==
    /\ st = "none" /\ bytes = 0
    /\ inode = [i \in Inodes |-> <<>>] /\ link = 0 /\ made = 0
    /\ cas = {} /\ rows = {}
    /\ ureq = [c \in Clients |-> NoReq] /\ ops = 0
    /\ sweep = "no" /\ torn = {} /\ upast = {}

-----------------------------------------------------------------------------
files == <<inode, link, made>>
store == <<cas, rows>>

Step(c, pc) == ureq' = [ureq EXCEPT ![c].pc = pc]
End(c) == ureq' = [ureq EXCEPT ![c] = NoReq]

Create == st = "none" /\ st' = "open" /\ bytes' = 0

(* The row, and an empty file.                                             *)
blobUploadPost ==
    /\ Create
    /\ made' = 1 /\ link' = 1
    /\ UNCHANGED <<inode, store, ureq, ops, sweep, torn, upast>>

(* Both handlers read the row first; n bytes will come.                    *)
Lookup(c, op, n) ==
    /\ ureq[c] = NoReq /\ st = "open" /\ ops < MaxOps
    /\ ops' = ops + 1
    /\ ureq' = [ureq EXCEPT ![c] = [NoReq EXCEPT !.op = op, !.pc = "open", !.id = ops + 1,
                                                 !.n = n, !.seen = bytes]]
    /\ UNCHANGED <<st, bytes, files, store, sweep, torn, upast>>

blobUploadPatch(c, n) == Lookup(c, "patch", n)
blobUploadPut(c, n) == Lookup(c, "put", n)

(* Inodes the store has hashed: linked there, or about to be renamed.      *)
Renaming == \E c \in Clients : ureq[c].pc = "rename"
Hashed(i) == (\E e \in cas : e.i = i) \/ (link = i /\ Renaming)

(* O_CREATE: a file that is gone is made anew.                             *)
openAppend(c) ==
    /\ ureq[c].pc = "open"
    /\ IF link # 0 THEN UNCHANGED <<files, torn>>
       ELSE /\ link' = made + 1 /\ made' = made + 1 /\ UNCHANGED inode
            /\ torn' = IF Renaming THEN torn \cup {made + 1} ELSE torn
    /\ ureq' = [ureq EXCEPT ![c].pc = "write", ![c].fd = link']
    /\ UNCHANGED <<st, bytes, store, ops, sweep, upast>>

Bytes(id, n) == [j \in 1 .. n |-> id]

(* The body is appended; when that fails, a part of it may be.             *)
appendChunk(c) ==
    LET r == ureq[c] IN
    /\ r.pc = "write"
    /\ torn' = IF Hashed(r.fd) /\ r.n > 0 THEN torn \cup {r.fd} ELSE torn
    /\ \/ /\ inode' = [inode EXCEPT ![r.fd] = @ \o Bytes(r.id, r.n)]
          /\ ureq' = [ureq EXCEPT ![c].pc = "check"]
          /\ UNCHANGED upast
       \/ \E k \in 0 .. r.n :
          /\ inode' = [inode EXCEPT ![r.fd] = @ \o Bytes(r.id, k)]
          /\ End(c) /\ upast' = upast \cup {"fault"}
    /\ UNCHANGED <<st, bytes, link, made, store, ops, sweep>>

TooLong(r) == r.n > ChunkMax \/ (r.op = "patch" /\ r.seen + r.n > SessionMax)

Cut(s, n) == [j \in 1 .. n |-> IF j <= Len(s) THEN s[j] ELSE 0]

(* Whether cutting s to the length r saw does not just take r's bytes off. *)
Clips(s, r) == Len(s) < r.seen \/ \E j \in 1 .. Len(s) : ~(j > r.seen <=> s[j] = r.id)

\* Mutant: the bytes of a refused chunk stay.
refuseNoTruncate(c) ==
    /\ ureq[c].pc = "check" /\ TooLong(ureq[c])
    /\ End(c)
    /\ UNCHANGED <<st, bytes, files, store, ops, sweep, torn, upast>>

(* Too long: the file is cut back to the length the request saw when it    *)
(* began.                                                                  *)
truncateFile(c) ==
    LET r == ureq[c] IN
    /\ r.pc = "check" /\ TooLong(r)
    /\ inode' = IF link = 0 THEN inode ELSE [inode EXCEPT ![link] = Cut(@, r.seen)]
    /\ torn' = IF link # 0 /\ Hashed(link) THEN torn \cup {link} ELSE torn
    /\ upast' = IF link # 0 /\ Clips(inode[link], r) THEN upast \cup {"clipped"} ELSE upast
    /\ End(c)
    /\ UNCHANGED <<st, bytes, link, made, store, ops, sweep>>

(* bytes_so_far moves by the length of the chunk; a row that is gone, or a *)
(* failed transaction, is an error after the bytes are in the file.        *)
AppendBytes(c) ==
    LET r == ureq[c] IN
    /\ r.pc = "check" /\ r.op = "patch" /\ ~TooLong(r)
    /\ \/ st = "open" /\ bytes' = bytes + r.n /\ UNCHANGED upast
       \/ upast' = upast \cup {"fault"} /\ UNCHANGED bytes
    /\ End(c)
    /\ UNCHANGED <<st, files, store, ops, sweep, torn>>

(* The digest the client claims is that of the file, or it is refused; the *)
(* last chunk stays in the file.                                           *)
sha256OfFile(c) ==
    LET r == ureq[c] IN
    /\ r.pc = "check" /\ r.op = "put" /\ ~TooLong(r)
    /\ \/ /\ link # 0
          /\ ureq' = [ureq EXCEPT ![c].pc = "hash", ![c].actual = inode[link]]
          /\ UNCHANGED upast
       \/ End(c) /\ upast' = upast \cup {"refused"}
    /\ UNCHANGED <<st, bytes, files, store, ops, sweep, torn>>

\* Mutant: the store takes the digest it is told.
PutFromPathTrusting(c) ==
    /\ ureq[c].pc = "hash" /\ link # 0
    /\ ureq' = [ureq EXCEPT ![c].pc = "rename", ![c].hash = ureq[c].actual]
    /\ UNCHANGED <<st, bytes, files, store, ops, sweep, torn, upast>>

(* PutFromPath hashes the file again ...                                   *)
PutFromPath(c) ==
    /\ ureq[c].pc = "hash" /\ link # 0
    /\ ureq' = [ureq EXCEPT ![c].pc = "rename", ![c].hash = inode[link]]
    /\ UNCHANGED <<st, bytes, files, store, ops, sweep, torn, upast>>

(* ... and renames it, or drops it when the store has that name.           *)
Rename(c) ==
    LET r == ureq[c] IN
    /\ r.pc = "rename" /\ link # 0
    /\ cas' = IF \E e \in cas : e.d = r.hash THEN cas
              ELSE cas \cup {[d |-> r.hash, i |-> link]}
    /\ link' = 0
    /\ Step(c, "commit")
    /\ UNCHANGED <<st, bytes, inode, made, rows, ops, sweep, torn, upast>>

(* The file is gone, or cannot be moved: what is left of it is removed.    *)
PromoteFails(c) ==
    /\ ureq[c].pc \in {"hash", "rename"}
    /\ link' = 0
    /\ End(c) /\ upast' = upast \cup {"fault"}
    /\ UNCHANGED <<st, bytes, inode, made, store, ops, sweep, torn>>

(* A different digest than the one checked is an error; else the rows are  *)
(* written and the session goes.                                           *)
Commit(c) ==
    LET r == ureq[c] IN
    /\ r.pc = "commit"
    /\ \/ r.hash = r.actual /\ rows' = rows \cup {r.actual} /\ st' = "gone" /\ UNCHANGED upast
       \/ upast' = upast \cup {"fault"} /\ UNCHANGED <<rows, st>>
    /\ End(c)
    /\ UNCHANGED <<bytes, files, cas, ops, sweep, torn>>

(* The collector: rows past their hour, then their files.                  *)
PruneExpiredReturning ==
    /\ st = "open"
    /\ st' = "gone" /\ sweep' = "file"
    /\ UNCHANGED <<bytes, files, store, ureq, ops, torn, upast>>

RemoveTmp ==
    /\ sweep = "file"
    /\ sweep' = "no"
    /\ link' = 0
    /\ UNCHANGED <<st, bytes, inode, made, store, ureq, ops, torn, upast>>

UNext ==
    \/ blobUploadPost \/ PruneExpiredReturning \/ RemoveTmp
    \/ \E c \in Clients :
        \/ \E n \in 1 .. ChunkMax + 1 : blobUploadPatch(c, n)
        \/ \E n \in 0 .. ChunkMax + 1 : blobUploadPut(c, n)
        \/ openAppend(c) \/ appendChunk(c) \/ truncateFile(c) \/ AppendBytes(c)
        \/ sha256OfFile(c) \/ PutFromPath(c) \/ Rename(c) \/ PromoteFails(c) \/ Commit(c)

-----------------------------------------------------------------------------
(* What a download of a digest reads: the contents of the file of that     *)
(* name, if the repository has it.                                         *)
blobGet(d) == {inode[e.i] : e \in {x \in cas : x.d = d /\ d \in rows}}

(* The length a client is told to resume at.                               *)
blobUploadStatus == bytes

(* Every blob a PUT has acknowledged is in the store and its content is    *)
(* its digest, whatever requests of the session overlap and whenever it is *)
(* pruned, except one whose file is written to, or made anew, after        *)
(* PutFromPath has hashed it (cas.go:154 to 191).                          *)
BlobsIntact ==
    \A d \in rows : \E e \in cas : e.d = d /\ (blobGet(d) = {d} \/ e.i \in torn)

(* Between requests the length a client resumes at is the length of the    *)
(* file, also after chunks that overlapped or were too long, unless a step *)
(* failed, a PUT was refused, or a chunk that was too long cut off bytes   *)
(* another request had appended since (blobs.go:287).                      *)
BytesExact ==
    st = "open" /\ upast = {} /\ (\A c \in Clients : ureq[c] = NoReq) =>
        link # 0 /\ Len(inode[link]) = blobUploadStatus
=============================================================================
