------------------------------- MODULE BlobGc -------------------------------
(***************************************************************************)
(* The garbage collector against the writers of the content-addressed      *)
(* store: internal/jobs/gc.go, internal/storage/cas.go, blob_uploads and   *)
(* docker_blobs of internal/metadata, and the blob writers of              *)
(* internal/protocol/oci.                                                  *)
(*                                                                         *)
(* A blob is a file in the store and a row of docker_blobs; the two are    *)
(* written in separate steps.  Three things keep the collector off a blob  *)
(* that a writer is about to use: a marker in blob_uploads with an expiry, *)
(* the age of the row (last_touched_at against Quiescence), and a lock per *)
(* digest held over the collector's row delete and unlink, and over the    *)
(* stat-and-rename of a put.                                               *)
(*                                                                         *)
(* A transaction is one step (SQLite has one writer).  Time is a counter;  *)
(* its unit is a fraction of the hour that an upload's marker lasts.       *)
(* Reference counts are taken from module OciRefs as counters that pushes  *)
(* and deletes move; upload sessions and the trash sweep are left out.     *)
(***************************************************************************)
EXTENDS Integers

CONSTANTS Blobs, Repos,
          Clients,        \* requests: uploads and cross-repository mounts
          Pulls,          \* pull_external jobs
          Collectors,     \* gc jobs; the sync pool may run several at once
          None,
          Hour,           \* lifetime of an upload's or a mount's marker
          RequestLimit,   \* longest time between the expiry a request
                          \* computes and its last transaction
          JobLimit,       \* DefaultPullExternalTimeout
          Quiescence,     \* age at which an unreferenced row may go
          MaxNow, MaxRefs \* bounds for the model checker

ASSUME TimeAssumption ==
    /\ Hour \in Nat /\ RequestLimit \in Nat /\ JobLimit \in Nat
    /\ Quiescence \in Nat
    /\ 2 * RequestLimit <= Hour
    /\ JobLimit + RequestLimit <= Hour

ASSUME BoundAssumption == MaxNow \in Nat /\ MaxRefs \in Nat

ASSUME NoneAssumption == None \notin Blobs /\ None \notin Repos

VARIABLES
    now,        \* the clock
    files,      \* digests that have a file in the store
    rows,       \* docker_blobs
    ref,        \* docker_blobs.ref_count
    touched,    \* docker_blobs.last_touched_at
    links,      \* docker_repo_blobs
    marker,     \* blob_uploads.expires_at; 0 for no row
    client,     \* requests under way
    pull,       \* pull jobs under way
    gc          \* collections under way

tables == <<rows, ref, touched, links>>
vars == <<now, files, tables, marker, client, pull, gc>>

Idle == [pc |-> "idle", blob |-> None, repo |-> None, from |-> None, exp |-> 0]
NoPull == [pc |-> "idle", need |-> {}, got |-> {}, cur |-> None, dl |-> 0]
NoGc == [pc |-> "idle", skip |-> {}, todo |-> {}, cur |-> None]

ClientState ==
    [pc : {"idle", "timed", "marked", "promoted", "done"}, blob : Blobs \cup {None},
     repo : Repos \cup {None}, from : Repos \cup {None}, exp : Nat]

PullState ==
    [pc : {"idle", "run"}, need : SUBSET Blobs, got : SUBSET Blobs,
     cur : Blobs \cup {None}, dl : Nat]

GcState ==
    [pc : {"idle", "snapped", "sweep", "unlink"}, skip : SUBSET Blobs,
     todo : SUBSET Blobs, cur : Blobs \cup {None}]

TypeOK ==
    /\ now \in Nat \ {0}
    /\ files \subseteq Blobs
    /\ rows \subseteq Blobs
    /\ ref \in [Blobs -> Nat]
    /\ touched \in [Blobs -> Nat]
    /\ links \subseteq Repos \X Blobs
    /\ marker \in [Blobs -> Nat]
    /\ client \in [Clients -> ClientState]
    /\ pull \in [Pulls -> PullState]
    /\ gc \in [Collectors -> GcState]

Init ==
    /\ now = 1
    /\ files = {} /\ rows = {} /\ links = {}
    /\ ref = [b \in Blobs |-> 0]
    /\ touched = [b \in Blobs |-> 0]
    /\ marker = [b \in Blobs |-> 0]
    /\ client = [c \in Clients |-> Idle]
    /\ pull = [j \in Pulls |-> NoPull]
    /\ gc = [g \in Collectors |-> NoGc]

-----------------------------------------------------------------------------
(* Markers and the lifecycle lock.                                         *)

(* A collector holds the lock of the digest whose row it has deleted.      *)
Locked(b) == \E g \in Collectors : gc[g].pc = "unlink" /\ gc[g].cur = b

(* Start: the row is inserted, or its expiry replaced by the new one.      *)
Start(b, expires) == marker' = [marker EXCEPT ![b] = expires]

LiveMarker(b) == marker[b] # 0 /\ marker[b] >= now

(* The clause on a row that the candidate query and the DELETE share.      *)
Quiescent(b) == b \in rows /\ ref[b] = 0 /\ touched[b] < now - Quiescence

\* Mutant: the blob becomes visible at its content address without the lock.
PromoteUnlocked(b) == files' = files \cup {b}

(* The end of Put and PutFromPath: stat and rename under the digest's      *)
(* lock.  A file that is there already is kept.                            *)
Promote(b) == ~Locked(b) /\ files' = files \cup {b}

-----------------------------------------------------------------------------
(* Uploads and mounts.  client[c].exp is the expiry computed before the    *)
(* transaction of Start; the request is assumed to reach its last          *)
(* transaction within RequestLimit of that moment.                         *)

Deadline(c) == client[c].exp - Hour + RequestLimit
InFlight(c) == client[c].pc \in {"timed", "marked", "promoted"}

(* The body of a PUT or a monolithic POST is on disk and hashed; Start     *)
(* computes the expiry and asks for the writer.                            *)
UploadBegin(c, r, b) ==
    /\ client[c].pc = "idle"
    /\ client' = [client EXCEPT ![c] = [pc |-> "timed", blob |-> b, repo |-> r,
                                        from |-> None, exp |-> now + Hour]]
    /\ UNCHANGED <<now, files, tables, marker, pull, gc>>

(* A mount: the source repository owns the blob and the store has it.      *)
MountBegin(c, r, src, b) ==
    /\ client[c].pc = "idle"
    /\ <<src, b>> \in links
    /\ b \in files
    /\ client' = [client EXCEPT ![c] = [pc |-> "timed", blob |-> b, repo |-> r,
                                        from |-> src, exp |-> now + Hour]]
    /\ UNCHANGED <<now, files, tables, marker, pull, gc>>

(* The transaction of Start.                                               *)
StartMarker(c) ==
    /\ client[c].pc = "timed"
    /\ Start(client[c].blob, client[c].exp)
    /\ client' = [client EXCEPT ![c].pc = "marked"]
    /\ UNCHANGED <<now, files, tables, pull, gc>>

UploadPromote(c) ==
    /\ client[c].pc = "marked" /\ client[c].from = None
    /\ Promote(client[c].blob)
    /\ client' = [client EXCEPT ![c].pc = "promoted"]
    /\ UNCHANGED <<now, tables, marker, pull, gc>>

(* UpsertZeroRef, Link and Touch.                                          *)
UploadCommit(c) ==
    LET b == client[c].blob IN
    /\ client[c].pc = "promoted"
    /\ rows' = rows \cup {b}
    /\ ref' = [ref EXCEPT ![b] = IF b \in rows THEN @ ELSE 0]
    /\ links' = links \cup {<<client[c].repo, b>>}
    /\ touched' = [touched EXCEPT ![b] = now]
    /\ client' = [client EXCEPT ![c].pc = "done"]
    /\ UNCHANGED <<now, files, marker, pull, gc>>

(* Link and Touch, if the source repository still owns the blob.           *)
MountCommit(c) ==
    LET b == client[c].blob IN
    /\ client[c].pc = "marked" /\ client[c].from # None
    /\ <<client[c].from, b>> \in links
    /\ links' = links \cup {<<client[c].repo, b>>}
    /\ touched' = [touched EXCEPT ![b] = now]
    /\ client' = [client EXCEPT ![c].pc = "done"]
    /\ UNCHANGED <<now, files, rows, ref, marker, pull, gc>>

(* The request fails where it is, or the client is done with the blob.     *)
Leave(c) ==
    /\ client[c].pc # "idle"
    /\ client' = [client EXCEPT ![c] = Idle]
    /\ UNCHANGED <<now, files, tables, marker, pull, gc>>

-----------------------------------------------------------------------------
(* pull_external: each blob of the image is marked and stored in turn; the *)
(* manifest's transaction stats them all before it references them.  The   *)
(* job's context ends at dl, after which no transaction commits.           *)

PullBegin(j, S) ==
    /\ pull[j].pc = "idle"
    /\ pull' = [pull EXCEPT ![j] = [pc |-> "run", need |-> S, got |-> {},
                                    cur |-> None, dl |-> now + JobLimit]]
    /\ UNCHANGED <<now, files, tables, marker, client, gc>>

(* protectPullBlob: an hour beyond the job's deadline.                     *)
PullProtect(j, b) ==
    /\ pull[j].pc = "run" /\ pull[j].cur = None
    /\ b \in pull[j].need \ pull[j].got
    /\ now <= pull[j].dl
    /\ Start(b, pull[j].dl + Hour)
    /\ pull' = [pull EXCEPT ![j].cur = b]
    /\ UNCHANGED <<now, files, tables, client, gc>>

PullPut(j) ==
    /\ pull[j].pc = "run" /\ pull[j].cur # None
    /\ Promote(pull[j].cur)
    /\ pull' = [pull EXCEPT ![j].got = @ \cup {pull[j].cur}, ![j].cur = None]
    /\ UNCHANGED <<now, tables, marker, client, gc>>

(* commitManifest of an image: stat, UpsertZeroRef, then IncRef, Touch and *)
(* Link for every blob.                                                    *)
PullCommit(j, r) ==
    LET S == pull[j].need IN
    /\ pull[j].pc = "run"
    /\ pull[j].got = S
    /\ now <= pull[j].dl
    /\ S \subseteq files
    /\ \A b \in S : ref[b] < MaxRefs
    /\ rows' = rows \cup S
    /\ ref' = [b \in Blobs |-> IF b \notin S THEN ref[b]
                               ELSE IF b \in rows THEN ref[b] + 1 ELSE 1]
    /\ touched' = [b \in Blobs |-> IF b \in S THEN now ELSE touched[b]]
    /\ links' = links \cup ({r} \X S)
    /\ pull' = [pull EXCEPT ![j] = NoPull]
    /\ UNCHANGED <<now, files, marker, client, gc>>

PullFail(j) ==
    /\ pull[j].pc = "run"
    /\ pull' = [pull EXCEPT ![j] = NoPull]
    /\ UNCHANGED <<now, files, tables, marker, client, gc>>

-----------------------------------------------------------------------------
(* Transactions of finished uploads: counts and links.                     *)

(* A pushed manifest references a blob its repository owns.                *)
ManifestPut(r, b) ==
    /\ <<r, b>> \in links
    /\ ref[b] < MaxRefs
    /\ ref' = [ref EXCEPT ![b] = @ + 1]
    /\ touched' = [touched EXCEPT ![b] = now]
    /\ UNCHANGED <<now, files, rows, links, marker, client, pull, gc>>

(* DecRef, of a manifest delete or of a wipe.                              *)
ManifestDelete(b) ==
    /\ b \in rows /\ ref[b] > 0
    /\ ref' = [ref EXCEPT ![b] = @ - 1]
    /\ touched' = [touched EXCEPT ![b] = now]
    /\ UNCHANGED <<now, files, rows, links, marker, client, pull, gc>>

(* The link of a blob that no manifest references.                         *)
BlobDelete(r, b) ==
    /\ <<r, b>> \in links
    /\ ref[b] = 0
    /\ links' = links \ {<<r, b>>}
    /\ UNCHANGED <<now, files, rows, ref, touched, marker, client, pull, gc>>

-----------------------------------------------------------------------------
(* One collection.                                                         *)

GcSnapshot(g) ==
    /\ gc[g].pc = "idle"
    /\ gc' = [gc EXCEPT ![g].pc = "snapped", ![g].skip = {b \in Blobs : LiveMarker(b)}]
    /\ UNCHANGED <<now, files, tables, marker, client, pull>>

GcCandidates(g) ==
    /\ gc[g].pc = "snapped"
    /\ gc' = [gc EXCEPT ![g].pc = "sweep", ![g].skip = {},
                        ![g].todo = {b \in Blobs : Quiescent(b)} \ gc[g].skip]
    /\ UNCHANGED <<now, files, tables, marker, client, pull>>

\* Mutant: the DELETE does not look at the markers.
MayDeleteUnmarked(b) == Quiescent(b)

(* The condition of the DELETE, which decides again.                       *)
MayDelete(b) == Quiescent(b) /\ ~LiveMarker(b)

(* Under the digest's lock, the DELETE: the links go by the foreign key.   *)
(* When nothing was deleted the lock is released at once.                  *)
GcDeleteRow(g, b) ==
    /\ gc[g].pc = "sweep" /\ b \in gc[g].todo
    /\ ~Locked(b)
    /\ IF MayDelete(b)
       THEN /\ rows' = rows \ {b}
            /\ links' = {l \in links : l[2] # b}
            /\ gc' = [gc EXCEPT ![g].pc = "unlink", ![g].todo = @ \ {b}, ![g].cur = b]
       ELSE /\ gc' = [gc EXCEPT ![g].todo = @ \ {b}]
            /\ UNCHANGED <<rows, links>>
    /\ UNCHANGED <<now, files, ref, touched, marker, client, pull>>

(* CAS.Delete; an error is logged and the file stays.                      *)
GcUnlink(g) ==
    /\ gc[g].pc = "unlink"
    /\ files' \in {files, files \ {gc[g].cur}}
    /\ gc' = [gc EXCEPT ![g].pc = "sweep", ![g].cur = None]
    /\ UNCHANGED <<now, tables, marker, client, pull>>

(* PruneExpired, after the last candidate.                                 *)
GcPrune(g) ==
    /\ gc[g].pc = "sweep" /\ gc[g].todo = {}
    /\ marker' = [b \in Blobs |-> IF marker[b] < now THEN 0 ELSE marker[b]]
    /\ gc' = [gc EXCEPT ![g] = NoGc]
    /\ UNCHANGED <<now, files, tables, client, pull>>

(* The job is cancelled between candidates.                                *)
GcCancel(g) ==
    /\ gc[g].pc \in {"snapped", "sweep"}
    /\ gc' = [gc EXCEPT ![g] = NoGc]
    /\ UNCHANGED <<now, files, tables, marker, client, pull>>

-----------------------------------------------------------------------------
(* Time passes; a request under way does not outlive RequestLimit.         *)
Tick ==
    /\ now < MaxNow
    /\ \A c \in Clients : InFlight(c) => now < Deadline(c)
    /\ now' = now + 1
    /\ UNCHANGED <<files, tables, marker, client, pull, gc>>

(* The process dies: locks and requests are gone, the database and the     *)
(* store stay as they are.                                                 *)
Crash ==
    /\ client' = [c \in Clients |-> Idle]
    /\ pull' = [j \in Pulls |-> NoPull]
    /\ gc' = [g \in Collectors |-> NoGc]
    /\ UNCHANGED <<now, files, tables, marker>>

ClientStep(c) ==
    \/ \E r \in Repos, b \in Blobs : UploadBegin(c, r, b)
    \/ \E r, src \in Repos, b \in Blobs : MountBegin(c, r, src, b)
    \/ StartMarker(c) \/ UploadPromote(c) \/ UploadCommit(c) \/ MountCommit(c)
    \/ Leave(c)

PullStep(j) ==
    \/ \E S \in SUBSET Blobs : PullBegin(j, S)
    \/ \E b \in Blobs : PullProtect(j, b)
    \/ \E r \in Repos : PullCommit(j, r)
    \/ PullPut(j) \/ PullFail(j)

GcStep(g) ==
    \/ \E b \in Blobs : GcDeleteRow(g, b)
    \/ GcSnapshot(g) \/ GcCandidates(g) \/ GcUnlink(g) \/ GcPrune(g) \/ GcCancel(g)

TableStep ==
    \/ \E r \in Repos, b \in Blobs : ManifestPut(r, b) \/ BlobDelete(r, b)
    \/ \E b \in Blobs : ManifestDelete(b)

Next ==
    \/ \E c \in Clients : ClientStep(c)
    \/ \E j \in Pulls : PullStep(j)
    \/ \E g \in Collectors : GcStep(g)
    \/ TableStep \/ Tick \/ Crash

Spec == Init /\ [][Next]_vars

-----------------------------------------------------------------------------
(* Every blob row has its file: what docker_blobs says can be served, in   *)
(* particular every blob that a manifest counts, whatever the collector,   *)
(* uploads, mounts, pulls and crashes do in between.                       *)
RowsHaveFiles == rows \subseteq files

(* A client whose upload or mount was answered 201 has, for the marker's   *)
(* lifetime less the time a request takes, the row and the file it needs   *)
(* for its manifest: the collector does not take a fresh blob even when a  *)
(* second request for the same digest replaces the marker.                 *)
PushWindow ==
    \A c \in Clients :
        client[c].pc = "done" /\ now <= client[c].exp - RequestLimit
            => client[c].blob \in rows \cap files

-----------------------------------------------------------------------------
(* Why they hold: the parts of the inductive invariant.                    *)

(* The foreign key of docker_repo_blobs.                                   *)
LinksHaveRows == \A l \in links : l[2] \in rows

(* A request past its first step has a blob, an expiry no later than an    *)
(* hour from now, and time left; a mount has both of its repositories.     *)
ClientsSound ==
    \A c \in Clients : client[c].pc # "idle" =>
        /\ client[c].blob \in Blobs
        /\ client[c].repo \in Repos
        /\ client[c].exp <= now + Hour
        /\ InFlight(c) => now <= Deadline(c)

(* Whatever other requests and pulls wrote since, the marker of a blob     *)
(* that a request has marked outlives the request.                         *)
Covered(c) == marker[client[c].blob] >= client[c].exp - RequestLimit

ClientsCovered ==
    \A c \in Clients :
        client[c].pc \in {"marked", "promoted", "done"}
            /\ now <= client[c].exp - RequestLimit => Covered(c)

(* An upload past its rename has its file.                                 *)
PromotedHaveFiles ==
    \A c \in Clients : client[c].pc = "promoted" => client[c].blob \in files

PullHolds(j) == IF pull[j].cur = None THEN pull[j].got ELSE pull[j].got \cup {pull[j].cur}

(* The markers of the blobs a pull holds last until its deadline.          *)
PullsCovered ==
    \A j \in Pulls : pull[j].pc = "run" =>
        /\ pull[j].dl <= now + JobLimit
        /\ \A b \in PullHolds(j) : now <= pull[j].dl => marker[b] >= pull[j].dl

(* What a collector is about to unlink has no row, and nobody who could    *)
(* still give it one counts on the file.                                   *)
DoomedUnused ==
    \A g \in Collectors : gc[g].pc = "unlink" =>
        /\ gc[g].cur \in Blobs
        /\ gc[g].cur \notin rows
        /\ \A c \in Clients : client[c].pc = "promoted" => client[c].blob # gc[g].cur
        /\ \A j \in Pulls : pull[j].pc = "run" /\ gc[g].cur \in pull[j].got
                             => now > pull[j].dl

IInv ==
    /\ TypeOK /\ RowsHaveFiles /\ PushWindow
    /\ LinksHaveRows /\ ClientsSound /\ ClientsCovered /\ PromotedHaveFiles
    /\ PullsCovered /\ DoomedUnused
=============================================================================
