------------------------------ MODULE Services ------------------------------
(***************************************************************************)
(* Components that share no state, side by side: part says which one a     *)
(* behaviour is of, and the variables of the others keep the value 0.      *)
(*   "s3"        the S3 gateway            "packages"  package protocols   *)
(*   "mirror"    mirror syncs and purges   "scans"     scans and the gate  *)
(*   "lists"     walks through lists       "publish"   published indexes   *)
(*   "uploads"   OCI upload sessions       "trivy"     scanner's database  *)
(*   "git"       Git references            "audit"     the audit file      *)
(*   "limiter"   the attempt limiter                                       *)
(* The constants are those of the components.                              *)
(***************************************************************************)
EXTENDS Integers, FiniteSets

CONSTANTS None, Clients,
          Buckets, Uploads, MaxContent,
          Versions, DistTags, MaxUploads,
          MItems, MaxVersion, Workers, Pct, MaxChanges, MaxSyncs,
          Upstreams,    \* what the upstream of a mirror may list at first
          ScanIds, MaxVer, MaxRank,
          Entries, PageLimit, Groupings, MaxWrites,
          Pages, Parts, MaxPublished,
          ChunkMax, SessionMax, MaxOps,
          MaxRotations,
          GitRefs, MaxCommits,
          MaxLines, MaxEvents,
          Peers, Burst, MaxPeers, MaxConcurrent, MaxTicks

ASSUME ClientsAssumption == None \notin Clients \cup {"pull"} /\ "pull" \notin Clients
ASSUME BoundsAssumption == MaxRotations \in Nat /\ MaxCommits \in Nat /\ MaxContent \in Nat
ASSUME UploadsAssumption == None \notin Uploads /\ None \notin Buckets
ASSUME SessionsAssumption == ChunkMax \in Nat /\ MaxOps \in Nat
ASSUME PackagesAssumption ==
    MaxUploads \in Nat /\ \E n \in Versions \cup {0} : Versions \subseteq 1 .. n
ASSUME MirrorAssumption ==
    /\ 1 \in MItems /\ IsFiniteSet(MItems) /\ MaxVersion \in Nat \ {0} /\ Pct \in Nat
    /\ MaxChanges \in Nat /\ MaxSyncs \in Nat
ASSUME ScansAssumption ==
    /\ ScanIds \subseteq Nat \ {0} /\ MaxVer \in Nat \ {0} /\ MaxRank \in Nat
ASSUME ListsAssumption ==
    /\ \E n \in Entries \cup {0} : n \in Nat /\ Entries = 1 .. n
    /\ Groupings \subseteq [Entries -> Nat] /\ PageLimit \in Nat \ {0} /\ MaxWrites \in Nat
ASSUME PublishAssumption ==
    /\ Pages \subseteq Nat \ {0} /\ Pages # {} /\ Parts # {} /\ 0 \notin Parts
    /\ MaxPublished \in Nat
ASSUME AuditAssumption == MaxLines \in Nat \ {0} /\ MaxEvents \in Nat
ASSUME LimiterAssumption ==
    /\ IsFiniteSet(Clients) /\ IsFiniteSet(Peers) /\ 0 \notin Peers
    /\ Burst \in Nat /\ MaxPeers \in Nat /\ MaxConcurrent \in Nat /\ MaxTicks \in Nat

VARIABLES part,
          bst, obj, bfile, up, block, breq, fresh, foreign, published,
          proto, row, file, side, index, tags, lock, req, sess, tmp, made, shadowed, torn,
          kind, ups, prow, pfile, job, want, fetch, keys, moves, cut, changes, syncs,
          skind, scannable, worst, ver, thr, scan, cache, reader, stored,
          list, grp, entries, walk, got, seen, steady, lost, writes,
          form, src, declared, state, kick, writer, loop, todo, snap, ptmp, pub, top, listed,
          born, missing, pwrites, past,
          st, bytes, inode, link, umade, cas, rows, ureq, ops, sweep, utorn, upast,
          baked, db, meta, boot, rot, rotateMu, pull, staged, had, dpast,
          mirror, disk, exists, table, repoLock, push, sync, upstream, commits, gpast,
          keep, arows, arec, wmu, names, content, f, currentSz, rotating, written, events, afault,
          ticks, buckets, slots, try, window

B == INSTANCE S3Store WITH file <- bfile, lock <- block, req <- breq
K == INSTANCE Packages
Y == INSTANCE MirrorSync
G == INSTANCE ScanGate WITH Readers <- Clients
L == INSTANCE Listings
P == INSTANCE Publication WITH tmp <- ptmp, writes <- pwrites, Writers <- Clients,
                               MaxWrites <- MaxPublished
U == INSTANCE UploadSessions WITH made <- umade, torn <- utorn
D == INSTANCE TrivyDb WITH up <- boot, Admins <- Clients
H == INSTANCE GitHost
W == INSTANCE AuditLog
Q == INSTANCE AttemptLimiter WITH table <- buckets

bvars == <<bst, obj, bfile, up, block, breq, fresh, foreign, published>>
kvars == <<proto, row, file, side, index, tags, lock, req, sess, tmp, made, shadowed, torn>>
yvars == <<kind, ups, prow, pfile, job, want, fetch, keys, moves, cut, changes, syncs>>
gvars == <<skind, scannable, worst, ver, thr, scan, cache, reader, stored>>
lvars == <<list, grp, entries, walk, got, seen, steady, lost, writes>>
pvars == <<form, src, declared, state, kick, writer, loop, todo, snap, ptmp, pub, top, listed,
           born, missing, pwrites, past>>
uvars == <<st, bytes, inode, link, umade, cas, rows, ureq, ops, sweep, utorn, upast>>
dvars == <<baked, db, meta, boot, rot, rotateMu, pull, staged, had, dpast>>
hvars == <<mirror, disk, exists, table, repoLock, push, sync, upstream, commits, gpast>>
wvars == <<keep, arows, arec, wmu, names, content, f, currentSz, rotating, written, events, afault>>
qvars == <<ticks, buckets, slots, try, window>>
vars == <<part, bvars, kvars, yvars, gvars, lvars, pvars, uvars, dvars, hvars, wvars,
          qvars>>

(* The variables of the parts that are off.                               *)
BOff ==
    /\ bst = 0 /\ obj = 0 /\ bfile = 0 /\ up = 0 /\ block = 0 /\ breq = 0 /\ fresh = 0
    /\ foreign = 0 /\ published = 0
KOff ==
    /\ proto = 0 /\ row = 0 /\ file = 0 /\ side = 0 /\ index = 0 /\ tags = 0 /\ lock = 0
    /\ req = 0 /\ sess = 0 /\ tmp = 0 /\ made = 0 /\ shadowed = 0 /\ torn = 0
YOff ==
    /\ kind = 0 /\ ups = 0 /\ prow = 0 /\ pfile = 0 /\ job = 0 /\ want = 0 /\ fetch = 0
    /\ keys = 0 /\ moves = 0 /\ cut = 0 /\ changes = 0 /\ syncs = 0
GOff ==
    /\ skind = 0 /\ scannable = 0 /\ worst = 0 /\ ver = 0 /\ thr = 0 /\ scan = 0 /\ cache = 0
    /\ reader = 0 /\ stored = 0
LOff ==
    /\ list = 0 /\ grp = 0 /\ entries = 0 /\ walk = 0 /\ got = 0 /\ seen = 0 /\ steady = 0
    /\ lost = 0 /\ writes = 0
POff ==
    /\ form = 0 /\ src = 0 /\ declared = 0 /\ state = 0 /\ kick = 0 /\ writer = 0 /\ loop = 0
    /\ todo = 0 /\ snap = 0 /\ ptmp = 0 /\ pub = 0 /\ top = 0 /\ listed = 0 /\ born = 0
    /\ missing = 0 /\ pwrites = 0 /\ past = 0
UOff ==
    /\ st = 0 /\ bytes = 0 /\ inode = 0 /\ link = 0 /\ umade = 0 /\ cas = 0 /\ rows = 0
    /\ ureq = 0 /\ ops = 0 /\ sweep = 0 /\ utorn = 0 /\ upast = 0
DOff ==
    /\ baked = 0 /\ db = 0 /\ meta = 0 /\ boot = 0 /\ rot = 0 /\ rotateMu = 0 /\ pull = 0
    /\ staged = 0 /\ had = 0 /\ dpast = 0
HOff ==
    /\ mirror = 0 /\ disk = 0 /\ exists = 0 /\ table = 0 /\ repoLock = 0 /\ push = 0 /\ sync = 0
    /\ upstream = 0 /\ commits = 0 /\ gpast = 0
WOff ==
    /\ keep = 0 /\ arows = 0 /\ arec = 0 /\ wmu = 0 /\ names = 0 /\ content = 0 /\ f = 0
    /\ currentSz = 0 /\ rotating = 0 /\ written = 0 /\ events = 0 /\ afault = 0
QOff ==
    /\ ticks = 0 /\ buckets = 0 /\ slots = 0 /\ try = 0 /\ window = 0

Init ==
    \/ part = "s3" /\ B!S3Init
       /\ KOff /\ YOff /\ GOff /\ LOff /\ POff /\ UOff /\ DOff /\ HOff /\ WOff /\ QOff
    \/ part = "packages" /\ K!Init
       /\ BOff /\ YOff /\ GOff /\ LOff /\ POff /\ UOff /\ DOff /\ HOff /\ WOff /\ QOff
    \/ part = "mirror" /\ Y!MInit /\ ups \in Upstreams
       /\ BOff /\ KOff /\ GOff /\ LOff /\ POff /\ UOff /\ DOff /\ HOff /\ WOff /\ QOff
    \/ part = "scans" /\ G!GInit
       /\ BOff /\ KOff /\ YOff /\ LOff /\ POff /\ UOff /\ DOff /\ HOff /\ WOff /\ QOff
    \/ part = "lists" /\ L!LInit
       /\ BOff /\ KOff /\ YOff /\ GOff /\ POff /\ UOff /\ DOff /\ HOff /\ WOff /\ QOff
    \/ part = "publish" /\ P!PInit
       /\ BOff /\ KOff /\ YOff /\ GOff /\ LOff /\ UOff /\ DOff /\ HOff /\ WOff /\ QOff
    \/ part = "uploads" /\ U!UInit
       /\ BOff /\ KOff /\ YOff /\ GOff /\ LOff /\ POff /\ DOff /\ HOff /\ WOff /\ QOff
    \/ part = "trivy" /\ D!DInit
       /\ BOff /\ KOff /\ YOff /\ GOff /\ LOff /\ POff /\ UOff /\ HOff /\ WOff /\ QOff
    \/ part = "git" /\ H!HInit
       /\ BOff /\ KOff /\ YOff /\ GOff /\ LOff /\ POff /\ UOff /\ DOff /\ WOff /\ QOff
    \/ part = "audit" /\ W!WInit
       /\ BOff /\ KOff /\ YOff /\ GOff /\ LOff /\ POff /\ UOff /\ DOff /\ HOff /\ QOff
    \/ part = "limiter" /\ Q!QInit
       /\ BOff /\ KOff /\ YOff /\ GOff /\ LOff /\ POff /\ UOff /\ DOff /\ HOff /\ WOff

Next ==
    \/ part = "s3" /\ B!S3Next
       /\ UNCHANGED <<part, kvars, yvars, gvars, lvars, pvars, uvars, dvars, hvars, wvars, qvars>>
    \/ part = "packages" /\ K!Next
       /\ UNCHANGED <<part, bvars, yvars, gvars, lvars, pvars, uvars, dvars, hvars, wvars, qvars>>
    \/ part = "mirror" /\ Y!MNext
       /\ UNCHANGED <<part, bvars, kvars, gvars, lvars, pvars, uvars, dvars, hvars, wvars, qvars>>
    \/ part = "scans" /\ G!GNext
       /\ UNCHANGED <<part, bvars, kvars, yvars, lvars, pvars, uvars, dvars, hvars, wvars, qvars>>
    \/ part = "lists" /\ L!LNext
       /\ UNCHANGED <<part, bvars, kvars, yvars, gvars, pvars, uvars, dvars, hvars, wvars, qvars>>
    \/ part = "publish" /\ P!PNext
       /\ UNCHANGED <<part, bvars, kvars, yvars, gvars, lvars, uvars, dvars, hvars, wvars, qvars>>
    \/ part = "uploads" /\ U!UNext
       /\ UNCHANGED <<part, bvars, kvars, yvars, gvars, lvars, pvars, dvars, hvars, wvars, qvars>>
    \/ part = "trivy" /\ D!DNext
       /\ UNCHANGED <<part, bvars, kvars, yvars, gvars, lvars, pvars, uvars, hvars, wvars, qvars>>
    \/ part = "git" /\ H!HNext
       /\ UNCHANGED <<part, bvars, kvars, yvars, gvars, lvars, pvars, uvars, dvars, wvars, qvars>>
    \/ part = "audit" /\ W!WNext
       /\ UNCHANGED <<part, bvars, kvars, yvars, gvars, lvars, pvars, uvars, dvars, hvars, qvars>>
    \/ part = "limiter" /\ Q!QNext
       /\ UNCHANGED <<part, bvars, kvars, yvars, gvars, lvars, pvars, uvars, dvars, hvars, wvars>>

Spec == Init /\ [][Next]_vars

-----------------------------------------------------------------------------
(* One property of each instance includes the types of its variables.      *)

(* An object's row and file agree whenever its bucket is unlocked, and a   *)
(* multipart upload is published at most once (s3/backend/backend.go:443,  *)
(* multipart.go:224, 250, 367).                                            *)
ObjectsIntact == part = "s3" => B!S3TypeOK /\ B!ObjectsIntact /\ B!PublishedOnce

(* What a download serves is what the package's row describes, and what a  *)
(* dist-tag names can be downloaded (storage/pathstore.go:160,             *)
(* npm/delete.go:81).                                                      *)
DownloadsServed == part = "packages" => K!RowFileAgree /\ K!DistTagsResolve

(* The search index follows uploads and deletes (metadata/fts.go).         *)
SearchMatchesRows == part = "packages" => K!TypeOK /\ K!SearchMatchesRows

(* A mirror's purge deletes drift only (driftpurge/engine.go:184, 232).    *)
PurgeOnlyDrift == [][part = "mirror" => Y!PurgeStep]_yvars

(* A successful sync leaves the mirror equal to the listing, and the rows  *)
(* have their files (rpm/sync_handler.go:257 and its siblings,             *)
(* driftpurge/deb_adapter.go:147).                                         *)
SyncedMatches == part = "mirror" => Y!MTypeOK /\ Y!SyncedMatches /\ Y!MirrorFilesKept

(* The gate decides by the stored content, and its cache by the last scan  *)
(* (metadata/scans.go:152, scan/severity_cache.go:8).                      *)
GateFollowsScans == part = "scans" => G!GTypeOK /\ G!QuietGateCorrect /\ G!CacheFollowsScans

(* A walk through a list misses and repeats nothing (s3/backend/list.go).  *)
WalkComplete == part = "lists" => L!LTypeOK /\ L!WalkComplete

(* A published Debian suite is served whole, and a quiet repository's      *)
(* index lists its packages (deb/regen.go:335, 60, pypi/regen.go:57,       *)
(* helm/regen.go:60).                                                      *)
IndexesPublished == part = "publish" => P!PTypeOK /\ P!SuitesWhole /\ P!QuietIsPublished

(* A stored blob has the content its digest says, and a session's byte     *)
(* count is its file's (storage/cas.go:140, oci/blobs.go:284).             *)
UploadsExact == part = "uploads" => U!UTypeOK /\ U!BlobsIntact /\ U!BytesExact

(* A rotation never costs the scanner its database, and the dashboard      *)
(* names the one installed (storage/atomic.go:114, admin_trivy.go:462).    *)
DatabaseKept == part = "trivy" => D!DTypeOK /\ D!DatabaseKept /\ D!StatusNamesInstalled

(* The branches listed are those a clone gets (git/middleware.go:273).     *)
RefsListed == part = "git" => H!HTypeOK /\ H!RefsListed

(* The audit file is the last lines written, without a gap (ndjson.go:100).*)
AuditTrailKept == part = "audit" => W!WTypeOK /\ W!AuditTrailKept

(* Buckets, slots and table of the limiter keep their limits               *)
(* (attempt_limiter.go:87).                                                *)
AttemptsBounded == part = "limiter" => Q!QTypeOK /\ Q!AttemptsBounded
=============================================================================
