# OmniRepo in TLA+

OmniRepo is one Go process that serves package repositories of many protocols
(OCI, RPM, Debian, Helm, PyPI, npm, Maven, Go modules, S3, Git, raw files) from
one SQLite database and one data directory. This directory holds TLA+ models of
the parts of it where order matters, the TLC runs that check them, and TLAPS
proofs about them. `PROJECT.json` maps every definition that models code to the
lines it models, and lists the runs, the hazards, the theorems and, for each
checked property, a mutation of the model that breaks it.

Contents

1. The system
2. Plan
3. Modules
4. Runs
5. Proofs
6. Disagreements between code and documentation
7. Observations without a run
8. What is not modelled

Parse a module with `tlasany M.tla`, check a run with
`tlc -workers 2 -config X.cfg MCX`, check proofs with `tlapm X_proofs.tla`.

## 1. The system

### 1.1 What everything shares

*Database.* `internal/metadata` opens SQLite with one writer connection
(`db.go`, `tx.go`) and a pool of readers. Two write transactions never overlap,
so the models make each `db.WriteTx`, or each single write statement, one step.
A value read through the reader pool is stale from then on: a handler that reads
and then writes is at least two steps, with what it read kept in the model's
state of the request.

*Disk.* Files live beside the database and no transaction spans both. Every
component has its own order of "row, then file" or "file, then row", and that
order decides what a failure or a crash leaves.

*Process.* Requests are goroutines. Long work is queued as rows of `sync_jobs`
and `scans` and run by two pools. There is one process: after a crash the
database, the disk and nothing else survive. Locks (`keyLock` of the path store,
the digest lock of the content store, the S3 bucket lock) and coalescers are in
memory only.

### 1.2 Components

| component | state | operations | hard because | correct when | module |
|---|---|---|---|---|---|
| Job runner `internal/jobs` | rows of `sync_jobs`, `scans`; a channel of leased rows; workers | enqueue, lease, send, handle, retry with back-off, terminate, shutdown, boot sweep | rows are written by id, not by lease; shutdown, kill and restart between any two writes; handlers of scans write their own row | it implements a queue that hands work out once and charges retries; nothing is stranded | `JobPool`, `JobQueue` |
| OCI registry `protocol/oci`, `metadata/docker_*.go` | `docker_manifests`, `docker_tags`, `docker_blobs`, `docker_repo_blobs` and their `ref_count` columns | push, pull, mount, promote, two forms of delete, wipe, blob delete, collect | counts are maintained by increments in six transactions; three handlers decide on rows read before their transaction | counts equal the references, an index has its children, a tag resolves, an image has its blobs | `OciRefs` |
| OCI upload sessions `oci/blobs.go` | session row, temporary file | POST, PATCH, PUT, cancel, expiry | no lock covers a session; a file is renamed while another request has it open | a stored blob is its digest's bytes | `UploadSessions` |
| Content store and collector `storage/cas*.go`, `jobs/gc.go` | blob files, `docker_blobs`, markers of `blob_uploads`, one lock per digest | put, mark, touch, mount, collect | file and row are separate; the collector works from a snapshot; markers expire | a row has its file; an answered upload can still be referenced | `BlobGc` |
| Metadata regeneration `protocol/regen`, `rpm/regen.go` | packages in the database, published index, `metadata_state`; kick channel, two timers | write and kick, debounce, regenerate, shut down | lost wake-ups, starvation by a steady stream of writes, failure half way through publishing | quiet means published, an index names files that exist | `RegenCoalescer` |
| Publication of indexes `deb`, `pypi`, `helm` `regen.go`, `storage/atomic.go` | suite directories, pages, `index.yaml` | snapshot, write, swap, clean up | pages are read and written one after another; a swap is two renames | a suite is whole; quiet means published | `Publication` |
| Path store and trash `storage/pathstore.go`, `trash.go`, `protocol/raw`, `api/admin_trash.go` | file, row, lock map, trash holders with sidecars | Replace, delete, restore, purge, sweep | the lock is a map entry deleted with its last user; deletes and restores do not take it; roll-back after publication | row describes file, nothing committed is lost | `PathStore` |
| Package protocols `rpm`, `deb`, `helm`, `pypi`, `npm`, `maven`, `goproxy` | row, file, second file, dist-tags, search entry; staged PyPI sessions | upload, delete, tag, stage and commit | each protocol has its own lock and its own order of file and row | a download serves what the row describes | `Packages` |
| Mirror syncs and drift purge `*/sync_handler.go`, `driftpurge` | rows and files of a mirror, the upstream's listing | list, fetch in parallel, purge, move | cancellation, failure and crash between row and file; a listing that is out of date when the purge runs | a purge takes drift only; a successful sync matches the listing | `MirrorSync` |
| Scan gate `scan`, `*/severity_gate.go` | scans, a decision cache | request, scan, commit, invalidate, decide | a decision computed before a scan is stored after it | the gate follows the last scan | `ScanGate` |
| Vulnerability database `api/admin_trivy.go`, `app/app.go` | installed directory, `trivy_db_meta` | seed, upload, pull, swap | a swap that fails half way; rows written outside the mutex | the scanner keeps a database | `TrivyDb` |
| S3 gateway `protocol/s3/backend` | buckets, objects, uploads, parts, bucket lock | put, copy, delete, multipart, sweep | ids are read before the lock; files are named by the bucket's name, rows by its id | row and file agree; an upload is published once | `S3Store` |
| Git hosting `protocol/git` | bare repository, `git_refs` | push, clone, fetch, rewrite the table | references and table are two stores | branches listed are those served | `GitHost` |
| Projects and repositories `metadata/projects.go`, `repos.go`, `fts.go` | rows with `deleted_at`, unique names, credentials, search index | create, delete, restore, purge | a request holds an id across deletion and reuse of the name | restore is the inverse of deletion; the index is complete | `Projects` |
| Members and policy `auth/policy.go`, `metadata/members.go` | `project_members` | add, change, remove; decide; list | authorised for one project, executed on another of the same name | a maintainer remains; lists follow the policy | `Membership` |
| Accounts `metadata/users.go`, `sessions.go`, `apikeys.go`, `api/setup.go` | users, sessions, keys | set up, sign in, slide, reset, delete, revoke | checks outside the transaction, writes that land late | a super-admin remains; sessions end | `Accounts` |
| Listings `api`, `s3/backend/list.go`, `oci` | cursors in the hands of clients | page | entries come and go between pages | what stays is listed once | `Listings` |
| Attempt limiter `auth/attempt_limiter.go` | table of buckets, slots | acquire, release | table at its limit, permits released twice | limits hold | `AttemptLimiter` |
| Audit log `internal/audit` | rows, NDJSON files | record, rotate | each step of a rotation can fail | no gap in what is kept | `AuditLog` |

The remaining parts (HTTP routing, plain reads, configuration, cryptography, the
browser client) keep no state of their own that two requests could disagree
about; `PROJECT.json` lists them with the reason.

### 1.3 How they interact

- Protocol handlers insert `sync_jobs` rows (`httpx/sync_rest.go`) or `scans`
  rows and kick the pool; the pool runs the handler registered for the kind.
- The collector is itself a job: two of them can run at once, next to pulls.
- OCI handlers, pulls and the collector share `docker_blobs`, the blob files and
  the markers. `OciRefs` models the counts, `BlobGc` the files under them; each
  takes the other's part as a nondeterministic action.
- RPM, Debian, Helm and PyPI writers commit, then call `Kick` of their
  repository's coalescer; `ShutdownAll` stops all of them at process end.
- Deletes of path-addressed protocols put files into the trash; the
  administrator's handlers and the sweep of the collector take them out.
- `RecoverStuckJobs` runs once per boot, before the pools start.
- A project's deletion takes its repositories, keys and buckets with it
  (`Projects`); buckets keep their files, so `S3Store` has two buckets of one name.
- A sync is a job of the pool (`JobPool`: one at a time per repository), writes
  the rows and files the package protocols serve (`MirrorSync`) and ends by
  kicking the regeneration (`RegenCoalescer`, `Publication`).
- The scan pool runs the handler of `ScanGate`; the scanner it calls uses the
  database of `TrivyDb`.

## 2. Plan

Done: the components of the table above, in three stages. First the job runner, the
registry's counts, the collector, the coalescer and the path store, each with
proofs. Then the abstract queue `JobQueue` and the proof that the pool implements
it; accounts, projects, members; the S3 store, the package protocols, mirrors,
scans, listings, publication, upload sessions, the scanner's database, Git
references, the audit file and the attempt limiter. Then the proofs of the second
stage: every invariant and action property a run checks is a theorem.

Left, in this order:

1. Liveness of mirrors and scans composed with `JobPool`: a requested sync ends
   with the listing mirrored, or with a terminal row.
2. `OciRefs` over `BlobGc` as one module, with the collector of both.

## 3. Modules

Each component has a module `X` with its state, actions and properties. The modules
of 3.1 to 3.5 have a module `MCX` each with what TLC needs (symmetry, values of
function constants) and their proofs in `X_proofs`; the others are instantiated by
the compositions of 3.15, and so are their proofs. A definition called
*Mutant* in its comment is not part of a specification: it is a changed form of
the definition below it, used to see that a property notices the change.

### 3.1 JobPool (`internal/jobs`, `metadata/sync_jobs.go`, `metadata/scans.go`, `httpx/sync_rest.go`, `scan/handler.go`)

One pool with the table it serves. `status`, `attempts`, `log` and `summary` are
columns. Time appears only where SQL compares it: `due` stands for
`next_run_at <= now`, `stale` for `leased_at` older than `StuckJobThreshold`.

| action | code |
|---|---|
| `Enqueue` | the insert of a producer; `POST .../sync` checks `GetInflightTx` in the same transaction |
| `DispatchWake`, `LeaseOne`, `DrainDone`, `LeaseErr`, `Send`, `SendCancelled`, `DispatchStop` | the dispatcher goroutine, one step per database call or channel operation |
| `Recv`, `HandlerOk`, `HandlerPartial`, `HandlerOverLimit`, `HandlerError` | a worker; the outcome write is part of the action, its failure a second outcome |
| `ScanCommit`, `ScanPermFail` | a scan handler writes its row before it returns |
| `Shutdown`, `ShutdownDone`, `Kill`, `Boot` | context cancelled, goroutines gone, process death, and `RecoverStuckJobs` with its three sweeps |
| `BackoffElapses`, `LeaseAges` | time |

A `JobView` carries the attempts column as it was when the row was leased,
because the code decides on that copy while the SQL increments the stored value.
`leaseBoot`, `runs` and `boot` are history variables.

`JobQueue` is what the runner promises: a row waits, is held by exactly one
party, and ends or is retried with the retry charged; a row whose holder is gone
is *stranded*, and only stranded rows are swept. `QueueState` maps the pool to it:
a row that is not running is its own status, a running row is held if the
dispatcher, the channel or a worker has it, stranded otherwise (a kill, a
cancelled send, an outcome write that failed). `attempts` are the retries charged.

### 3.2 OciRefs (`internal/protocol/oci`, `metadata/docker_blobs.go`, `docker_manifests.go`, `docker_tags.go`, `repos.go`)

`db` is a record of the four tables; statements are functions from databases to
databases, so that a transaction is their composition, and it either happens or,
when a statement fails, does not. `req[c]` is what a handler read before its
transaction: `TagDeleteResolve` (which manifest does the tag name),
`TagDeleteRead` (the manifest row with its count), `TagDeleteCommit`; likewise
`PromoteRead` and `PromoteCommit`. The recursive reaping of an orphaned manifest
is described by its result: `IsReapSet` says which set of manifests goes.

`Overlap` selects whether another write may commit between a tag delete's reads
and its transaction. With `Overlap = FALSE` the transaction runs only if what
was read still holds; `TRUE` is the code as it is, see section 6.

### 3.3 BlobGc (`jobs/gc.go`, `storage/cas.go`, `cas_lifecycle.go`, `metadata/blob_uploads.go`, `oci/blobs.go`, `mount.go`, `pull_external.go`)

Per digest: file, row, count, `last_touched_at`, links and marker. A request
computes its expiry, writes the marker, promotes the file, commits; a pull marks
and puts several layers and commits at the end; a collection snapshots markers,
lists candidates, and for each takes the digest lock, deletes the row and then
unlinks. `Crash` ends everything that is in memory, the lock included. Pushes and
deletes of manifests are `ManifestPut` and `ManifestDelete`, which move the count.

`RequestLimit` and `JobLimit` bound how long a request takes from computing its
expiry to its last transaction and how long a pull runs. The second is
`DefaultPullExternalTimeout` (30 minutes; a marker lasts an hour). The first is an
assumption: after it has computed its expiry a request only writes the marker,
renames a file it already has and commits, but nothing in the code limits how long
it may wait for the writer connection or the digest lock.

### 3.4 RegenCoalescer (`protocol/regen/coalescer.go`, `registry.go`, `rpm/regen.go`)

The packages are a version number `ver`; data files, index and signature are the
version they were made from. `kicks` is the buffer of one of the kick channel,
`deb` and `max` are the two timers. The goroutine's states are the two of the
loop (`idle`, `pending`) and the stages of a regeneration. Every stage can fail
(`Fail`), the process can stop (`Shutdown`, `Exit`) and start again (`Restart`).
`past` records which of fault, stop and restart have happened, so that one run
checks the model with all of them while a property can speak of histories
without one.

### 3.5 PathStore (`storage/pathstore.go`, `trash.go`, `raw/put.go`, `raw/delete.go`, `api/admin_trash.go`)

One key. `Replace` is split at every file operation: staging, taking the entry
of the lock map, locking, backup, publication, commit, roll-back, dropping the
backup, unlocking, dropping the entry. A delete stats, removes the row in its
transaction, writes a sidecar (`MoveBegin`), renames (`MoveRename`) or undoes
(`MoveFails`). A restore checks (`RestoreCheck`) and renames (`RestoreRename`).
`Crash` turns the backup of an interrupted upload into a stray file and leaves
row, file and trash as they are.

### 3.6 Accounts (`metadata/users.go`, `sessions.go`, `apikeys.go`, `api/setup.go`, `api/admin_phase1.go`, `api/admin_users_full.go`, `auth/middleware`, `oci/token*.go`)

A request authenticates, reads, and then runs its transaction; `req[c]` is what it
has read. `SlideExpiry` is the late write of a request that computed the new expiry
of its session before: the session may be gone or reset by then. A registry token
names its actor, which is looked up again at each use. `ended` (sessions an
administrator's reset ended) and `setups` are history variables.

### 3.7 Projects (`metadata/projects.go`, `repos.go`, `s3keys.go`, `fts.go`, and the handlers of `internal/api` for projects, repositories, keys, buckets and credentials)

Projects and the rows they own, of four kinds. Deletion stamps a project and its
live rows with one timestamp of a second; a restore brings back the rows with the
stamp of the project. `row[x].own` records whether a row was deleted by itself. The
search index counts the index rows of one artifact per repository, so that a
missing entry and a repeated one can be told apart.

### 3.8 Membership (`auth/policy.go`, `auth/membership.go`, `metadata/members.go`, `api/visibility.go`, `api/search.go`, `oci/catalog.go`)

`Can` is the policy, rule by rule in the code's order, over every kind of actor.
The member handlers check the route's project first and resolve its name again
later. The lists an actor gets are sets, compared with the policy in every state.

### 3.9 S3Store (`protocol/s3/backend`, `protocol/s3/middleware.go`, `intercept.go`, `metadata/s3objects.go`, `s3multipart.go`, `buckets_cascade.go`)

One bucket *name*, which several bucket *ids* bear in turn, and one key. The file
belongs to the name, the object row to the id. A request has resolved an id when
it takes the lock of the name. `foreign` collects the ids whose file was last
touched through another id; `published` counts the publications of an upload.

### 3.10 Packages (`rpm`, `deb`, `helm`, `pypi`, `npm`, `maven`, `goproxy`: uploads, deletes, downloads)

One repository whose protocol is chosen initially, two versions of one package. An
upload places its file under its lock and commits the row (`Place`, `Commit`,
`Rollback`); a delete runs its transaction and moves files afterwards. npm takes
one lock per repository for both, PyPI refuses a second upload of a file name, and
its staged sessions publish file by file. Downloads and packuments are operators
over the state.

### 3.11 MirrorSync (`*/sync_handler.go`, `driftpurge`)

One job after another, each with a scope, with or without upstream digests, purge
and force. Listing, fetching and purging are per protocol; the fetch of an item is
download, placement, commit or roll-back. A crash or a cancelled context may fall
between any two steps. `job.known` is what the upstream listed in scope, so that the
purge is compared with the upstream and not with the listing it was given.

### 3.12 ScanGate (`internal/scan`, `metadata/scans.go`, `api/scans.go`, `*/severity_gate.go`)

Scans of one artifact from request to invalidation, against downloads that look in
the cache, read the last scan and store their decision. `stored` records whether the
entry's reader was overtaken and which threshold it used.

### 3.13 Publication (`deb/regen.go`, `pypi/regen.go`, `helm/regen.go`, `storage/atomic.go`)

The regenerations that RegenCoalescer leaves abstract: which rows are read when,
which files are written in which order, and the two renames of a suite.

### 3.14 The smaller modules

- `UploadSessions` (`oci/blobs.go`, `storage/cas.go`): inodes and names, because a
  request that has the session's file open goes on writing after the rename.
- `TrivyDb` (`api/admin_trivy.go`, `app/app.go`, `storage/atomic.go`): seeding at
  boot, uploads and the pull, both through `SwapDir` under one mutex, and the rows
  that are written outside it.
- `GitHost` (`protocol/git`): the chain of middlewares of a push, in order, and the
  sync of a mirror; both rewrite `git_refs` from a walk.
- `AuditLog` (`internal/audit`): rows, lines and the rotation rename by rename.
- `AttemptLimiter` (`auth/attempt_limiter.go`, `auth/middleware`): half-interval
  ticks; `window` watches one peer from an arbitrary moment.
- `Listings`: the cursor rule of each endpoint over numbered entries.

### 3.15 Composition

`Tenancy` (accounts, projects, members) and `Services` (the eleven modules of 3.9 to
3.14) put several modules side by side; `MCTenancy` and `MCServices` only give their
constants values. The modules of one composition share no state, so a behaviour is
of one of them: `part` says which, and the variables of the others do not change.
This is one state graph with disjoint pieces, not a product. The proofs are about the
same compositions: `Tenancy_proofs`, `Services_proofs` and, for the modules about
repository contents (packages, mirrors, listings, publication),
`Repositories_proofs`. Components that do interact are composed inside a module:
the coalescer with its regeneration and writers, the registry with the collector,
mirrors with the drift purge, scans with the gate.

## 4. Runs

Distinct states are after symmetry where it is used. Symmetry is used only in
runs whose properties are invariants and action properties.

| run | checks | instance | states |
|---|---|---|---|
| `job_pool_sync` | `LeaseExclusive`, `HelmRunsOncePerAttempt`, `OneInflightSyncPerRepo`, `ImplementsQueue` | a helm and a mirror sync of one repository, a pull; 2 workers, 2 attempts, 2 boots, 1 database error | 995,872 |
| `job_pool_scan` | `ScanDoneHasSummary`, `NoRowLeftFromEarlierBoot`, `EventuallyTerminal` | 2 scans, 1 worker, 2 boots, slow restarts | 17,329 |
| `oci_refs` | `IndexComplete`, `RefCountsExact`, `TagsResolve`, `ImagesServable` | 2 images sharing a blob, an index in an index, 2 clients; 2 tags or 2 repositories | 158,746 |
| `oci_refs_double_delete` | violates `RefCountsExact` | the same with overlapping tag deletes | |
| `blob_gc` | `RowsHaveFiles`, `PushWindow` | 1 blob, 2 repositories, 1 request, 1 pull, 2 collections, 6 ticks | 3,017,559 |
| `regen` | `QuietIsFresh`, `IndexHasData`, `EveryWritePublished` | 2 writers, debounce 2, maximum wait 3, 3 versions | 70,744 |
| `path_store` | `UploadsAgree`, `NothingCommittedIsLost`, `UploadsEnd` | 2 uploads, 1 delete, 2 contents, 1 holder, 2 lock entries, crashes | 758,287 |
| `path_delete_race` | violates `RowsKeepTheirFile` | 1 upload, 1 delete | |
| `tenancy` | `RepositoriesConsistent`, `RestoreExact`, `LastMaintainerKept`, `RoleChangeIsAuthorised`, `ListingsMatchPolicy`, `SuperAdminRemains`, `SetupOnce`, `SessionsBounded` | section 4.1 | 1,628,292 |
| `services` | `ObjectsIntact`, `DownloadsServed`, `SearchMatchesRows`, `PurgeOnlyDrift`, `SyncedMatches`, `GateFollowsScans`, `WalkComplete`, `IndexesPublished`, `UploadsExact`, `DatabaseKept`, `RefsListed`, `AuditTrailKept`, `AttemptsBounded` | section 4.1 | 2,957,424 |
| `gate_stale_allow` | violates `NoStaleAllow` | 2 scans, 2 downloads | |
| `git_commit_pages` | violates `CommitWalkComplete` | 5 commits in pages of 2 | |

### 4.1 Why the bounds are enough to be interesting

- *Jobs.* Two jobs of one repository are needed for the in-flight check, a third
  of another kind so that both workers and the channel can be full while one is
  being sent. Two attempts give one retry and one exhausted budget; two boots
  give rows that outlive a process, with every prefix of every handler cut off.
  One database error can hit any single write. The scan run has one worker and
  so a channel of one slot: it is the smallest pool in which the dispatcher can
  block on a send.
- *OCI.* Two tags on one repository give moves and shared manifests; the nested
  index makes reaping recursive; two repositories with common blobs make counts
  larger than one and wipes give back more than one reference. The constraint
  `OneRepoOrOneTag` cuts off states that use two tags and two repositories at
  once, so that the run is the union of two instances. Two clients give
  every pair of a stale read and a write; a third adds only further writes,
  which are the actions that need no client (push, pull, mount, wipe).
- *Collector.* An hour of 3 ticks with a request of 1 and a job of 2 meets both
  assumptions of the proof with equality or nearly so: less room than the code
  has. Six ticks let a marker be set, replaced, outlived and set again. Digests
  do not interact except in a pull that needs several, which the proofs cover.
- *Regeneration.* Debounce 2 and maximum wait 3 are the smallest values for which
  restarting the debounce timer can postpone a regeneration and the second timer
  can cut that short. At the last version a write leaves the packages as they are
  and still kicks, so that the stream of writes has no end.
- *Path store.* Two uploads and a delete of one key are what the lock and its
  absence are about. Two lock entries are enough for a stale and a current one.

- *Tenancy.* Two projects and one name: delete, create again and restore happen
  while a request holds the first project's id. Two seconds tell a row deleted
  with its project from one deleted before it. For members two names, so that a
  project can also be restored beside its successor; two users, of whom either
  can be the last maintainer; a public and a private repository. Two accounts,
  each of which can be the last super-admin; a session whose sliding lifetime (2)
  is shorter than its hard cap (3).
- *Services.* Two requests everywhere: the races are between pairs. S3 has two
  buckets of one name, the smallest case in which a file outlives its id. Packages
  has three uploads, so that a delete meets a version, its successor and another
  path's file. Mirrors have three items, two of them close relatives (one drift
  key or one pool file), two workers and two jobs, so that a second sync repairs
  or purges what the first left; the threshold is 50 per cent, met and exceeded by
  1 and 2 of 3 rows. Lists have five entries in pages of two: a first, a middle
  and a short last page. Publication has two pages of two parts, so that a page can
  be read before and after a write to another. The session's limit is two
  chunks of three. Three databases are baked, uploaded and pulled. Audit files hold
  one line, so that every event rotates. The limiter's table has two places for
  three peers.

Bounds that cut behaviours: `MaxNow` stops the clock of `BlobGc` and `MaxRefs` its
counts; `MaxBoots` and `MaxDbErrors` limit what can go wrong in `JobPool`; a delete
in `PathStore` needs a free trash holder. `MaxVersion` only makes further writes
leave the packages as they are. The proofs of these four modules cover every
value of all of them.

In the compositions: `MaxTime`, `MaxStamp`, `MaxIndex`, `MaxContent`, `MaxUploads`, `MaxChanges`,
`MaxSyncs`, `MaxVer`, `MaxWrites`, `MaxOps`, `MaxRotations`, `MaxCommits`,
`MaxEvents` and `MaxTicks` end their part's behaviours, which is why `tenancy` and
`services` do not check deadlock: their instances stop when their writes are used
up. The two violation runs of those modules do not either. The proofs cover every
value of these bounds too, and any number of clients, rows and items. Deadlock is checked in
every other run.

### 4.2 Fairness

- `JobPool`: weak fairness of dispatcher, workers, time and boot. Handlers
  return because the transports they use have timeouts, and the runtime
  schedules every goroutine. Strong fairness of `DispatchStop`: the cancelled
  context stays ready, and Go's select takes among ready cases at random, so it
  does not pass over one for ever. `EventuallyTerminal` is checked where
  restarts are slow; section 7 says why that is needed.
- `RegenCoalescer`: weak fairness of each writer's kick, of the clock, of firing
  and of the goroutine's stages. None for writes, failures, stops or restarts.
- `PathStore`: weak fairness of an upload's steps, strong fairness of taking the
  mutex: a Go mutex in starvation mode hands itself to the longest waiter.

The other modules state no fairness: their properties are invariants and action
properties.

### 4.3 What the properties say

*Jobs.* `ImplementsQueue`: whatever dispatcher, workers, failed writes, shutdowns,
kills and boots do, each row behaves as a row of `JobQueue`: terminal rows stay,
retries are charged and bounded, only unheld rows are swept. `LeaseExclusive`: a
leased row is held in one place, although no outcome write checks the lease.
`HelmRunsOncePerAttempt`: an interrupted helm sync is terminated and not run again,
which depends on the order of two sweeps. `OneInflightSyncPerRepo`: at most one
sync of a repository is pending or running. `ScanDoneHasSummary`: a scan that is
done has its summary although handler and pool both write the row.
`NoRowLeftFromEarlierBoot`, `EventuallyTerminal`: nothing is stranded.

*Registry.* `RefCountsExact` is the invariant the code states in a comment: a count
is the number of manifest rows that reference the blob or child. `IndexComplete`,
`ImagesServable` and `TagsResolve` are what a client sees of it.

*Collector.* `RowsHaveFiles`: whatever is in `docker_blobs` can be read.
`PushWindow`: a client whose upload was answered can push its manifest for the time
its marker lasts.

*Regeneration.* `QuietIsFresh`: with no fault and no restart, an idle goroutine
without kick and without a writer before its kick means the index is of the current
packages. `EveryWritePublished`: every write is published, although new writes keep
restarting the timer. `IndexHasData`: the files the index names exist in every
state, failures and restarts included.

*Path store.* `UploadsAgree`: with uploads alone, and every failure of them, row and
file agree whenever nobody is inside. `NothingCommittedIsLost`: committed content is
at its path, in a backup or in the trash until the administrator acts.
`UploadsEnd`: no upload waits for ever.

*Tenancy.* `RestoreExact`: a restore brings back what the deletion took and nothing
that was revoked by itself (up to the second of the deletion).
`RepositoriesConsistent`: artifacts of live repositories are found by the search,
drift purge is on in mirrors only, credentials are of the own project.
`LastMaintainerKept`: maintainers acting on each other leave one.
`RoleChangeIsAuthorised`: a role changes only in the project the request was
authorised for. `ListingsMatchPolicy`: catalog, project and repository lists and the
search show what `Can` lets the actor read. `SuperAdminRemains`, `SetupOnce`:
overlapping deletions, demotions and setups leave one super-admin, and one setup.
`SessionsBounded`: no late slide moves a session past its cap or revives one that a
reset ended.

*Services.* Each property says what the code does promise, and names the cases it
does not cover in the formula (section 7 lists them). `ObjectsIntact`: row and file of
an object agree whenever the bucket is unlocked, and an upload is published once.
`DownloadsServed`: what is served is what the row describes, and dist-tags resolve.
`SearchMatchesRows`: the search finds no version that is gone, or every version,
where the keys of the entries allow it. `PurgeOnlyDrift`: a purge takes no item that
the upstream lists, whatever cut the listing short, and no more than its share.
`SyncedMatches`: a successful sync leaves the rows of the listing, and rows have
their files through failures and purges. `GateFollowsScans`: decisions are of the
last scan unless their reader was overtaken. `WalkComplete`: a walk returns what was
there throughout once. `IndexesPublished`: a suite's files are of one regeneration
and quiet means published. `UploadsExact`: an acknowledged blob is its digest's
content, and the length to resume at is the file's. `DatabaseKept`: rotations never
cost the scanner its database and the dashboard names it. `RefsListed`: branches
listed are those a clone gets. `AuditTrailKept`: the files are the last lines
written, without a gap. `AttemptsBounded`: rate, slots and table keep their limits.

## 5. Proofs

The theorems hold for every value of the constants that satisfies the named
assumptions: any number of jobs, workers, clients, manifests, digests, writers.
Each rests on an inductive invariant whose conjuncts are named, with one lemma
per action and, under it, one step per conjunct the action disturbs.

**JobPool_proofs.** `Invariance` is `Spec => []IInv`. `LeaseExclusive` alone is not
inductive: it needs that a held row is running (`HeldRowsRun`), that views name
rows (`ViewsNameRows`) and carry their current attempts (`ViewsFresh`), that a
dead process holds nothing (`DownIsEmpty`), and that a scan whose handler wrote
its row is not leased again while the worker is about to report (`ReturnedRows`).
The budget needs that a waiting row has an attempt to spare (`WaitingRowsSpare`).
From it: `TypeCorrectness`, `LeasesAreExclusive`, `HeldRowsAreLeased`,
`RetriesAreBounded`, `SyncsAreExclusive`, `LogsAreTerminal` and, as an action
property, `TerminalRowsStay`.

`PoolImplementsQueue` proves the refinement: every step of the pool is, under
`QueueState`, a step of `JobQueue` or leaves it alone. The invariant is what makes it
go through: an outcome write finds its row held, a sweep finds its rows stranded.
`HelmIsNotRunAgain` adds `HelmInv` (a helm sync that waits, is being sent or is in
the channel has not yet used the execution its attempts allow). `DoneScansHaveSummaries` assumes
`MaxDbErrors = 0`: the code does not survive one there. `EarlierBootsAreSwept`
assumes `SlowRestart`, without which it is false (section 7).

**OciRefs_proofs.** A database is `Good` when counts are exact, indexes complete,
blobs of stored images kept and tags resolve; lemmas show that each statement
takes good databases to good ones, with counting lemmas for the cardinality of the
sets of holders, so that every transaction does too. `RegistryTypes` and
`TagsAlwaysResolve` hold without condition. `CountsAreExact`,
`IndexesStayComplete` and `ImagesStayServable` assume `Overlap = FALSE`, that is,
that a tag delete commits on reads that still hold. The run
`oci_refs_double_delete` shows that the code does not ensure it.

**BlobGc_proofs.** `RowsAlwaysHaveFiles` and `FreshBlobsKept`, from `TimeAssumption`:
`2 * RequestLimit <= Hour` and `JobLimit + RequestLimit <= Hour`. The invariant
says what protects each party: `ClientsCovered` (the marker of a request's digest
lasts until its deadline whoever wrote it last), `PullsCovered` (so do the markers
of what a pull has put or is putting), `DoomedUnused` (a digest whose row a collector
has deleted is one no covered writer relies on). It brings out that a request's
`Start` shortens the longer marker of a pull on the same digest, and that what
keeps the pull safe is its own time limit, not its marker.

**RegenCoalescer_proofs.** `IndexAlwaysHasData` from `DataInv`, which knows for each
stage which data files exist; `NoKickIsLost` (`QuietIsFresh`) from `FreshInv`:
whenever the index is behind the packages someone still owes a regeneration,
namely a writer before its kick, the buffered kick, the pending state or a running
regeneration that has not read them yet.

**PathStore_proofs.** `LockInvariance` and `ReplacesExclude` from `LockInv`: everyone
who refers to a lock entry refers to the one in the map, and whoever is inside owns
it. On top of it `CommittedContentSurvives` (`LossInv`), `RowsDescribeTheirFile`
(`LabelInv`), `UploadsKeepAgreement` (`AgreeInv`), and `TrashStaysRestorable`.

**Tenancy_proofs.** Three parts, each with an invariant of its own.

*Members*, from `IdsAssumption`. `MemberInv` is the types, what a request holds once
its names are resolved (`MemberRequests`), and that live projects have different
names (`NamesUnique`). `LastMaintainerIsKept` and `RoleChangesAreAuthorised` are
action properties: a role is changed with the project id the request was authorised
for, and the transaction that would take the last maintainer counts the maintainers
of the project it changes. `ListingsAlwaysMatch` compares, for each kind of actor, the policy with
what the listings select; it needs lemmas about `Can` for each kind and no more of
the state than its types.

*Projects*. `ProjectInv` adds to the types that requests name rows of their project
(`ProjectRequests`), that a row not yet created is empty (`FreeRowsEmpty`), that
rows have an owner (`RowsOwned`), the two properties `IndexComplete` and
`MirrorRules`, and `CascadeStamps`: a row that went with its project has the
project's own timestamp. The last is what makes a restore the inverse of a
deletion. `RepositoriesStayConsistent` and the action property `RestoresAreExact`
follow.

*Accounts*, from `ConstantsOK` (finitely many ids, a sliding lifetime within the
hard cap): `ASuperAdminRemains` and `SetupHappensOnce` from `AccountInv`, whose
conjuncts say that a request past its authentication found an account
(`RequestsStarted`), so that no later step makes a first one, and that an account
exists once a setup has committed (`SetupsCounted`). `SessionsStayBounded` from
`SessionInv`: the expiry a request is about to write is within the cap of the
session it read (`SlidesCapped`), and a session ended by a reset is gone whatever is
still to be written (`EndedGone`). `AccountTypesHold` is type correctness.

**Services_proofs.** `PartSteps` says that a step of the composition is a step of the
part that is on, or leaves it alone, so that each part is proved by itself. The
assumptions are the named ones of `Services`: bounds are numbers, ids are not `None`,
peers and clients are finitely many.

- `DatabaseIsKept` from `TrivyInv`: the mutex is held between the two renames
  (`RotationsExclude`), the database, or what a roll-back puts in again, is there
  (`DatabaseSafe`), and the rows name it or the one who will write them is on its way
  (`StatusFollows`).
- `RefsAlwaysListed` from `GitInv`: a push that moves references holds the lock
  (`PushHoldsLock`), pushes and syncs exclude each other by the repository's kind
  (`OneWriter`), and nobody moves a reference between a walk and the transaction
  that stores it (`WalksFresh`).
- `AttemptsStayBounded` from `LimiterInv`. `WindowCounted` is the potential argument
  for the rate: attempts let through in a window and units left in the bucket
  together are at most a full bucket and what flowed in. `SlotsHeld` counts the
  requests that verify.
- `ObjectsStayIntact` from `S3Inv`. `FileBelongs` says for each step under the bucket
  lock how the rows and the file may differ: the holder's commit, its roll-back or
  its unlink is about to make them agree. `PartsStaged` and `UploadsSound` do the same
  for the parts and the publication of an upload.
- `GateAlwaysFollowsScans` from `GateInv`: ids are given in order (`InOrder`), and the
  newest scan has seen the content stored now (`SeesCurrent`), which a cached
  decision inherits unless its reader was overtaken.
- `UploadsStayExact` from `UploadInv`. The hard part is the length to resume at:
  `BytesCounted` splits the positions of the session's file into those of requests
  still under way and those that are settled, and says that the recorded length is the
  number of the settled ones. `FilesBounded` keeps the numbering of inodes within
  its type.
- `AuditTrailIsKept` from `AuditInv`. `TrailSound` describes the three files as the
  slices of the lines written between four cuts, at every step of a rotation;
  `NamesSound` says which names are taken during it.

**Repositories_proofs.**

- `SyncedMirrorsMatch` and the action property `PurgesDeleteDriftOnly`, from
  `MirrorInv`: what the listing knows and the fetches still to do account for every
  item (`KeysNoted`, `FetchesListed`, `ListedThere`), so that an item that is
  upstream and not in the listing exists only where an error or the context keeps
  the job from its purge (`MirrorPhases`). `PlacedOld` is what a roll-back needs, and
  holds across two rows of one pool file. The proof showed that the statement about
  the threshold was false for `Pct = 0`, where the code skips the check
  (`engine.go`); `PurgeStep` now says so.
- `DownloadsAreServed` and `SearchAlwaysMatchesRows`, from `PackageInv`: the upload
  holding the lock of a path has put its file there and remembers the one the rows
  describe (`PlacedSound`), elsewhere rows and files agree (`FilesAgree`), and no
  content is stored by two rows or requests (`ContentsUnique`), by which a delete
  removes the index entry of its own row only.
- `WalksAreComplete`, from `WalkInv`: a keyset walk has returned what stays up to its
  cursor and nothing after it (`KeyedWalk`); an offset walk over an unchanged list
  has returned the first entries, as many as its offset (`OffsetWalk`).
- `IndexesStayPublished`, from `PubInv`: a suite's files are of one regeneration
  wherever the suite is (`SuitesInv`), and when nothing was written since the
  regeneration began, the pages it has done are those of the packages (`LoopFresh`).

The least and the greatest element of a set of numbers are a `CHOOSE`; that there is
one is proved from the well-foundedness of the natural numbers in
`Repositories_proofs`, so no induction over data is needed. Before a proof was
tried, TLC checked each of these invariants on the instance of its run.

Only model-checked: the liveness properties (`EventuallyTerminal`,
`EveryWritePublished`, `UploadsEnd`), which are out of the prover's reach, and the
violations of the four runs that expect one, which are counterexamples.

## 6. Disagreements between code and documentation

Each is a run that violates the sentence it quotes; `PROJECT.json` has the
quotations under "findings".

- `path_delete_race`: a delete removes the row and later moves whatever file is at
  the path, without the lock; an upload in between is answered with success and
  loses its file to the trash.
- `oci_refs_double_delete`: a tag delete decides on a manifest row it loaded before its
  transaction. It can reap a manifest that an index took as child since, and two of
  them give the same references back twice. `Overlap = FALSE` excludes this.
- `gate_stale_allow`: a download that read the last scan stores its permission after
  a new scan cleared the cache; it serves until the entry expires.
- `git_commit_pages`: the cursor is the first commit of the next page, and the next
  request skips up to and including it: one commit per page is never listed.

## 7. Observations without a run

What the models brought out beside the runs. A property that would be false for one
of these reasons says so in its formula.

*Jobs.*
- `jobs/boot_recovery.go:55` takes rows leased more than ten minutes ago, once per
  boot (`app/app.go:337`): after a quick restart the rows of the dead process stay
  running, and further syncs of their repository are refused, until a later boot.
  This is what `SlowRestart` excludes.
- `scan/handler.go:393`: when the write that marks a scan as failed fails itself, the
  handler returns nil and the pool marks the row done, without a result. This is why
  `job_pool_scan` has no database errors.

*Registry and uploads.*
- `oci/blobs.go:287`: a PATCH still open when the PUT renames the file goes on writing
  into the stored blob; a chunk that is too long truncates what another request
  appended since; a refused PUT leaves its last chunk in the file, uncounted;
  concurrent PATCHes check the session's limit against the same old count; a PATCH
  after the pruning makes the temporary file anew.
- `jobs/gc.go:134`: a crash between row delete and unlink leaves a file that nothing
  refers to and no collection looks for. So does a promoted file whose digest does
  not match.

*Regeneration and publication.*
- `regen/coalescer.go:140`: a coalescer that is stopped drops the regeneration it
  owed, although `:100` and `registry.go:51` speak of draining.
- `rpm/regen.go:159`: `repomd.xml` is replaced before its signature; a reader in
  between sees a signature of the previous index. `rpm/regen.go:204`: the end of a
  regeneration sets the state to clean although a write may have set it to dirty.
- A crash between the two renames of a Debian suite leaves it missing until the next
  regeneration and its old directory for ever; new suites neither mark the
  repository dirty nor kick.
- PyPI writes its top page before the pages of the projects, and never removes the
  page of a project without files. A chart whose transaction fails after a
  regeneration read it stays in `index.yaml` until the next write.

*Paths, packages and trash.*
- `storage/pathstore.go`: between backup and publication the path has no file; a
  crash there leaves the backup under a hidden name that nothing restores.
- `api/admin_trash.go:296`: a restore checks that the destination is free and renames
  afterwards; an upload in between is overwritten.
- Deletes of all protocols except npm move the file of an upload that came after
  their transaction. File name of a chart and pool path of a deb are not checked
  against the package, so two rows can share a file.
- Entries of the search index outlive a second upload of a Go module or chart; the
  second of two deletes removes the entry of an upload between them; a deb deleted by
  pool path removes several rows and one entry.
- A handler whose move to the trash fails after its commit answers 500 and does not
  kick the regeneration. A partly committed PEP 694 session can never be completed.
- Downloads of rpm, deb, helm, pypi and maven look at the file, not at the row, and
  stat it before they open it.

*Mirrors.*
- The drift key of an RPM has no epoch and release. A chart mirrored from an OCI
  registry is listed by its tag and stored by the version in its Chart.yaml: where
  they differ, the purge removes the row each sync has just made.
- Search entries of purged rows stay. A crash between file and row leaves a mismatch
  until the path is fetched again, or for good if the upstream reverts.
- The model takes pool files as immutable: content re-published under one pool path
  while only one of two suites is synced leaves the other's row with an old digest.

*Scans.* A newer failed scan makes `handleScanPrune` delete the last one that has a
result, and the gate opens. A changed threshold does not clear cached decisions.
Scans of a replaced file may finish in the other order within one second.

*S3.* Files of a bucket are named by its name, which another project may take
(migration 026; the comment at `backend.go:289` is older): a stale delete removes a
file of the new bucket. A part whose row fails after its file was replaced lets the
old ETag complete with the new content. A completion that has merged its parts
publishes after an acknowledged abort. Late parts and the deletion of a bucket leave
staging directories.

*Tenancy and accounts.*
- `api/admin_phase1.go:532`: the clean-up after a password change is a transaction of
  its own whose error is ignored, and a sign-in that verified the old password may
  insert its session after a reset. `README.md:554` says more than
  `users.go:158` does.
- A key revoked in the second of its project's deletion comes back with the restore;
  two rows of one name deleted in one second make the restore fail.
- `metadata/fts.go:250`: an upload racing deletion and restore of its repository is
  indexed twice. A project that ever had a repository cannot be purged. Requests
  holding the id of a deleted project can create live rows under it.
- Adding and removing members resolve the project's name twice. The search filters by
  names read after its results.

*The rest.*
- Lists keyed by a row's id end or start again when the row of the cursor is deleted
  (`admin_users_full.go:63`); offset lists skip and repeat under writes; S3 common
  prefixes repeat across pages.
- Rows of `trivy_db_meta` are written outside the mutex and can be in another order
  than the swaps. After a crash between the renames of a rotation the next boot
  installs the baked database while the row names the old one.
- A client that disconnects after its push cancels the rewrite of `git_refs`.
- `audit/ndjson.go:122`: the error of shifting an older file is ignored, and the file
  behind it is overwritten.
- A peer evicted from the limiter's table comes back with a full bucket; a token is
  spent although no slot is free.

## 8. What is not modelled

Contents and formats (digests, manifests, package metadata, index files are numbers
or model values), SQL beyond the clauses that select and change rows, HTTP beyond
what a handler decides on, signatures and other cryptography, the scanner and git
subprocesses, migrations, the browser client, the text of search results.

Of the modelled components: the progress columns of jobs (a throttle in front of one
UPDATE), Docker mirrors (a pull is an action of `OciRefs` and `BlobGc`), the seeding
of `HEAD`, e-mail and avatar changes, S3 metadata and ranges, uploads of more than
one part. TLS certificates, settings and maintenance mode are single values without
an interleaving of more than one write.

Renames and unlinks are single steps, and a database write either commits or leaves
everything as it was. A disk that loses what was written before a crash is outside
the models: `Crash` ends the process, not the machine.
