------------------------------ MODULE ScanGate ------------------------------
(***************************************************************************)
(* Vulnerability scans of one artifact and the gate that refuses to serve  *)
(* it when the latest scan found a severity at or above the repository's   *)
(* threshold.  The gate remembers its decision in a cache with a time to   *)
(* live, which the scan handler clears after it has committed a result.    *)
(* How scans are leased, retried and recovered is JobPool's matter: here a *)
(* failed attempt is pending again or failed.                              *)
(*                                                                         *)
(* An image (skind docker) is named by its digest and never changes; a     *)
(* file (raw, package) is named by its path and may be replaced: ver is    *)
(* its content.  Severities are ranks, 0 for none; a threshold of 0 is off.*)
(***************************************************************************)
EXTENDS Integers, FiniteSets

CONSTANTS ScanIds,   \* 1 .. n, in the order of their insertion
          Readers,   \* concurrent downloads
          MaxVer,    \* bound on contents of the artifact
          MaxRank    \* the highest severity

VARIABLES skind, scannable,
          worst,    \* the severity a scan of each content finds
          ver,      \* content stored now, 0 before the first upload
          thr,      \* block_on_severity
          scan,     \* rows and the handlers that work on them
          cache,    \* the decision for the artifact
          reader,   \* downloads at the gate
          stored    \* ghost: how the cached decision relates to the rows it was read from
gvars == <<skind, scannable, worst, ver, thr, scan, cache, reader, stored>>

Rank == 0 .. MaxRank
NoScan == [st |-> "none", pc |-> "none", seen |-> 0, sev |-> 0, fin |-> 0]
NoEntry == [has |-> "no", blocked |-> "no", id |-> 0]
AtRest == [pc |-> "idle", thr |-> 0, id |-> 0, blocked |-> "no"]
NotStored == [thr |-> 0, raced |-> "no", pruned |-> "no"]

GTypeOK ==
    /\ skind \in {"docker", "raw", "package"} /\ scannable \in {"yes", "no"}
    /\ worst \in [1 .. MaxVer -> Rank] /\ ver \in 0 .. MaxVer /\ thr \in Rank
    /\ scan \in [ScanIds -> [st : {"none", "pending", "running", "done", "failed", "pruned"},
                             pc : {"none", "start", "ready", "commit", "invalidate", "lost"},
                             seen : 0 .. MaxVer, sev : Rank, fin : Nat]]
    /\ cache \in [has : {"yes", "no"}, blocked : {"yes", "no"}, id : ScanIds \cup {0}]
    /\ reader \in [Readers -> [pc : {"idle", "miss", "set"}, thr : Rank, id : ScanIds \cup {0},
                              blocked : {"yes", "no"}]]
    /\ stored \in [thr : Rank, raced : {"yes", "no"}, pruned : {"yes", "no"}]

GInit ==
    /\ skind \in {"docker", "raw", "package"} /\ scannable \in {"yes", "no"}
    /\ scannable = "no" => skind = "docker"
    /\ worst \in [1 .. MaxVer -> Rank]
    /\ ver = 0
    /\ thr \in Rank
    /\ scan = [i \in ScanIds |-> NoScan]
    /\ cache = NoEntry
    /\ reader = [r \in Readers |-> AtRest]
    /\ stored = NotStored

-----------------------------------------------------------------------------
(* Rows.  Ids are given in order.                                          *)
Enqueue(i) ==
    /\ scan[i].st = "none" /\ \A j \in ScanIds : j < i => scan[j].st # "none"
    /\ scan' = [scan EXCEPT ![i].st = "pending"]

(* An upload to a repository with auto_scan; a push of an image again      *)
(* leaves its content.                                                     *)
UploadScanned(i) ==
    /\ skind # "docker" => ver < MaxVer
    /\ ver' = IF skind = "docker" THEN 1 ELSE ver + 1
    /\ Enqueue(i)
    /\ UNCHANGED <<skind, scannable, worst, thr, cache, reader, stored>>

handleRescan(i) ==
    /\ ver # 0
    /\ Enqueue(i)
    /\ UNCHANGED <<skind, scannable, worst, ver, thr, cache, reader, stored>>

(* Every artifact of the repository, in one transaction.                   *)
handleRescanRepo(i) ==
    /\ ver # 0
    /\ Enqueue(i)
    /\ UNCHANGED <<skind, scannable, worst, ver, thr, cache, reader, stored>>

Finished == {i \in ScanIds : scan[i].st \in {"done", "failed"}}

(* All finished scans but the one with the highest id.                     *)
handleScanPrune ==
    LET old == {i \in Finished : \E j \in Finished : j > i} IN
    /\ old # {}
    /\ scan' = [i \in ScanIds |-> IF i \in old THEN [NoScan EXCEPT !.st = "pruned"] ELSE scan[i]]
    /\ stored' = [stored EXCEPT !.pruned = "yes"]
    /\ UNCHANGED <<skind, scannable, worst, ver, thr, cache, reader>>

Done == {i \in ScanIds : scan[i].st = "done"}
WithResult == {i \in Done : scan[i].fin # 0}

(* The clock: not before a finished scan, at most a second after the last. *)
Now == {t \in {1} \cup {scan[i].fin : i \in WithResult} \cup {scan[i].fin + 1 : i \in WithResult} :
          \A i \in Done : scan[i].fin <= t}

\* Mutant: the first result stays the latest.
OldestForArtifact == {i \in Done : \A j \in Done : scan[i].fin <= scan[j].fin}

(* finished_at has seconds: any of the last may be the one returned.       *)
LatestForArtifact == {i \in Done : \A j \in Done : scan[j].fin <= scan[i].fin}

-----------------------------------------------------------------------------
(* The handler.                                                            *)
GateFrame == UNCHANGED <<skind, scannable, worst, ver, thr, reader, stored>>
To(i, st, pc) == scan' = [scan EXCEPT ![i].st = st, ![i].pc = pc]
AtStep(i, pc) == scan[i].st = "running" /\ scan[i].pc = pc

LeaseOne(i) ==
    /\ scan[i].st = "pending"
    /\ To(i, "running", "start")
    /\ UNCHANGED cache /\ GateFrame

IsScannableManifest == scannable = "yes"

(* An image index or an attestation has nothing to scan: an empty result.  *)
classifyDocker(i) ==
    /\ AtStep(i, "start") /\ skind = "docker" /\ ~IsScannableManifest
    /\ scan' = [scan EXCEPT ![i].pc = "commit", ![i].seen = ver, ![i].sev = 0]
    /\ UNCHANGED cache /\ GateFrame

(* The manifest and its blobs are laid out, or the file copied, as they    *)
(* are at this moment.                                                     *)
Materialize(i, k) ==
    /\ AtStep(i, "start") /\ skind = k /\ IsScannableManifest
    /\ scan' = [scan EXCEPT ![i].pc = "ready", ![i].seen = ver]
    /\ UNCHANGED cache /\ GateFrame

materializeDocker(i)  == Materialize(i, "docker")
materializeRaw(i)     == Materialize(i, "raw")
materializePackage(i) == Materialize(i, "package")

ParseTrivyJSON(i) ==
    /\ AtStep(i, "ready")
    /\ scan' = [scan EXCEPT ![i].pc = "commit", ![i].sev = worst[scan[i].seen]]
    /\ UNCHANGED cache /\ GateFrame

(* Summary, findings and search entries in one transaction.                *)
MarkDone(i) ==
    /\ AtStep(i, "commit")
    /\ \E t \in Now :
         scan' = [scan EXCEPT ![i].st = "done", ![i].pc = "invalidate", ![i].fin = t]
    /\ UNCHANGED cache /\ GateFrame

\* Mutant: the cached decision stays.
KeepEntry(i) ==
    /\ scan[i].pc = "invalidate"
    /\ scan' = [scan EXCEPT ![i].pc = "none"]
    /\ UNCHANGED cache /\ GateFrame

Invalidate(i) ==
    /\ scan[i].pc = "invalidate"
    /\ scan' = [scan EXCEPT ![i].pc = "none"]
    /\ cache' = NoEntry
    /\ GateFrame

(* An error of any step: the pool retries or gives up.                     *)
failScan(i) ==
    /\ scan[i].st = "running" /\ scan[i].pc # "lost"
    /\ \/ To(i, "pending", "none")
       \/ To(i, "failed", "none")
    /\ UNCHANGED cache /\ GateFrame

(* Too many findings: failed at once.  When that write fails the handler   *)
(* returns nil all the same.                                               *)
permFailScan(i) ==
    /\ AtStep(i, "commit")
    /\ \/ To(i, "failed", "none")
       \/ To(i, "running", "lost")
    /\ UNCHANGED cache /\ GateFrame

(* The pool's own write after a nil touches a row that is still running:   *)
(* done, without findings and without finished_at, which sorts last.  If it*)
(* fails too the row is running until the next start.                      *)
FallbackDone(i) ==
    /\ AtStep(i, "lost")
    /\ scan' = [scan EXCEPT ![i].st = "done", ![i].pc = "none", ![i].sev = 0, ![i].fin = 0]
    /\ UNCHANGED cache /\ GateFrame

Restart ==
    /\ scan' = [i \in ScanIds |-> IF scan[i].st = "running"
                                  THEN [scan[i] EXCEPT !.st = "pending", !.pc = "none"]
                                  ELSE [scan[i] EXCEPT !.pc = "none"]]
    /\ cache' = NoEntry
    /\ reader' = [r \in Readers |-> AtRest]
    /\ UNCHANGED <<skind, scannable, worst, ver, thr, stored>>

-----------------------------------------------------------------------------
(* The gate.                                                               *)
maxSeverityAtOrAbove(i, t) == scan[i].sev >= t
BlockedBy(i, t) == IF i # 0 /\ maxSeverityAtOrAbove(i, t) THEN "yes" ELSE "no"

(* The threshold is read and the cache asked; a hit decides.               *)
CacheGet(r) ==
    /\ reader[r].pc = "idle" /\ ver # 0 /\ thr # 0 /\ cache.has = "no"
    /\ reader' = [reader EXCEPT ![r] = [AtRest EXCEPT !.pc = "miss", !.thr = thr]]
    /\ UNCHANGED <<skind, scannable, worst, ver, thr, scan, cache, stored>>

ReadLatest(r) ==
    /\ reader[r].pc = "miss"
    /\ \E i \in LatestForArtifact \cup {x \in {0} : Done = {}} :
         reader' = [reader EXCEPT ![r].pc = "set", ![r].id = i,
                                     ![r].blocked = BlockedBy(i, reader[r].thr)]
    /\ UNCHANGED <<skind, scannable, worst, ver, thr, scan, cache, stored>>

(* The row may not be readable: the download is let through.               *)
ReadFails(r) ==
    /\ reader[r].pc = "miss"
    /\ reader' = [reader EXCEPT ![r] = AtRest]
    /\ UNCHANGED <<skind, scannable, worst, ver, thr, scan, cache, stored>>

CacheSet(r) ==
    /\ reader[r].pc = "set"
    /\ LET q == reader[r] IN
         /\ cache' = [has |-> "yes", blocked |-> q.blocked, id |-> q.id]
         /\ stored' = [thr |-> q.thr, pruned |-> IF q.id # 0 /\ scan[q.id].st = "pruned" THEN "yes" ELSE "no",
                       raced |-> IF q.id \in LatestForArtifact \/ (q.id = 0 /\ WithResult = {})
                                 THEN "no" ELSE "yes"]
    /\ reader' = [reader EXCEPT ![r] = AtRest]
    /\ UNCHANGED <<skind, scannable, worst, ver, thr, scan>>

(* The entry's time to live is over.                                       *)
Expire ==
    /\ cache.has = "yes"
    /\ cache' = NoEntry
    /\ UNCHANGED <<skind, scannable, worst, ver, thr, scan, reader, stored>>

SetThreshold(t) ==
    /\ t # thr
    /\ thr' = t
    /\ UNCHANGED <<skind, scannable, worst, ver, scan, cache, reader, stored>>

GNext ==
    \/ \E i \in ScanIds :
         \/ UploadScanned(i) \/ handleRescan(i) \/ handleRescanRepo(i)
         \/ LeaseOne(i) \/ classifyDocker(i) \/ materializeDocker(i) \/ materializeRaw(i) \/ materializePackage(i)
         \/ ParseTrivyJSON(i) \/ MarkDone(i) \/ Invalidate(i)
         \/ failScan(i) \/ permFailScan(i) \/ FallbackDone(i)
    \/ handleScanPrune \/ Restart
    \/ \E r \in Readers : CacheGet(r) \/ ReadLatest(r) \/ ReadFails(r) \/ CacheSet(r)
    \/ Expire
    \/ \E t \in Rank : SetThreshold(t)

GSpec == GInit /\ [][GNext]_gvars

-----------------------------------------------------------------------------
Settled == \A i \in ScanIds : scan[i].pc # "invalidate"

(* A cached decision is that of a scan that is still the last to have      *)
(* finished: committing a result and clearing the cache leave no older     *)
(* decision behind.  The ways around it that the code leaves are named:    *)
(* the entry was stored by a reader that a scan overtook, or scans were    *)
(* pruned (severity_cache.go:8, handler.go:249).                           *)
CacheFollowsScans ==
    cache.has = "yes" /\ Settled /\ stored.raced = "no" /\ stored.pruned = "no" =>
        \/ cache.id = 0 /\ WithResult = {}
        \/ cache.id \in LatestForArtifact

(* When no scan is left to run and the newest one has its result, the gate *)
(* decides by what the stored content has, for an image always, for a file *)
(* that was replaced as long as its scans finished in their order: a scan  *)
(* that ended without a result (handler.go:393) does not hide it.          *)
QuietGateCorrect ==
    LET ids == {i \in ScanIds : scan[i].st # "none"} IN
    /\ \E m \in WithResult : \A i \in ids : i <= m
    /\ \A i \in ids : scan[i].st \in {"done", "failed", "pruned"}
    /\ skind = "docker" \/ \A i, j \in WithResult : i < j => scan[i].fin < scan[j].fin
    => \A i \in LatestForArtifact :
         scan[i].sev = IF scannable = "yes" THEN worst[ver] ELSE 0

(* A cached permission does not outlive a scan that forbids it, while the  *)
(* threshold is what it was when the entry was stored.                     *)
NoStaleAllow ==
    cache.has = "yes" /\ cache.blocked = "no" /\ Settled /\ stored.thr = thr =>
        \A i \in LatestForArtifact : ~maxSeverityAtOrAbove(i, thr)
=============================================================================
