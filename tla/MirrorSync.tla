----------------------------- MODULE MirrorSync -----------------------------
(***************************************************************************)
(* The sync jobs of a mirror repository: RPM, Debian, Helm (from an HTTP   *)
(* index or from an OCI registry) and PyPI.  A job lists the upstream,     *)
(* fetches what it lacks with several workers, and, when every fetch       *)
(* succeeded and the repository asks for it, purges the rows the upstream  *)
(* no longer lists: the rows in one transaction, their files after it.     *)
(* The pool runs one job of a repository at a time (JobPool), and mirrors  *)
(* refuse every other write.  The job may be cancelled (timeout, shutdown) *)
(* at any time, and the process may die.                                   *)
(*                                                                         *)
(* Items are packages: an RPM release, a Debian package in one suite, a    *)
(* chart version, a PyPI file with its project.  Items 1 and 2 are close   *)
(* relatives: two releases of one RPM version (one drift key), or one      *)
(* Debian package in two suites (one pool file).  A content is a number    *)
(* and stands for its digest, 0 for none.                                  *)
(***************************************************************************)
EXTENDS Integers, FiniteSets

CONSTANTS MItems,       \* 1 .. n
          MaxVersion,   \* contents an item may have
          Workers,      \* MaxParallelDownloadsPerJob
          Pct,          \* DriftPurgeThresholdPct
          MaxChanges,   \* bound on changes of the upstream
          MaxSyncs      \* bound on jobs

Kinds == {"rpm", "deb", "helm", "oci", "pypi"}
Version == 0 .. MaxVersion

VARIABLES kind,
          ups,      \* upstream: the content of each item
          prow,     \* rows: the digest of each item
          pfile,    \* files, by path
          job,      \* the job: pc, its options, what it listed and whether a step failed
          want,     \* the digest the listing gave each item
          fetch,    \* the workers: item -> what it has downloaded and replaced
          keys,     \* drift keys listed
          moves,    \* paths to be moved to the trash
          cut,      \* paths whose file and row a crash or a failed restore has separated
          changes, syncs
mvars == <<kind, ups, prow, pfile, job, want, fetch, keys, moves, cut, changes, syncs>>

Relative(i) == IF i = 2 THEN 1 ELSE i
PathOf(i) == IF kind = "deb" THEN Relative(i) ELSE i

NoFetch == [pc |-> "no", v |-> 0, old |-> 0]
NoJob == [pc |-> "idle", scope |-> "all", hash |-> "yes", purge |-> "no", force |-> "no",
          ctx |-> "live", errs |-> "no", pages |-> {}, known |-> {}, skipped |-> "no"]

MTypeOK ==
    /\ kind \in Kinds
    /\ ups \in [MItems -> Version] /\ prow \in [MItems -> Version] /\ pfile \in [MItems -> Version]
    /\ job \in [pc : {"idle", "list", "pages", "fetch", "purge", "move", "ok", "failed"},
                scope : {"all", "part"}, hash : {"yes", "no"}, purge : {"yes", "no"},
                force : {"yes", "no"}, ctx : {"live", "done"}, errs : {"yes", "no"},
                pages : SUBSET MItems, known : SUBSET MItems, skipped : {"yes", "no"}]
    /\ want \in [MItems -> Version]
    /\ fetch \in [MItems -> [pc : {"no", "todo", "got", "placed"}, v : Version, old : Version]]
    /\ keys \subseteq MItems \X Version
    /\ moves \subseteq MItems /\ cut \subseteq MItems
    /\ changes \in 0 .. MaxChanges /\ syncs \in 0 .. MaxSyncs

MInit ==
    /\ kind \in Kinds
    /\ ups \in [MItems -> {0, 1}]
    /\ prow = [i \in MItems |-> 0] /\ pfile = [i \in MItems |-> 0]
    /\ job = NoJob
    /\ want = [i \in MItems |-> 0]
    /\ fetch = [i \in MItems |-> NoFetch]
    /\ keys = {} /\ moves = {} /\ cut = {}
    /\ changes = 0 /\ syncs = 0

-----------------------------------------------------------------------------
(* The upstream: items are withdrawn and published again, with another     *)
(* content except in a Debian pool, whose files are immutable.             *)
Upstream(i, v) ==
    /\ changes < MaxChanges /\ v # ups[i]
    /\ kind = "deb" => v <= 1
    /\ ups' = [ups EXCEPT ![i] = v]
    /\ changes' = changes + 1
    /\ UNCHANGED <<kind, prow, pfile, job, want, fetch, keys, moves, cut, syncs>>

(* The pool starts a job with the payload's filter and flags.              *)
StartSync(scope, hash, purge, force) ==
    /\ job.pc \in {"idle", "ok", "failed"} /\ syncs < MaxSyncs
    /\ hash = "no" => kind \in {"helm", "pypi"}
    /\ force = "yes" => purge = "yes"
    /\ syncs' = syncs + 1
    /\ job' = [NoJob EXCEPT !.pc = "list", !.scope = scope, !.hash = hash, !.purge = purge,
                            !.force = force]
    /\ want' = [i \in MItems |-> 0]
    /\ keys' = {} /\ moves' = {}
    /\ UNCHANGED <<kind, ups, prow, pfile, fetch, cut, changes>>

(* A timeout or a shutdown cancels the job's context.                      *)
Cancel ==
    /\ job.pc \in {"list", "pages", "fetch", "purge", "move"} /\ job.ctx = "live"
    /\ job' = [job EXCEPT !.ctx = "done"]
    /\ UNCHANGED <<kind, ups, prow, pfile, want, fetch, keys, moves, cut, changes, syncs>>

MCrash ==
    /\ job.pc \in {"list", "pages", "fetch", "purge", "move"}
    /\ cut' = cut \cup {PathOf(i) : i \in {x \in MItems : fetch[x].pc = "placed"}}
    /\ job' = [job EXCEPT !.pc = "failed"]
    /\ fetch' = [i \in MItems |-> NoFetch]
    /\ UNCHANGED <<kind, ups, prow, pfile, want, keys, moves, changes, syncs>>

fail == job' = [job EXCEPT !.pc = "failed"]

-----------------------------------------------------------------------------
(* Listing.  The part of the upstream a job asks for: a filter, or, of a   *)
(* Debian archive, one suite.                                              *)
Accept(i) == job.scope = "all" \/ i # 2

DriftKey(i, v) ==
    CASE kind = "rpm"                       -> <<Relative(i), 0>>
      [] kind = "pypi" /\ job.hash = "yes"  -> <<i, v>>
      [] OTHER                              -> <<i, 0>>

(* The entries S are listed: their keys are noted, also of those that are  *)
(* there already; the others are to be fetched.                            *)
Listed(S, present) ==
    /\ keys' = keys \cup {DriftKey(i, ups[i]) : i \in S}
    /\ want' = [i \in MItems |-> IF i \in S THEN ups[i] ELSE want[i]]
    /\ fetch' = [i \in MItems |-> IF i \in S \ present THEN [NoFetch EXCEPT !.pc = "todo"] ELSE fetch[i]]

Listing(k) == kind = k /\ job.pc = "list" /\ job.ctx = "live"
ToFetch(S) == job' = [job EXCEPT !.pc = "fetch", !.known = S]
ListFrame == UNCHANGED <<kind, ups, prow, pfile, moves, cut, changes, syncs>>

RpmParseUpstream == {i \in MItems : ups[i] # 0 /\ Accept(i)}
RpmCollect ==
    /\ Listing("rpm")
    /\ Listed(RpmParseUpstream, {i \in MItems : prow[i] = ups[i]})
    /\ ToFetch(RpmParseUpstream)
    /\ ListFrame

(* Suite by suite; a package is present when this suite has it.            *)
DebParseUpstream == {i \in MItems : ups[i] # 0 /\ Accept(i)}
DebCollect ==
    /\ Listing("deb")
    /\ Listed(DebParseUpstream, {i \in MItems : prow[i] = ups[i]})
    /\ ToFetch(DebParseUpstream)
    /\ ListFrame

(* An index without digests leaves every chart to be fetched.              *)
HelmParseUpstream == {i \in MItems : ups[i] # 0 /\ Accept(i)}
HelmCollect ==
    /\ Listing("helm")
    /\ Listed(HelmParseUpstream, {i \in MItems : job.hash = "yes" /\ prow[i] = ups[i]})
    /\ ToFetch(HelmParseUpstream)
    /\ ListFrame

(* A registry lists tags, which have no digest yet.                        *)
ParseOCIUpstream == {i \in MItems : ups[i] # 0 /\ Accept(i)}
OciCollect ==
    /\ Listing("oci")
    /\ Listed(ParseOCIUpstream, {})
    /\ ToFetch(ParseOCIUpstream)
    /\ ListFrame

(* PyPI: the index lists the projects, then each has a page of its own.    *)
ParseUpstreamSimpleIndex ==
    /\ Listing("pypi")
    /\ LET projects == {i \in MItems : ups[i] # 0 /\ Accept(i)} IN
       job' = [job EXCEPT !.pc = "pages", !.pages = projects, !.known = projects]
    /\ UNCHANGED <<want, fetch, keys>> /\ ListFrame

(* A page without hashes leaves a file alone that is there under its name. *)
ParseUpstreamProject(i) ==
    /\ job.pc = "pages" /\ job.ctx = "live" /\ i \in job.pages
    /\ IF ups[i] # 0
       THEN /\ Listed({i}, {x \in {i} : prow[x] # 0 /\ (job.hash = "no" \/ prow[x] = ups[x])})
            /\ job' = [job EXCEPT !.pages = @ \ {i}]
       ELSE /\ UNCHANGED <<want, fetch, keys>>
            /\ job' = [job EXCEPT !.pages = @ \ {i}, !.known = @ \ {i}]
    /\ ListFrame

(* A page that cannot be read is an error of the job, which goes on; so is *)
(* a yank that cannot be stored.                                           *)
ProjectFails(i) ==
    /\ job.pc = "pages" /\ i \in job.pages
    /\ job' = [job EXCEPT !.pages = @ \ {i}, !.errs = "yes"]
    /\ UNCHANGED <<want, fetch, keys>> /\ ListFrame

(* The loop over the projects ends with the last one, or without an error  *)
(* when the context is done.                                               *)
PagesDone ==
    /\ job.pc = "pages" /\ (job.pages = {} \/ job.ctx = "done")
    /\ job' = [job EXCEPT !.pc = "fetch"]
    /\ UNCHANGED <<want, fetch, keys>> /\ ListFrame

ListFails ==
    /\ job.pc = "list"
    /\ fail
    /\ UNCHANGED <<want, fetch, keys>> /\ ListFrame

-----------------------------------------------------------------------------
(* Fetching.                                                               *)
Busy == {i \in MItems : fetch[i].pc \in {"got", "placed"}}
FetchFrame == UNCHANGED <<kind, ups, want, keys, moves, changes, syncs>>
FetchEnds(i) == fetch' = [fetch EXCEPT ![i] = NoFetch]

(* Rows with the digest: of a Debian package, those of either suite.       *)
FindByDigest(i, v) == \E j \in MItems : PathOf(j) = PathOf(i) /\ prow[j] = v /\ v # 0

(* The name of the last PyPI file does not parse, the last OCI tag is not  *)
(* a chart: such a file is skipped, which is no error.                     *)
errParseSkip(i) == kind \in {"pypi", "oci"} /\ i = Cardinality(MItems)

(* A worker downloads the file and compares its digest with the listed     *)
(* one, if there is one (OCI resolves the tag only now).                   *)
DownloadToTemp(i) ==
    /\ job.pc = "fetch" /\ fetch[i].pc = "todo" /\ job.ctx = "live"
    /\ Cardinality(Busy) < Workers
    /\ ~errParseSkip(i)
    /\ IF ups[i] # 0 /\ (ups[i] = want[i] \/ job.hash = "no" \/ kind = "oci")
       THEN /\ fetch' = [fetch EXCEPT ![i] = [pc |-> "got", v |-> ups[i], old |-> 0]]
            /\ job' = job
       ELSE /\ FetchEnds(i)
            /\ job' = [job EXCEPT !.errs = "yes"]
    /\ UNCHANGED <<prow, pfile, cut>> /\ FetchFrame

SkipFile(i) ==
    /\ job.pc = "fetch" /\ fetch[i].pc = "todo" /\ errParseSkip(i)
    /\ FetchEnds(i)
    /\ UNCHANGED <<prow, pfile, cut, job>> /\ FetchFrame

(* Any step of a worker may fail, and does once the context is done.       *)
FetchFails(i) ==
    /\ job.pc = "fetch" /\ fetch[i].pc \in {"todo", "got"}
    /\ FetchEnds(i)
    /\ job' = [job EXCEPT !.errs = "yes"]
    /\ UNCHANGED <<prow, pfile, cut>> /\ FetchFrame

(* What is there by digest is not stored again.                            *)
AlreadyThere(i) ==
    /\ kind \in {"rpm", "helm", "oci"} /\ fetch[i].pc = "got"
    /\ prow[i] = fetch[i].v
    /\ FetchEnds(i)
    /\ UNCHANGED <<prow, pfile, cut, job>> /\ FetchFrame

(* A Debian package some suite has already only gets its row.              *)
commitMembership(i) ==
    /\ kind = "deb" /\ job.ctx = "live"
    /\ \/ fetch[i].pc = "got" /\ FindByDigest(i, fetch[i].v)
       \/ job.pc = "fetch" /\ fetch[i].pc = "todo" /\ FindByDigest(i, want[i])
    /\ prow' = [prow EXCEPT ![i] = want[i]]
    /\ FetchEnds(i)
    /\ UNCHANGED <<pfile, cut, job>> /\ FetchFrame

(* Path.Replace: the new file is in place before the row is written; it    *)
(* holds the lock of the path.                                             *)
Replace(i) ==
    /\ fetch[i].pc = "got" /\ prow[i] # fetch[i].v
    /\ kind = "deb" => ~FindByDigest(i, fetch[i].v)
    /\ \A j \in MItems : fetch[j].pc = "placed" => PathOf(j) # PathOf(i)
    /\ pfile' = [pfile EXCEPT ![PathOf(i)] = fetch[i].v]
    /\ fetch' = [fetch EXCEPT ![i] = [pc |-> "placed", v |-> fetch[i].v, old |-> pfile[PathOf(i)]]]
    /\ UNCHANGED <<prow, cut, job>> /\ FetchFrame

CommitRow(i, k) ==
    /\ k = kind /\ fetch[i].pc = "placed" /\ job.ctx = "live"
    /\ prow' = [prow EXCEPT ![i] = fetch[i].v]
    /\ cut' = cut \ {PathOf(i)}
    /\ FetchEnds(i)
    /\ UNCHANGED <<pfile, job>> /\ FetchFrame

RpmFetchAndCommit(i)  == CommitRow(i, "rpm")
DebFetchAndCommit(i)  == CommitRow(i, "deb")
HelmFetchAndCommit(i) == CommitRow(i, "helm")
PyPIFetchAndCommit(i) == CommitRow(i, "pypi")

(* A tag that was moved: the old chart waits in the trash until the new    *)
(* row is committed.                                                       *)
fetchAndCommitOCI(i)  == CommitRow(i, "oci")

\* Mutant: a row that cannot be written leaves the new file.
KeepPlaced(i) ==
    /\ fetch[i].pc = "placed"
    /\ FetchEnds(i)
    /\ job' = [job EXCEPT !.errs = "yes"]
    /\ UNCHANGED <<prow, pfile, cut>> /\ FetchFrame

(* The row cannot be written: the previous file comes back.  For a chart   *)
(* from a registry that is a restore from the trash, which may fail.       *)
RollbackPlaced(i) ==
    /\ fetch[i].pc = "placed"
    /\ \/ pfile' = [pfile EXCEPT ![PathOf(i)] = fetch[i].old] /\ cut' = cut
       \/ /\ kind = "oci"
          /\ pfile' = [pfile EXCEPT ![PathOf(i)] = 0]
          /\ cut' = cut \cup {PathOf(i)}
    /\ FetchEnds(i)
    /\ job' = [job EXCEPT !.errs = "yes"]
    /\ UNCHANGED prow /\ FetchFrame

-----------------------------------------------------------------------------
(* After the last worker.  An error ends the job before the purge; Helm    *)
(* also looks at the context, since its loop stops without an error.       *)
AllFetched == job.pc = "fetch" /\ \A i \in MItems : fetch[i].pc = "no"

\* Mutant: a job with failed pages or downloads goes on.
FinishAnyway(k, failed) ==
    /\ k = kind /\ AllFetched
    /\ job' = [job EXCEPT !.pc = IF job.purge = "yes" THEN "purge" ELSE "ok"]
    /\ UNCHANGED <<kind, ups, prow, pfile, want, fetch, keys, moves, cut, changes, syncs>>

Finish(k, failed) ==
    /\ k = kind /\ AllFetched
    /\ job' = [job EXCEPT !.pc = IF failed THEN "failed"
                                 ELSE IF job.purge = "yes" THEN "purge" ELSE "ok"]
    /\ UNCHANGED <<kind, ups, prow, pfile, want, fetch, keys, moves, cut, changes, syncs>>

RpmHandle  == Finish("rpm", job.errs = "yes")
DebHandle  == Finish("deb", job.errs = "yes")
PyPIHandle == Finish("pypi", job.errs = "yes")
OciHandle  == Finish("oci", job.errs = "yes" \/ job.ctx = "done")

(* Helm stops handing out charts once the context is done.                 *)
HelmStops ==
    /\ kind \in {"helm", "oci"} /\ job.pc = "fetch" /\ job.ctx = "done"
    /\ \E i \in MItems : fetch[i].pc = "todo"
    /\ fetch' = [i \in MItems |-> IF fetch[i].pc = "todo" THEN NoFetch ELSE fetch[i]]
    /\ UNCHANGED <<prow, pfile, cut, job>> /\ FetchFrame

HelmHandle == Finish("helm", job.errs = "yes" \/ job.ctx = "done")

-----------------------------------------------------------------------------
(* The drift purge.  Debian compares the rows of the suites it synced.     *)
LocalRows == {i \in MItems : prow[i] # 0 /\ (kind = "deb" => Accept(i))}
Drift == {i \in LocalRows : DriftKey(i, prow[i]) \notin keys}

Blocked ==
    \/ keys = {} /\ LocalRows # {}
    \/ Pct > 0 /\ job.force = "no" /\ Cardinality(Drift) * 100 > Pct * Cardinality(LocalRows)

(* The files of the deleted rows, but not one a row that is left uses.     *)
Purge(S) == {PathOf(i) : i \in S} \ {PathOf(j) : j \in {x \in MItems : prow[x] # 0} \ S}

\* Mutant: the purge runs in a transaction without the job's context.
AnyContext == TRUE

PurgeContext == job.ctx = "live"

Run ==
    /\ job.pc = "purge" /\ PurgeContext
    /\ IF Blocked
       THEN /\ job' = [job EXCEPT !.pc = "ok", !.skipped = "yes"]
            /\ UNCHANGED <<prow, moves>>
       ELSE /\ prow' = [i \in MItems |-> IF i \in Drift THEN 0 ELSE prow[i]]
            /\ moves' = Purge(Drift)
            /\ job' = [job EXCEPT !.pc = "move"]
    /\ UNCHANGED <<kind, ups, pfile, want, fetch, keys, cut, changes, syncs>>

RunFails ==
    /\ job.pc = "purge"
    /\ fail
    /\ UNCHANGED <<kind, ups, prow, pfile, want, fetch, keys, moves, cut, changes, syncs>>

(* A file that cannot be moved stays, with a line in the log.              *)
ApplyPendingMove(p) ==
    /\ job.pc = "move" /\ p \in moves
    /\ moves' = moves \ {p}
    /\ \/ pfile' = [pfile EXCEPT ![p] = 0]
       \/ pfile' = pfile
    /\ UNCHANGED <<kind, ups, prow, job, want, fetch, keys, cut, changes, syncs>>

MovesDone ==
    /\ job.pc = "move" /\ moves = {}
    /\ job' = [job EXCEPT !.pc = "ok"]
    /\ UNCHANGED <<kind, ups, prow, pfile, want, fetch, keys, moves, cut, changes, syncs>>

MNext ==
    \/ \E i \in MItems, v \in Version : Upstream(i, v)
    \/ \E scope \in {"all", "part"}, hash, purge, force \in {"yes", "no"} :
         StartSync(scope, hash, purge, force)
    \/ Cancel \/ MCrash
    \/ RpmCollect \/ DebCollect \/ HelmCollect \/ OciCollect \/ ParseUpstreamSimpleIndex
    \/ PagesDone \/ ListFails
    \/ \E i \in MItems :
         \/ ParseUpstreamProject(i) \/ ProjectFails(i)
         \/ DownloadToTemp(i) \/ SkipFile(i) \/ FetchFails(i) \/ AlreadyThere(i)
         \/ commitMembership(i) \/ Replace(i)
         \/ RpmFetchAndCommit(i) \/ DebFetchAndCommit(i) \/ HelmFetchAndCommit(i)
         \/ PyPIFetchAndCommit(i) \/ fetchAndCommitOCI(i) \/ RollbackPlaced(i)
         \/ ApplyPendingMove(i)
    \/ RpmHandle \/ DebHandle \/ HelmHandle \/ OciHandle \/ PyPIHandle \/ HelmStops
    \/ Run \/ RunFails \/ MovesDone


-----------------------------------------------------------------------------
(* The purge never deletes the row of an item that the upstream lists in   *)
(* the part the job asked for, also when the listing was cut short by a    *)
(* cancelled context or an unreadable page; and unless it is forced, or    *)
(* the threshold is 0 (off), it never deletes more than the threshold's    *)
(* share of the rows (engine.go:184, 232; pypi/sync_handler.go:200).       *)
PurgeStep ==
    LET gone == {i \in MItems : prow[i] # 0 /\ prow'[i] = 0} IN
    gone # {} => /\ gone \cap job.known = {}
                 /\ \/ job.force = "yes" \/ Pct = 0
                    \/ Cardinality(gone) * 100 <= Pct * Cardinality(LocalRows)

(* A row of a mirror always has its file, with the digest of the row,      *)
(* through re-published contents, failed commits, purges of one of two     *)
(* suites and failed moves.  A crash between file and row is the exception *)
(* the next fetch of the path ends.                                        *)
MirrorFilesKept ==
    \A i \in MItems :
        /\ prow[i] # 0 /\ PathOf(i) \notin cut
        /\ \A j \in MItems : fetch[j].pc = "placed" => PathOf(j) # PathOf(i)
        => pfile[PathOf(i)] = prow[i]

(* A job that succeeds leaves the mirror equal to the listing: each listed *)
(* item has its row, at the listed digest if one was listed, and, if the   *)
(* purge was on and not blocked, each row left has a listed key.           *)
SyncedMatches ==
    job.pc = "ok" =>
        /\ \A i \in MItems :
             want[i] # 0 /\ ~errParseSkip(i) =>
                prow[i] # 0 /\ (job.hash = "yes" /\ kind # "oci" => prow[i] = want[i])
        /\ job.purge = "yes" /\ job.skipped = "no" => Drift = {}
=============================================================================
