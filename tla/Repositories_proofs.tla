-------------------------- MODULE Repositories_proofs --------------------------
(***************************************************************************)
(* Proofs about what fills and publishes repositories: mirror syncs and    *)
(* their purges, the package protocols, the walks through the lists of     *)
(* what they hold, and the indexes published from them.  They are parts of *)
(* module Services, as are the components of Services_proofs, and are laid *)
(* out in the same way: one inductive invariant for each.                  *)
(***************************************************************************)
EXTENDS Services, FiniteSetTheorems, WellFoundedInduction, TLAPS

\* The part that is on does not change, and takes every step.
LEMMA RepositorySteps ==
    ASSUME [Next]_vars
    PROVE  /\ part' = part
           /\ part = "packages" => K!Next \/ UNCHANGED kvars
           /\ part = "mirror" => Y!MNext \/ UNCHANGED yvars
           /\ part = "lists" => L!LNext \/ UNCHANGED lvars
           /\ part = "publish" => P!PNext \/ UNCHANGED pvars
<1>1. CASE UNCHANGED vars
  BY <1>1 DEF vars
<1>2. CASE Next
  BY <1>2 DEF Next
<1> QED
  BY <1>1, <1>2

-----------------------------------------------------------------------------
(* Mirror syncs.                                                           *)

JobRecord ==
    [pc : {"idle", "list", "pages", "fetch", "purge", "move", "ok", "failed"},
     scope : {"all", "part"}, hash : {"yes", "no"}, purge : {"yes", "no"},
     force : {"yes", "no"}, ctx : {"live", "done"}, errs : {"yes", "no"},
     pages : SUBSET MItems, known : SUBSET MItems, skipped : {"yes", "no"}]
FetchRecord == [pc : {"no", "todo", "got", "placed"}, v : Y!Version, old : Y!Version]

(* What may run in which phase of a job: workers only while it fetches (a  *)
(* PyPI job lists its files page by page), an error keeps a job from the   *)
(* purge, and pages left unread mean that the context is done.             *)
MirrorPhases ==
    /\ \A i \in MItems :
         /\ fetch[i].pc # "no" => job.pc \in {"pages", "fetch"}
         /\ fetch[i].pc \in {"got", "placed"} => job.pc = "fetch"
    /\ job.pc = "list" => job.pages = {} /\ job.known = {} /\ job.errs = "no" /\ \A i \in MItems : want[i] = 0
    /\ job.pc = "pages" => kind = "pypi"
    /\ job.pc \in {"purge", "move", "ok"} => job.errs = "no"
    /\ job.pc \in {"fetch", "purge"} /\ job.pages # {} => job.ctx = "done"
    /\ job.hash = "no" => kind \in {"helm", "pypi"}

(* What a worker holds was listed, is some content, and is the listed one  *)
(* where the listing names digests.                                        *)
FetchesListed ==
    \A i \in MItems :
        fetch[i].pc # "no" =>
            /\ want[i] # 0
            /\ fetch[i].pc # "todo" =>
                  /\ fetch[i].v # 0 /\ ~Y!errParseSkip(i)
                  /\ job.hash = "yes" /\ kind # "oci" => fetch[i].v = want[i]

(* Every listed item has its key among the listed ones, and a job without  *)
(* errors has listed what it knows of, but for the pages still to be read. *)
KeysWanted == \A i \in MItems : want[i] # 0 => Y!DriftKey(i, want[i]) \in keys
KeysNoted ==
    /\ KeysWanted
    /\ job.pc \in {"list", "pages", "fetch", "purge", "move", "ok"} /\ job.errs = "no" =>
          \A i \in job.known \ job.pages : want[i] # 0

(* A listed item no worker has to fetch any more is there, unless the job  *)
(* failed or its context stopped the workers.                              *)
ListedThere ==
    /\ job.pc \in {"pages", "fetch", "purge", "move", "ok"} /\ job.errs = "no"
    /\ job.pc = "fetch" => job.ctx = "live" \/ kind \notin {"helm", "oci"}
    => \A i \in MItems :
          want[i] # 0 /\ fetch[i].pc = "no" /\ ~Y!errParseSkip(i) =>
             prow[i] # 0 /\ (job.hash = "yes" /\ kind # "oci" => prow[i] = want[i])

(* Files that cannot be parsed are never stored.                           *)
SkippedAbsent == \A i \in MItems : Y!errParseSkip(i) => prow[i] = 0

(* After the purge no drift is left, and no row needs a file that is to    *)
(* be moved to the trash.                                                  *)
PurgeDone ==
    /\ job.pc = "move" \/ (job.pc = "ok" /\ job.purge = "yes" /\ job.skipped = "no") => Y!Drift = {}
    /\ job.pc = "move" => \A i \in MItems : Y!PathOf(i) \in moves => prow[i] = 0

(* A Debian pool file never changes.                                       *)
PoolImmutable ==
    kind = "deb" =>
        \A i \in MItems : ups[i] <= 1 /\ want[i] <= 1 /\ prow[i] <= 1 /\ fetch[i].v <= 1

(* One worker at a time replaces a path: it has put its file there and     *)
(* remembers the one the rows of the path describe.                        *)
PlacedOld ==
    \A i \in MItems :
        fetch[i].pc = "placed" =>
            /\ pfile[Y!PathOf(i)] = fetch[i].v
            /\ \A j \in MItems :
                 Y!PathOf(j) = Y!PathOf(i) =>
                    /\ fetch[j].pc = "placed" => j = i
                    /\ prow[j] # 0 /\ Y!PathOf(i) \notin cut => fetch[i].old = prow[j]

MirrorInv ==
    /\ Y!MTypeOK /\ MirrorPhases /\ FetchesListed /\ KeysNoted /\ ListedThere /\ SkippedAbsent
    /\ PurgeDone /\ PoolImmutable /\ PlacedOld /\ Y!MirrorFilesKept

LEMMA MirrorFacts ==
    /\ Y!Version = 0 .. MaxVersion /\ Y!Version \subseteq Nat /\ {0, 1} \subseteq Y!Version
    /\ Y!NoFetch \in FetchRecord /\ Y!NoFetch.pc = "no" /\ Y!NoFetch.v = 0
    /\ Y!NoJob \in JobRecord /\ Y!NoJob.pc = "idle" /\ Y!NoJob.errs = "no" /\ Y!NoJob.ctx = "live"
    /\ Y!NoJob.hash = "yes" /\ Y!NoJob.pages = {} /\ Y!NoJob.known = {}
<1>1. Y!Version = 0 .. MaxVersion /\ Y!Version \subseteq Nat /\ {0, 1} \subseteq Y!Version
  BY MirrorAssumption DEF Y!Version
<1>2. Y!NoFetch \in FetchRecord /\ Y!NoFetch.pc = "no" /\ Y!NoFetch.v = 0
  BY <1>1 DEF Y!NoFetch, FetchRecord
<1>3. /\ Y!NoJob \in JobRecord /\ Y!NoJob.pc = "idle" /\ Y!NoJob.errs = "no" /\ Y!NoJob.ctx = "live"
      /\ Y!NoJob.hash = "yes" /\ Y!NoJob.pages = {} /\ Y!NoJob.known = {}
  BY DEF Y!NoJob, JobRecord
<1> QED
  BY <1>1, <1>2, <1>3

LEMMA MirrorTypes ==
    ASSUME MirrorInv
    PROVE  /\ kind \in Y!Kinds
           /\ ups \in [MItems -> Y!Version] /\ prow \in [MItems -> Y!Version]
           /\ pfile \in [MItems -> Y!Version] /\ want \in [MItems -> Y!Version]
           /\ job \in JobRecord /\ fetch \in [MItems -> FetchRecord]
           /\ keys \subseteq MItems \X Y!Version /\ moves \subseteq MItems /\ cut \subseteq MItems
           /\ changes \in 0 .. MaxChanges /\ syncs \in 0 .. MaxSyncs
BY DEF MirrorInv, Y!MTypeOK, JobRecord, FetchRecord

LEMMA PathsFact == \A i \in MItems : Y!PathOf(i) \in MItems
BY MirrorAssumption DEF Y!PathOf, Y!Relative

\* Outside a Debian pool every item has a path of its own.
LEMMA PathsDistinct ==
    ASSUME kind # "deb" PROVE \A i \in MItems : Y!PathOf(i) = i
BY DEF Y!PathOf

LEMMA KeysFact == \A i \in MItems, v \in Y!Version : Y!DriftKey(i, v) \in MItems \X Y!Version
BY MirrorAssumption, MirrorFacts DEF Y!DriftKey, Y!Relative

\* What the kind, the filter and the digests of a listing decide.
LEMMA SameJobSame ==
    ASSUME kind' = kind, job'.hash = job.hash
    PROVE  /\ \A i : Y!PathOf(i)' = Y!PathOf(i)
           /\ \A i : Y!errParseSkip(i)' <=> Y!errParseSkip(i)
           /\ \A i, v : Y!DriftKey(i, v)' = Y!DriftKey(i, v)
BY DEF Y!PathOf, Y!errParseSkip, Y!DriftKey

LEMMA MirrorInit == ASSUME Y!MInit PROVE MirrorInv
<1>1. /\ kind \in Y!Kinds /\ ups \in [MItems -> {0, 1}]
      /\ prow = [i \in MItems |-> 0] /\ pfile = [i \in MItems |-> 0] /\ job = Y!NoJob
      /\ want = [i \in MItems |-> 0] /\ fetch = [i \in MItems |-> Y!NoFetch]
      /\ keys = {} /\ moves = {} /\ cut = {} /\ changes = 0 /\ syncs = 0
  BY DEF Y!MInit
<1>2. Y!MTypeOK
  <2>1. /\ job \in JobRecord /\ fetch \in [MItems -> FetchRecord]
        /\ ups \in [MItems -> Y!Version] /\ prow \in [MItems -> Y!Version]
        /\ pfile \in [MItems -> Y!Version] /\ want \in [MItems -> Y!Version]
    BY <1>1, MirrorFacts
  <2> QED
    BY <1>1, <2>1, MirrorAssumption DEF Y!MTypeOK, JobRecord, FetchRecord
<1>3. MirrorPhases /\ FetchesListed /\ KeysNoted /\ ListedThere /\ SkippedAbsent /\ PurgeDone
  BY <1>1, MirrorFacts DEF MirrorPhases, FetchesListed, KeysNoted, KeysWanted, ListedThere, SkippedAbsent,
       PurgeDone
<1>4. PoolImmutable /\ PlacedOld /\ Y!MirrorFilesKept
  BY <1>1, MirrorFacts DEF PoolImmutable, PlacedOld, Y!MirrorFilesKept
<1> QED
  BY <1>2, <1>3, <1>4 DEF MirrorInv

\* Files and rows stay as they are, and no worker places or takes back one.
LEMMA FilesSame ==
    ASSUME MirrorInv, UNCHANGED <<kind, prow, pfile, cut>>,
           \A i \in MItems : fetch'[i].pc = "placed" \/ fetch[i].pc = "placed" => fetch'[i] = fetch[i]
    PROVE  SkippedAbsent' /\ PlacedOld' /\ Y!MirrorFilesKept'
<1>1. \A i : /\ Y!PathOf(i)' = Y!PathOf(i)
             /\ Y!errParseSkip(i)' <=> Y!errParseSkip(i)
  BY DEF Y!PathOf, Y!errParseSkip
<1>2. SkippedAbsent'
  BY <1>1 DEF MirrorInv, SkippedAbsent
<1>3. PlacedOld'
  BY <1>1 DEF MirrorInv, PlacedOld
<1>4. Y!MirrorFilesKept'
  BY <1>1 DEF MirrorInv, Y!MirrorFilesKept
<1> QED
  BY <1>2, <1>3, <1>4

\* Only the job moves.
LEMMA JobOnly ==
    ASSUME MirrorInv, job' \in JobRecord, job'.hash = job.hash, job'.scope = job.scope,
           UNCHANGED <<kind, ups, prow, pfile, want, fetch, keys, moves, cut, changes, syncs>>
    PROVE  /\ Y!MTypeOK' /\ FetchesListed' /\ SkippedAbsent' /\ PoolImmutable' /\ PlacedOld'
           /\ Y!MirrorFilesKept'
           /\ KeysWanted'
           /\ Y!Drift' = Y!Drift
           /\ \A i : Y!PathOf(i)' = Y!PathOf(i)
           /\ \A i : Y!errParseSkip(i)' <=> Y!errParseSkip(i)
<1>1. Y!MTypeOK'
  BY MirrorTypes DEF Y!MTypeOK, JobRecord, FetchRecord
<1>2. FetchesListed'
  BY SameJobSame DEF MirrorInv, FetchesListed
<1>3. SkippedAbsent' /\ PlacedOld' /\ Y!MirrorFilesKept'
  BY FilesSame
<1>4. PoolImmutable'
  BY DEF MirrorInv, PoolImmutable
<1>5. KeysWanted'
  BY SameJobSame DEF MirrorInv, KeysNoted, KeysWanted
<1>6. Y!Drift' = Y!Drift
  BY DEF Y!Drift, Y!LocalRows, Y!Accept, Y!DriftKey
<1> QED
  BY <1>1, <1>2, <1>3, <1>4, <1>5, <1>6, SameJobSame

\* A job that ends without success is owed nothing.
LEMMA FailMirrorKeeps ==
    ASSUME MirrorInv, Y!fail, \A i \in MItems : fetch[i].pc = "no",
           UNCHANGED <<kind, ups, prow, pfile, want, fetch, keys, moves, cut, changes, syncs>>
    PROVE  MirrorInv'
<1>1. job' \in JobRecord /\ job'.hash = job.hash /\ job'.scope = job.scope /\ job'.pc = "failed"
  BY MirrorTypes DEF Y!fail, JobRecord
<1>2. MirrorPhases' /\ KeysNoted' /\ ListedThere' /\ PurgeDone'
  BY <1>1, JobOnly DEF MirrorInv, MirrorPhases, KeysNoted, ListedThere, PurgeDone
<1> QED
  BY <1>1, <1>2, JobOnly DEF MirrorInv

LEMMA CancelKeeps == ASSUME MirrorInv, Y!Cancel PROVE MirrorInv'
<1>1. /\ job' \in JobRecord /\ job'.hash = job.hash /\ job'.scope = job.scope /\ job'.pc = job.pc
      /\ job'.errs = job.errs /\ job'.pages = job.pages /\ job'.known = job.known
      /\ job'.purge = job.purge /\ job'.skipped = job.skipped /\ job.ctx = "live" /\ job'.ctx = "done"
      /\ UNCHANGED <<kind, ups, prow, pfile, want, fetch, keys, moves, cut, changes, syncs>>
  BY MirrorTypes DEF Y!Cancel, JobRecord
<1>2. MirrorPhases'
  BY <1>1 DEF MirrorInv, MirrorPhases
<1>3. KeysNoted'
  BY <1>1, JobOnly DEF MirrorInv, KeysNoted
<1>4. ListedThere'
  BY <1>1, SameJobSame DEF MirrorInv, ListedThere
<1>5. PurgeDone'
  BY <1>1, JobOnly DEF MirrorInv, PurgeDone
<1> QED
  BY <1>1, <1>2, <1>3, <1>4, <1>5, JobOnly DEF MirrorInv

LEMMA UpstreamKeeps ==
    ASSUME MirrorInv, NEW i \in MItems, NEW v \in Y!Version, Y!Upstream(i, v) PROVE MirrorInv'
<1>1. /\ changes < MaxChanges /\ (kind = "deb" => v <= 1)
      /\ ups' = [ups EXCEPT ![i] = v] /\ changes' = changes + 1
      /\ UNCHANGED <<kind, prow, pfile, job, want, fetch, keys, moves, cut, syncs>>
  BY DEF Y!Upstream
<1>2. Y!MTypeOK'
  <2>1. changes' \in 0 .. MaxChanges /\ ups' \in [MItems -> Y!Version]
    BY <1>1, MirrorTypes, MirrorAssumption
  <2> QED
    BY <1>1, <2>1, MirrorTypes DEF Y!MTypeOK, JobRecord, FetchRecord
<1>3. MirrorPhases' /\ FetchesListed'
  BY <1>1, SameJobSame DEF MirrorInv, MirrorPhases, FetchesListed
<1>4. KeysNoted'
  BY <1>1, SameJobSame DEF MirrorInv, KeysNoted, KeysWanted
<1>5. ListedThere'
  BY <1>1, SameJobSame DEF MirrorInv, ListedThere
<1>6. PurgeDone'
  BY <1>1, SameJobSame DEF MirrorInv, PurgeDone, Y!Drift, Y!LocalRows, Y!Accept
<1>7. PoolImmutable'
  BY <1>1, MirrorTypes DEF MirrorInv, PoolImmutable
<1> QED
  BY <1>1, <1>2, <1>3, <1>4, <1>5, <1>6, <1>7, FilesSame DEF MirrorInv

LEMMA StartSyncKeeps ==
    ASSUME MirrorInv, NEW scope \in {"all", "part"}, NEW hash \in {"yes", "no"},
           NEW purge \in {"yes", "no"}, NEW force \in {"yes", "no"},
           Y!StartSync(scope, hash, purge, force)
    PROVE  MirrorInv'
<1>1. /\ job.pc \in {"idle", "ok", "failed"} /\ syncs < MaxSyncs
      /\ (hash = "no" => kind \in {"helm", "pypi"})
      /\ syncs' = syncs + 1 /\ want' = [i \in MItems |-> 0] /\ keys' = {} /\ moves' = {}
      /\ UNCHANGED <<kind, ups, prow, pfile, fetch, cut, changes>>
  BY DEF Y!StartSync
<1>2. /\ job' \in JobRecord /\ job'.pc = "list" /\ job'.hash = hash /\ job'.pages = {}
      /\ job'.known = {} /\ job'.errs = "no"
  BY MirrorFacts DEF Y!StartSync, Y!NoJob, JobRecord
<1>3. \A i \in MItems : fetch[i].pc = "no" /\ want'[i] = 0
  BY <1>1, MirrorTypes DEF MirrorInv, MirrorPhases, FetchRecord
<1>4. Y!MTypeOK'
  <2>1. syncs' \in 0 .. MaxSyncs /\ want' \in [MItems -> Y!Version]
    BY <1>1, MirrorTypes, MirrorAssumption, MirrorFacts
  <2> QED
    BY <1>1, <1>2, <2>1, MirrorTypes DEF Y!MTypeOK, JobRecord, FetchRecord
<1>5. MirrorPhases' /\ FetchesListed' /\ KeysNoted' /\ ListedThere' /\ PurgeDone'
  BY <1>1, <1>2, <1>3 DEF MirrorPhases, FetchesListed, KeysNoted, KeysWanted, ListedThere, PurgeDone
<1>6. PoolImmutable'
  BY <1>1, <1>3 DEF MirrorInv, PoolImmutable
<1> QED
  BY <1>1, <1>4, <1>5, <1>6, FilesSame DEF MirrorInv

LEMMA ListFailsKeeps == ASSUME MirrorInv, Y!ListFails PROVE MirrorInv'
<1>1. \A i \in MItems : fetch[i].pc = "no"
  BY MirrorTypes DEF Y!ListFails, MirrorInv, MirrorPhases, FetchRecord
<1> QED
  BY <1>1, FailMirrorKeeps DEF Y!ListFails, Y!ListFrame

LEMMA RunFailsKeeps == ASSUME MirrorInv, Y!RunFails PROVE MirrorInv'
<1>1. \A i \in MItems : fetch[i].pc = "no"
  BY MirrorTypes DEF Y!RunFails, MirrorInv, MirrorPhases, FetchRecord
<1> QED
  BY <1>1, FailMirrorKeeps DEF Y!RunFails

\* The entries S of the upstream are listed; those of T are there already.
LEMMA ListedKeeps ==
    ASSUME MirrorInv, NEW S \in SUBSET MItems, NEW T, Y!Listed(S, T),
           UNCHANGED <<kind, ups, prow, pfile, moves, cut, changes, syncs>>,
           job.pc \in {"list", "pages"}, job' \in JobRecord, job'.hash = job.hash,
           job'.pc \in {"pages", "fetch"}, job'.pc = "pages" => kind = "pypi",
           job'.pc = "fetch" => job'.pages = {}, job'.errs = job.errs,
           job'.known \ job'.pages \subseteq (job.known \ job.pages) \cup S,
           \A i \in S : ups[i] # 0,
           \A i \in S \cap T : prow[i] # 0 /\ (job.hash = "yes" /\ kind # "oci" => prow[i] = ups[i])
    PROVE  MirrorInv'
<1>1. PICK todo1 : todo1 = [Y!NoFetch EXCEPT !.pc = "todo"]
  OBVIOUS
<1>2. todo1 \in FetchRecord /\ todo1.pc = "todo" /\ todo1.v = 0
  BY <1>1, MirrorFacts DEF FetchRecord, Y!NoFetch
<1>3. /\ keys' = keys \cup {Y!DriftKey(i, ups[i]) : i \in S}
      /\ want' = [i \in MItems |-> IF i \in S THEN ups[i] ELSE want[i]]
      /\ fetch' = [i \in MItems |-> IF i \in S \ T THEN todo1 ELSE fetch[i]]
  BY <1>1 DEF Y!Listed
<1>4. /\ want' \in [MItems -> Y!Version] /\ fetch' \in [MItems -> FetchRecord]
      /\ \A i \in MItems : want'[i] = IF i \in S THEN ups[i] ELSE want[i]
      /\ \A i \in MItems : fetch'[i] = IF i \in S \ T THEN todo1 ELSE fetch[i]
  BY <1>2, <1>3, MirrorTypes
<1>5. \A i \in MItems : fetch[i].pc \in {"no", "todo"} /\ fetch'[i].pc \in {"no", "todo"}
  BY <1>2, <1>4, MirrorTypes DEF MirrorInv, MirrorPhases, FetchRecord
<1>6. Y!MTypeOK'
  <2>1. keys' \subseteq MItems \X Y!Version
    BY <1>3, MirrorTypes, KeysFact
  <2> QED
    BY <1>4, <2>1, MirrorTypes DEF Y!MTypeOK, JobRecord, FetchRecord
<1>7. MirrorPhases'
  <2>1. \A i \in MItems : fetch'[i].pc # "no" => job'.pc = "pages" \/ job'.pc = "fetch"
    OBVIOUS
  <2> QED
    BY <1>5, <2>1 DEF MirrorInv, MirrorPhases
<1>8. FetchesListed'
  BY <1>2, <1>4, <1>5 DEF MirrorInv, FetchesListed
<1>9. KeysNoted'
  <2>1. KeysWanted'
    BY <1>3, <1>4, SameJobSame DEF MirrorInv, KeysNoted, KeysWanted
  <2>2. ASSUME job'.errs = "no", NEW i \in job'.known \ job'.pages PROVE want'[i] # 0
    <3>1. i \in MItems
      BY DEF JobRecord
    <3>2. i \in S \/ i \in job.known \ job.pages
      BY <2>2
    <3> QED
      BY <1>4, <2>2, <3>1, <3>2 DEF MirrorInv, KeysNoted
  <2> QED
    BY <2>1, <2>2 DEF KeysNoted
<1>10. ListedThere'
  <2>1. SUFFICES ASSUME job'.errs = "no", NEW i \in MItems, want'[i] # 0, fetch'[i].pc = "no",
                        ~Y!errParseSkip(i)
                 PROVE  prow[i] # 0 /\ (job.hash = "yes" /\ kind # "oci" => prow[i] = want'[i])
    BY SameJobSame DEF ListedThere
  <2>2. CASE i \in S
    BY <1>2, <1>4, <2>1, <2>2
  <2>3. CASE i \notin S
    <3>1. want[i] # 0 /\ fetch[i].pc = "no" /\ want'[i] = want[i]
      BY <1>4, <2>1, <2>3
    <3>2. job.pc = "pages"
      BY <3>1 DEF MirrorInv, MirrorPhases
    <3> QED
      BY <2>1, <3>1, <3>2 DEF MirrorInv, ListedThere
  <2> QED
    BY <2>2, <2>3
<1>11. PurgeDone'
  BY DEF PurgeDone
<1>12. PoolImmutable'
  BY <1>2, <1>4 DEF MirrorInv, PoolImmutable
<1>13. SkippedAbsent' /\ PlacedOld' /\ Y!MirrorFilesKept'
  BY <1>5, FilesSame
<1> QED
  BY <1>6, <1>7, <1>8, <1>9, <1>10, <1>11, <1>12, <1>13 DEF MirrorInv

\* A job that lists the upstream in one step.
LEMMA CollectKeeps ==
    ASSUME MirrorInv, NEW S \in SUBSET MItems, NEW T, Y!Listed(S, T), Y!ToFetch(S), Y!ListFrame,
           job.pc = "list", \A i \in S : ups[i] # 0,
           \A i \in S \cap T : prow[i] = ups[i]
    PROVE  MirrorInv'
<1>1. /\ job' \in JobRecord /\ job'.hash = job.hash /\ job'.pc = "fetch" /\ job'.pages = job.pages
      /\ job'.errs = job.errs /\ job'.known = S
  BY MirrorTypes DEF Y!ToFetch, JobRecord
<1>2. job.pages = {}
  BY DEF MirrorInv, MirrorPhases
<1> QED
  BY <1>1, <1>2, ListedKeeps DEF Y!ListFrame

LEMMA CollectsKeep ==
    ASSUME MirrorInv, Y!RpmCollect \/ Y!DebCollect \/ Y!HelmCollect \/ Y!OciCollect
    PROVE  MirrorInv'
<1>1. CASE Y!RpmCollect
  <2>1. Y!RpmParseUpstream \in SUBSET MItems /\ \A i \in Y!RpmParseUpstream : ups[i] # 0
    BY DEF Y!RpmParseUpstream
  <2> QED
    BY <1>1, <2>1, CollectKeeps DEF Y!RpmCollect, Y!Listing
<1>2. CASE Y!DebCollect
  <2>1. Y!DebParseUpstream \in SUBSET MItems /\ \A i \in Y!DebParseUpstream : ups[i] # 0
    BY DEF Y!DebParseUpstream
  <2> QED
    BY <1>2, <2>1, CollectKeeps DEF Y!DebCollect, Y!Listing
<1>3. CASE Y!HelmCollect
  <2>1. Y!HelmParseUpstream \in SUBSET MItems /\ \A i \in Y!HelmParseUpstream : ups[i] # 0
    BY DEF Y!HelmParseUpstream
  <2> QED
    BY <1>3, <2>1, CollectKeeps DEF Y!HelmCollect, Y!Listing
<1>4. CASE Y!OciCollect
  <2>1. Y!ParseOCIUpstream \in SUBSET MItems /\ \A i \in Y!ParseOCIUpstream : ups[i] # 0
    BY DEF Y!ParseOCIUpstream
  <2> QED
    BY <1>4, <2>1, CollectKeeps DEF Y!OciCollect, Y!Listing
<1> QED
  BY <1>1, <1>2, <1>3, <1>4

LEMMA SimpleIndexKeeps == ASSUME MirrorInv, Y!ParseUpstreamSimpleIndex PROVE MirrorInv'
<1> DEFINE projects == {i \in MItems : ups[i] # 0 /\ Y!Accept(i)}
<1>1. /\ kind = "pypi" /\ job.pc = "list"
      /\ job' = [job EXCEPT !.pc = "pages", !.pages = projects, !.known = projects]
      /\ UNCHANGED <<kind, ups, prow, pfile, want, fetch, keys, moves, cut, changes, syncs>>
  BY DEF Y!ParseUpstreamSimpleIndex, Y!Listing, Y!ListFrame
<1>2. /\ job' \in JobRecord /\ job'.hash = job.hash /\ job'.scope = job.scope
      /\ job'.pc = "pages" /\ job'.pages = job'.known /\ job'.errs = job.errs
  <2>1. projects \in SUBSET MItems
    OBVIOUS
  <2> HIDE DEF projects
  <2> QED
    BY <1>1, <2>1, MirrorTypes DEF JobRecord
<1>3. MirrorPhases'
  BY <1>1, <1>2 DEF MirrorInv, MirrorPhases
<1>4. KeysNoted'
  BY <1>2, <1>1, JobOnly DEF KeysNoted
<1>5. ListedThere' /\ PurgeDone'
  BY <1>1, <1>2 DEF MirrorInv, MirrorPhases, ListedThere, PurgeDone
<1> QED
  BY <1>1, <1>2, <1>3, <1>4, <1>5, JobOnly DEF MirrorInv

LEMMA PageKeeps ==
    ASSUME MirrorInv, NEW i \in MItems, Y!ParseUpstreamProject(i) PROVE MirrorInv'
<1>1. /\ job.pc = "pages" /\ i \in job.pages
      /\ UNCHANGED <<kind, ups, prow, pfile, moves, cut, changes, syncs>>
  BY DEF Y!ParseUpstreamProject, Y!ListFrame
<1>2. CASE ups[i] # 0
  <2> DEFINE T == {x \in {i} : prow[x] # 0 /\ (job.hash = "no" \/ prow[x] = ups[x])}
  <2>1. Y!Listed({i}, T) /\ job' = [job EXCEPT !.pages = @ \ {i}]
    BY <1>2 DEF Y!ParseUpstreamProject
  <2>2. /\ job' \in JobRecord /\ job'.hash = job.hash /\ job'.pc = "pages"
        /\ job'.pages = job.pages \ {i} /\ job'.known = job.known /\ job'.errs = job.errs
    BY <1>1, <2>1, MirrorTypes DEF JobRecord
  <2>3. /\ \A x \in {i} : ups[x] # 0
        /\ \A x \in {i} \cap T : prow[x] # 0 /\ (job.hash = "yes" /\ kind # "oci" => prow[x] = ups[x])
        /\ job'.known \ job'.pages \subseteq (job.known \ job.pages) \cup {i}
        /\ kind = "pypi" /\ {i} \in SUBSET MItems
    BY <1>1, <1>2, <2>2 DEF MirrorInv, MirrorPhases
  <2> HIDE DEF T
  <2> QED
    BY <1>1, <2>1, <2>2, <2>3, ListedKeeps
<1>3. CASE ups[i] = 0
  <2>1. job' = [job EXCEPT !.pages = @ \ {i}, !.known = @ \ {i}] /\ UNCHANGED <<want, fetch, keys>>
    BY <1>3 DEF Y!ParseUpstreamProject
  <2>2. /\ job' \in JobRecord /\ job'.hash = job.hash /\ job'.scope = job.scope
        /\ job'.pc = "pages" /\ job'.pages = job.pages \ {i} /\ job'.known = job.known \ {i}
        /\ job'.errs = job.errs
    BY <1>1, <2>1, MirrorTypes DEF JobRecord
  <2>3. MirrorPhases'
    BY <1>1, <2>1, <2>2 DEF MirrorInv, MirrorPhases
  <2>4. KeysNoted'
    <3>1. job'.known \ job'.pages \subseteq job.known \ job.pages
      BY <2>2
    <3> QED
      BY <1>1, <2>1, <2>2, <3>1, JobOnly DEF MirrorInv, KeysNoted
  <2>5. ListedThere' /\ PurgeDone'
    BY <1>1, <2>1, <2>2, SameJobSame DEF MirrorInv, ListedThere, PurgeDone
  <2> QED
    BY <1>1, <2>1, <2>2, <2>3, <2>4, <2>5, JobOnly DEF MirrorInv
<1> QED
  BY <1>2, <1>3

LEMMA PageFailsKeeps ==
    ASSUME MirrorInv, NEW i \in MItems, Y!ProjectFails(i) PROVE MirrorInv'
<1>1. /\ job.pc = "pages" /\ job' = [job EXCEPT !.pages = @ \ {i}, !.errs = "yes"]
      /\ UNCHANGED <<kind, ups, prow, pfile, want, fetch, keys, moves, cut, changes, syncs>>
  BY DEF Y!ProjectFails, Y!ListFrame
<1>2. /\ job' \in JobRecord /\ job'.hash = job.hash /\ job'.scope = job.scope /\ job'.pc = "pages"
      /\ job'.errs = "yes"
  BY <1>1, MirrorTypes DEF JobRecord
<1>3. MirrorPhases' /\ KeysNoted' /\ ListedThere' /\ PurgeDone'
  BY <1>1, <1>2, JobOnly DEF MirrorInv, MirrorPhases, KeysNoted, ListedThere, PurgeDone
<1> QED
  BY <1>1, <1>2, <1>3, JobOnly DEF MirrorInv

LEMMA PagesDoneKeeps == ASSUME MirrorInv, Y!PagesDone PROVE MirrorInv'
<1>1. /\ job.pc = "pages" /\ (job.pages = {} \/ job.ctx = "done")
      /\ job' = [job EXCEPT !.pc = "fetch"]
      /\ UNCHANGED <<kind, ups, prow, pfile, want, fetch, keys, moves, cut, changes, syncs>>
  BY DEF Y!PagesDone, Y!ListFrame
<1>2. /\ job' \in JobRecord /\ job'.hash = job.hash /\ job'.scope = job.scope /\ job'.pc = "fetch"
      /\ job'.errs = job.errs /\ job'.pages = job.pages /\ job'.known = job.known
      /\ job'.ctx = job.ctx
  BY <1>1, MirrorTypes DEF JobRecord
<1>3. MirrorPhases'
  BY <1>1, <1>2 DEF MirrorInv, MirrorPhases
<1>4. KeysNoted' /\ PurgeDone'
  BY <1>1, <1>2, JobOnly DEF MirrorInv, KeysNoted, PurgeDone
<1>5. ListedThere'
  BY <1>1, <1>2, SameJobSame DEF MirrorInv, ListedThere
<1> QED
  BY <1>1, <1>2, <1>3, <1>4, <1>5, JobOnly DEF MirrorInv

LEMMA FinishKeeps ==
    ASSUME MirrorInv, NEW k, NEW failed \in BOOLEAN, Y!Finish(k, failed),
           job.errs = "yes" => failed,
           kind \in {"helm", "oci"} /\ job.ctx = "done" => failed
    PROVE  MirrorInv'
<1>1. /\ job.pc = "fetch" /\ \A i \in MItems : fetch[i].pc = "no"
      /\ job' = [job EXCEPT !.pc = IF failed THEN "failed"
                                   ELSE IF job.purge = "yes" THEN "purge" ELSE "ok"]
      /\ UNCHANGED <<kind, ups, prow, pfile, want, fetch, keys, moves, cut, changes, syncs>>
  BY DEF Y!Finish, Y!AllFetched
<1>2. CASE failed
  BY <1>1, <1>2, FailMirrorKeeps DEF Y!fail
<1>3. CASE ~failed
  <2>1. /\ job' \in JobRecord /\ job'.hash = job.hash /\ job'.scope = job.scope
        /\ job'.pc \in {"purge", "ok"} /\ (job'.pc = "ok" => job'.purge # "yes")
        /\ job'.errs = job.errs /\ job'.pages = job.pages /\ job'.known = job.known
        /\ job'.ctx = job.ctx /\ job.errs = "no"
    BY <1>1, <1>3, MirrorTypes DEF JobRecord
  <2>2. MirrorPhases'
    BY <1>1, <2>1 DEF MirrorInv, MirrorPhases
  <2>3. KeysNoted' /\ PurgeDone'
    BY <1>1, <2>1, JobOnly DEF MirrorInv, KeysNoted, PurgeDone
  <2>4. ListedThere'
    <3>1. job.ctx = "live" \/ kind \notin {"helm", "oci"}
      BY <1>3, MirrorTypes DEF JobRecord
    <3> QED
      BY <1>1, <2>1, <3>1, SameJobSame DEF MirrorInv, ListedThere
  <2> QED
    BY <1>1, <2>1, <2>2, <2>3, <2>4, JobOnly DEF MirrorInv
<1> QED
  BY <1>2, <1>3

LEMMA HandlesKeep ==
    ASSUME MirrorInv,
           Y!RpmHandle \/ Y!DebHandle \/ Y!PyPIHandle \/ Y!OciHandle \/ Y!HelmHandle
    PROVE  MirrorInv'
<1>1. CASE Y!RpmHandle \/ Y!DebHandle \/ Y!PyPIHandle
  <2>1. kind \notin {"helm", "oci"}
    BY <1>1 DEF Y!RpmHandle, Y!DebHandle, Y!PyPIHandle, Y!Finish
  <2> QED
    BY <1>1, <2>1, FinishKeeps DEF Y!RpmHandle, Y!DebHandle, Y!PyPIHandle
<1>2. CASE Y!OciHandle \/ Y!HelmHandle
  BY <1>2, FinishKeeps DEF Y!OciHandle, Y!HelmHandle
<1> QED
  BY <1>1, <1>2

\* A worker moves item i on, to r: what this owes to the listing.
LEMMA WorkerMoves ==
    ASSUME MirrorInv, NEW i \in MItems, NEW r \in FetchRecord, job.pc = "fetch",
           fetch' = [fetch EXCEPT ![i] = r], Y!FetchFrame,
           job' = job \/ job' = [job EXCEPT !.errs = "yes"],
           NEW d \in Y!Version, prow' = [prow EXCEPT ![i] = d],
           pfile' \in [MItems -> Y!Version], cut' \subseteq MItems,
           r.pc # "no" =>
              /\ want[i] # 0
              /\ r.pc # "todo" =>
                    /\ r.v # 0 /\ ~Y!errParseSkip(i)
                    /\ job.hash = "yes" /\ kind # "oci" => r.v = want[i],
           d # prow[i] => d # 0 /\ ~Y!errParseSkip(i),
           r.pc = "no" /\ job'.errs = "no" /\ (job.ctx = "live" \/ kind \notin {"helm", "oci"}) =>
              \/ Y!errParseSkip(i)
              \/ d # 0 /\ (job.hash = "yes" /\ kind # "oci" => d = want[i]),
           kind = "deb" => d <= 1 /\ r.v <= 1
    PROVE  /\ Y!MTypeOK' /\ MirrorPhases' /\ FetchesListed' /\ KeysNoted' /\ ListedThere'
           /\ SkippedAbsent' /\ PurgeDone' /\ PoolImmutable'
<1>1. UNCHANGED <<kind, ups, want, keys, moves, changes, syncs>>
  BY DEF Y!FetchFrame
<1>2. /\ job' \in JobRecord /\ job'.hash = job.hash /\ job'.scope = job.scope /\ job'.pc = "fetch"
      /\ job'.pages = job.pages /\ job'.known = job.known /\ job'.ctx = job.ctx
      /\ (job'.errs = "no" => job' = job /\ job.errs = "no")
  BY MirrorTypes DEF JobRecord
<1>3. /\ fetch' \in [MItems -> FetchRecord] /\ prow' \in [MItems -> Y!Version]
      /\ fetch'[i] = r /\ \A j \in MItems : j # i => fetch'[j] = fetch[j]
      /\ prow'[i] = d /\ \A j \in MItems : j # i => prow'[j] = prow[j]
  BY MirrorTypes
<1>4. Y!MTypeOK'
  BY <1>1, <1>2, <1>3, MirrorTypes DEF Y!MTypeOK, JobRecord, FetchRecord
<1>5. MirrorPhases'
  BY <1>1, <1>2 DEF MirrorInv, MirrorPhases
<1>6. FetchesListed'
  BY <1>1, <1>2, <1>3, SameJobSame DEF MirrorInv, FetchesListed
<1>7. KeysNoted'
  <2>1. KeysWanted'
    BY <1>1, <1>2, SameJobSame DEF MirrorInv, KeysNoted, KeysWanted
  <2> QED
    BY <1>1, <1>2, <2>1 DEF MirrorInv, KeysNoted
<1>8. ListedThere'
  <2>1. SUFFICES ASSUME job'.errs = "no", job.ctx = "live" \/ kind \notin {"helm", "oci"},
                        NEW j \in MItems, want[j] # 0, fetch'[j].pc = "no", ~Y!errParseSkip(j)
                 PROVE  prow'[j] # 0 /\ (job.hash = "yes" /\ kind # "oci" => prow'[j] = want[j])
    BY <1>1, <1>2, SameJobSame DEF ListedThere
  <2>2. CASE j = i
    BY <1>2, <1>3, <2>1, <2>2
  <2>3. CASE j # i
    BY <1>2, <1>3, <2>1, <2>3 DEF MirrorInv, ListedThere
  <2> QED
    BY <2>2, <2>3
<1>9. SkippedAbsent'
  <2>1. SUFFICES ASSUME NEW j \in MItems, Y!errParseSkip(j) PROVE prow'[j] = 0
    BY <1>1, <1>2, SameJobSame DEF SkippedAbsent
  <2> QED
    BY <1>3, <2>1 DEF MirrorInv, SkippedAbsent
<1>10. PurgeDone'
  BY <1>2 DEF PurgeDone
<1>11. PoolImmutable'
  BY <1>1, <1>3 DEF MirrorInv, PoolImmutable
<1> QED
  BY <1>4, <1>5, <1>6, <1>7, <1>8, <1>9, <1>10, <1>11

\* A worker moves on without touching rows and files.
LEMMA WorkerKeeps ==
    ASSUME MirrorInv, NEW i \in MItems, NEW r \in FetchRecord, job.pc = "fetch",
           fetch' = [fetch EXCEPT ![i] = r], Y!FetchFrame, UNCHANGED <<prow, pfile, cut>>,
           job' = job \/ job' = [job EXCEPT !.errs = "yes"],
           fetch[i].pc # "placed", r.pc # "placed",
           r.pc # "no" =>
              /\ want[i] # 0
              /\ r.pc # "todo" =>
                    /\ r.v # 0 /\ ~Y!errParseSkip(i)
                    /\ job.hash = "yes" /\ kind # "oci" => r.v = want[i],
           r.pc = "no" /\ job'.errs = "no" /\ (job.ctx = "live" \/ kind \notin {"helm", "oci"}) =>
              \/ Y!errParseSkip(i)
              \/ prow[i] # 0 /\ (job.hash = "yes" /\ kind # "oci" => prow[i] = want[i]),
           kind = "deb" => r.v <= 1
    PROVE  MirrorInv'
<1>1. PICK d \in Y!Version : d = prow[i]
  BY MirrorTypes
<1>2. /\ prow' = [prow EXCEPT ![i] = d] /\ pfile' \in [MItems -> Y!Version] /\ cut' \subseteq MItems
      /\ (kind = "deb" => d <= 1)
  BY <1>1, MirrorTypes DEF MirrorInv, PoolImmutable
<1>3. /\ Y!MTypeOK' /\ MirrorPhases' /\ FetchesListed' /\ KeysNoted' /\ ListedThere'
      /\ SkippedAbsent' /\ PurgeDone' /\ PoolImmutable'
  BY <1>1, <1>2, WorkerMoves
<1>4. PlacedOld' /\ Y!MirrorFilesKept'
  <2>1. kind' = kind
    BY DEF Y!FetchFrame
  <2>2. \A j \in MItems : fetch'[j].pc = "placed" \/ fetch[j].pc = "placed" => fetch'[j] = fetch[j]
    BY MirrorTypes
  <2> QED
    BY <2>1, <2>2, FilesSame
<1> QED
  BY <1>3, <1>4 DEF MirrorInv

\* A worker is done with item i.
LEMMA WorkerEnds ==
    ASSUME MirrorInv, NEW i \in MItems, job.pc = "fetch",
           Y!FetchEnds(i), Y!FetchFrame, UNCHANGED <<prow, pfile, cut>>,
           job' = job \/ job' = [job EXCEPT !.errs = "yes"], fetch[i].pc # "placed",
           job'.errs = "no" /\ (job.ctx = "live" \/ kind \notin {"helm", "oci"}) =>
              \/ Y!errParseSkip(i)
              \/ prow[i] # 0 /\ (job.hash = "yes" /\ kind # "oci" => prow[i] = want[i])
    PROVE  MirrorInv'
<1>1. PICK r \in FetchRecord : r = Y!NoFetch
  BY MirrorFacts
<1>2. r.pc = "no" /\ r.v <= 1
  BY <1>1, MirrorFacts
<1>3. fetch' = [fetch EXCEPT ![i] = r]
  BY <1>1 DEF Y!FetchEnds
<1> QED
  BY <1>2, <1>3, WorkerKeeps

\* A worker gives up: the job has an error.
LEMMA WorkerFails ==
    ASSUME MirrorInv, NEW i \in MItems, job.pc = "fetch",
           Y!FetchEnds(i), Y!FetchFrame, UNCHANGED <<prow, pfile, cut>>,
           job' = [job EXCEPT !.errs = "yes"], fetch[i].pc # "placed"
    PROVE  MirrorInv'
<1>1. job'.errs = "yes"
  BY MirrorTypes DEF JobRecord
<1> QED
  BY <1>1, WorkerEnds

LEMMA FetchDownloadKeeps ==
    ASSUME MirrorInv, NEW i \in MItems, Y!DownloadToTemp(i) PROVE MirrorInv'
<1>1. /\ job.pc = "fetch" /\ fetch[i].pc = "todo" /\ ~Y!errParseSkip(i)
      /\ UNCHANGED <<prow, pfile, cut>> /\ Y!FetchFrame
  BY DEF Y!DownloadToTemp
<1>2. CASE ups[i] # 0 /\ (ups[i] = want[i] \/ job.hash = "no" \/ kind = "oci")
  <2>1. PICK r : r = [pc |-> "got", v |-> ups[i], old |-> 0]
    OBVIOUS
  <2>2. r \in FetchRecord /\ r.pc = "got" /\ r.v = ups[i]
    BY <2>1, MirrorTypes, MirrorFacts DEF FetchRecord
  <2>3. fetch' = [fetch EXCEPT ![i] = r] /\ job' = job
    BY <1>2, <2>1 DEF Y!DownloadToTemp
  <2>4. want[i] # 0 /\ (kind = "deb" => r.v <= 1)
    BY <1>1, <2>2 DEF MirrorInv, FetchesListed, PoolImmutable
  <2> QED
    BY <1>1, <1>2, <2>2, <2>3, <2>4, WorkerKeeps
<1>3. CASE ~(ups[i] # 0 /\ (ups[i] = want[i] \/ job.hash = "no" \/ kind = "oci"))
  BY <1>1, <1>3, WorkerFails DEF Y!DownloadToTemp
<1> QED
  BY <1>2, <1>3

LEMMA SkipFileKeeps ==
    ASSUME MirrorInv, NEW i \in MItems, Y!SkipFile(i) PROVE MirrorInv'
<1>1. /\ job.pc = "fetch" /\ fetch[i].pc = "todo" /\ Y!errParseSkip(i) /\ job' = job
      /\ Y!FetchEnds(i) /\ UNCHANGED <<prow, pfile, cut>> /\ Y!FetchFrame
  BY DEF Y!SkipFile
<1> QED
  BY <1>1, WorkerEnds

LEMMA FetchFailsKeeps ==
    ASSUME MirrorInv, NEW i \in MItems, Y!FetchFails(i) PROVE MirrorInv'
BY WorkerFails DEF Y!FetchFails

LEMMA AlreadyThereKeeps ==
    ASSUME MirrorInv, NEW i \in MItems, Y!AlreadyThere(i) PROVE MirrorInv'
<1>1. /\ fetch[i].pc = "got" /\ prow[i] = fetch[i].v /\ job' = job
      /\ Y!FetchEnds(i) /\ UNCHANGED <<prow, pfile, cut>> /\ Y!FetchFrame
  BY DEF Y!AlreadyThere
<1>2. job.pc = "fetch" /\ fetch[i].v # 0 /\ (job.hash = "yes" /\ kind # "oci" => fetch[i].v = want[i])
  BY <1>1 DEF MirrorInv, MirrorPhases, FetchesListed
<1> QED
  BY <1>1, <1>2, WorkerEnds

\* The row of a Debian package whose file another suite's row describes.
LEMMA MembershipKeeps ==
    ASSUME MirrorInv, NEW i \in MItems, Y!commitMembership(i) PROVE MirrorInv'
<1>1. /\ kind = "deb" /\ prow' = [prow EXCEPT ![i] = want[i]]
      /\ \/ fetch[i].pc = "got" /\ Y!FindByDigest(i, fetch[i].v)
         \/ job.pc = "fetch" /\ fetch[i].pc = "todo" /\ Y!FindByDigest(i, want[i])
      /\ fetch' = [fetch EXCEPT ![i] = Y!NoFetch] /\ job' = job
      /\ UNCHANGED <<pfile, cut>> /\ Y!FetchFrame
  BY DEF Y!commitMembership, Y!FetchEnds
<1>2. /\ job.pc = "fetch" /\ fetch[i].pc # "placed" /\ want[i] # 0 /\ job.hash = "yes"
      /\ Y!FindByDigest(i, want[i]) /\ ~Y!errParseSkip(i) /\ want[i] <= 1
  <2>1. job.hash = "yes" /\ ~Y!errParseSkip(i)
    BY <1>1, MirrorTypes DEF MirrorInv, MirrorPhases, JobRecord, Y!errParseSkip
  <2> QED
    BY <1>1, <2>1 DEF MirrorInv, MirrorPhases, FetchesListed, PoolImmutable
<1>3. PICK x \in MItems : Y!PathOf(x) = Y!PathOf(i) /\ prow[x] = want[i]
  BY <1>2 DEF Y!FindByDigest
<1>4. PICK d \in Y!Version, r \in FetchRecord : d = want[i] /\ r = Y!NoFetch
  BY MirrorTypes, MirrorFacts
<1>5. r.pc = "no" /\ r.v <= 1 /\ fetch' = [fetch EXCEPT ![i] = r] /\ prow' = [prow EXCEPT ![i] = d]
  BY <1>1, <1>4, MirrorFacts
<1>6. /\ Y!MTypeOK' /\ MirrorPhases' /\ FetchesListed' /\ KeysNoted' /\ ListedThere'
      /\ SkippedAbsent' /\ PurgeDone' /\ PoolImmutable'
  <2>1. pfile' \in [MItems -> Y!Version] /\ cut' \subseteq MItems
    BY <1>1, MirrorTypes
  <2> QED
    BY <1>1, <1>2, <1>4, <1>5, <2>1, WorkerMoves
<1>7. /\ \A j : Y!PathOf(j)' = Y!PathOf(j)
      /\ \A j \in MItems : /\ fetch'[j].pc = "placed" <=> fetch[j].pc = "placed"
                           /\ fetch[j].pc = "placed" => fetch'[j] = fetch[j]
      /\ prow'[i] = prow[x] /\ prow[x] # 0 /\ \A j \in MItems : j # i => prow'[j] = prow[j]
  <2>1. kind' = kind
    BY <1>1 DEF Y!FetchFrame
  <2> QED
    BY <2>1, <1>1, <1>2, <1>3, <1>4, <1>5, MirrorTypes DEF Y!PathOf
<1>8. PlacedOld'
  BY <1>1, <1>3, <1>7 DEF MirrorInv, PlacedOld
<1>9. Y!MirrorFilesKept'
  BY <1>1, <1>3, <1>7 DEF MirrorInv, Y!MirrorFilesKept
<1> QED
  BY <1>6, <1>8, <1>9 DEF MirrorInv

\* The lock of the path: no other worker has placed a file there, so the
\* file it replaces is the one the rows describe.
LEMMA ReplaceMirrorKeeps ==
    ASSUME MirrorInv, NEW i \in MItems, Y!Replace(i) PROVE MirrorInv'
<1> DEFINE p == Y!PathOf(i)
<1>1. /\ fetch[i].pc = "got" /\ prow[i] # fetch[i].v
      /\ \A j \in MItems : fetch[j].pc = "placed" => Y!PathOf(j) # p
      /\ pfile' = [pfile EXCEPT ![p] = fetch[i].v]
      /\ fetch' = [fetch EXCEPT ![i] = [pc |-> "placed", v |-> fetch[i].v, old |-> pfile[p]]]
      /\ UNCHANGED <<prow, cut, job>> /\ Y!FetchFrame
  BY DEF Y!Replace
<1>2. /\ job.pc = "fetch" /\ want[i] # 0 /\ fetch[i].v # 0 /\ ~Y!errParseSkip(i)
      /\ (job.hash = "yes" /\ kind # "oci" => fetch[i].v = want[i])
      /\ (kind = "deb" => fetch[i].v <= 1 /\ prow[i] <= 1)
  BY <1>1 DEF MirrorInv, MirrorPhases, FetchesListed, PoolImmutable
<1>3. PICK r : r = [pc |-> "placed", v |-> fetch[i].v, old |-> pfile[p]]
  OBVIOUS
<1>4. /\ r \in FetchRecord /\ r.pc = "placed" /\ r.v = fetch[i].v /\ r.old = pfile[p]
      /\ p \in MItems
  BY <1>3, MirrorTypes, PathsFact DEF FetchRecord
<1>5. fetch' = [fetch EXCEPT ![i] = r]
  BY <1>1, <1>3
<1>6. PICK d \in Y!Version : d = prow[i]
  BY MirrorTypes
<1>7. /\ Y!MTypeOK' /\ MirrorPhases' /\ FetchesListed' /\ KeysNoted' /\ ListedThere'
      /\ SkippedAbsent' /\ PurgeDone' /\ PoolImmutable'
  <2>1. /\ pfile' \in [MItems -> Y!Version] /\ cut' \subseteq MItems
        /\ prow' = [prow EXCEPT ![i] = d]
    BY <1>1, <1>4, <1>6, MirrorTypes DEF FetchRecord
  <2>2. /\ want[i] # 0 /\ r.v # 0 /\ r.pc # "no" /\ ~Y!errParseSkip(i)
        /\ (job.hash = "yes" /\ kind # "oci" => r.v = want[i])
        /\ (kind = "deb" => d <= 1 /\ r.v <= 1)
    BY <1>2, <1>4, <1>6
  <2>3. job' = job /\ Y!FetchFrame
    BY <1>1
  <2> HIDE DEF p
  <2> QED
    BY <1>2, <1>4, <1>5, <1>6, <2>1, <2>2, <2>3, WorkerMoves
<1>8. /\ \A j : Y!PathOf(j)' = Y!PathOf(j)
      /\ fetch'[i] = r /\ \A j \in MItems : j # i => fetch'[j] = fetch[j]
      /\ pfile'[p] = fetch[i].v /\ \A q \in MItems : q # p => pfile'[q] = pfile[q]
      /\ \A j \in MItems : Y!PathOf(j) \in MItems
      /\ UNCHANGED <<prow, cut>>
  <2>1. kind' = kind
    BY <1>1 DEF Y!FetchFrame
  <2>2. \A j : Y!PathOf(j)' = Y!PathOf(j)
    BY <2>1 DEF Y!PathOf
  <2> HIDE DEF p
  <2> QED
    BY <2>2, <1>1, <1>4, <1>5, MirrorTypes, PathsFact
<1> HIDE DEF p
<1>9. \A j \in MItems : Y!PathOf(j) = p /\ prow[j] # 0 /\ p \notin cut => pfile[p] = prow[j]
  BY <1>1 DEF MirrorInv, Y!MirrorFilesKept
<1>10. PlacedOld'
  <2>1. SUFFICES ASSUME NEW k \in MItems, fetch'[k].pc = "placed"
                 PROVE  /\ pfile'[Y!PathOf(k)] = fetch'[k].v
                        /\ \A j \in MItems :
                              Y!PathOf(j) = Y!PathOf(k) =>
                                 /\ fetch'[j].pc = "placed" => j = k
                                 /\ prow[j] # 0 /\ Y!PathOf(k) \notin cut => fetch'[k].old = prow[j]
    BY <1>8 DEF PlacedOld
  <2>2. CASE k = i
    BY <1>1, <1>4, <1>8, <1>9, <2>2 DEF p
  <2>3. CASE k # i
    <3>1. fetch[k].pc = "placed" /\ fetch'[k] = fetch[k] /\ Y!PathOf(k) # p
      BY <1>1, <1>8, <2>1, <2>3
    <3> QED
      BY <1>8, <3>1 DEF MirrorInv, PlacedOld, p
  <2> QED
    BY <2>2, <2>3
<1>11. Y!MirrorFilesKept'
  <2>1. SUFFICES ASSUME NEW k \in MItems, prow[k] # 0, Y!PathOf(k) \notin cut,
                        \A j \in MItems : fetch'[j].pc = "placed" => Y!PathOf(j) # Y!PathOf(k)
                 PROVE  pfile'[Y!PathOf(k)] = prow[k]
    BY <1>8 DEF Y!MirrorFilesKept
  <2>2. Y!PathOf(k) # p
    BY <1>4, <1>8, <2>1 DEF p
  <2>3. \A j \in MItems : fetch[j].pc = "placed" => Y!PathOf(j) # Y!PathOf(k)
    BY <1>1, <1>8, <2>1
  <2> QED
    BY <1>8, <2>1, <2>2, <2>3 DEF MirrorInv, Y!MirrorFilesKept
<1> QED
  BY <1>7, <1>10, <1>11 DEF MirrorInv

\* What the end of a Replace leaves: rows of the path agree with its file.
LEMMA PlacedEnds ==
    ASSUME MirrorInv, NEW i \in MItems, fetch[i].pc = "placed", Y!FetchEnds(i), kind' = kind,
           \A j \in MItems : j # i => prow'[j] = prow[j],
           \A q \in MItems : q # Y!PathOf(i) => pfile'[q] = pfile[q] /\ (q \in cut' <=> q \in cut),
           Y!PathOf(i) \notin cut' =>
              \A j \in MItems : Y!PathOf(j) = Y!PathOf(i) /\ prow'[j] # 0 => pfile'[Y!PathOf(i)] = prow'[j]
    PROVE  PlacedOld' /\ Y!MirrorFilesKept'
<1>1. \A j : Y!PathOf(j)' = Y!PathOf(j)
  BY DEF Y!PathOf
<1>2. fetch'[i].pc = "no" /\ \A j \in MItems : j # i => fetch'[j] = fetch[j]
  BY MirrorTypes, MirrorFacts DEF Y!FetchEnds
<1>3. \A j \in MItems : j # i /\ fetch[j].pc = "placed" => Y!PathOf(j) # Y!PathOf(i)
  BY DEF MirrorInv, PlacedOld
<1>4. PlacedOld'
  <2>1. SUFFICES ASSUME NEW k \in MItems, fetch'[k].pc = "placed"
                 PROVE  /\ pfile'[Y!PathOf(k)] = fetch'[k].v
                        /\ \A j \in MItems :
                              Y!PathOf(j) = Y!PathOf(k) =>
                                 /\ fetch'[j].pc = "placed" => j = k
                                 /\ prow'[j] # 0 /\ Y!PathOf(k) \notin cut' => fetch'[k].old = prow'[j]
    BY <1>1 DEF PlacedOld
  <2>2. k # i /\ fetch'[k] = fetch[k] /\ fetch[k].pc = "placed" /\ Y!PathOf(k) # Y!PathOf(i)
    BY <1>2, <1>3, <2>1
  <2> QED
    BY <1>2, <2>2, PathsFact DEF MirrorInv, PlacedOld
<1>5. Y!MirrorFilesKept'
  <2>1. SUFFICES ASSUME NEW k \in MItems, prow'[k] # 0, Y!PathOf(k) \notin cut',
                        \A j \in MItems : fetch'[j].pc = "placed" => Y!PathOf(j) # Y!PathOf(k)
                 PROVE  pfile'[Y!PathOf(k)] = prow'[k]
    BY <1>1 DEF Y!MirrorFilesKept
  <2>2. CASE Y!PathOf(k) = Y!PathOf(i)
    BY <2>1, <2>2
  <2>3. CASE Y!PathOf(k) # Y!PathOf(i)
    <3>1. \A j \in MItems : fetch[j].pc = "placed" => Y!PathOf(j) # Y!PathOf(k)
      BY <1>2, <2>1, <2>3
    <3> QED
      BY <2>1, <2>3, <3>1, PathsFact DEF MirrorInv, Y!MirrorFilesKept
  <2> QED
    BY <2>2, <2>3
<1> QED
  BY <1>4, <1>5

LEMMA CommitRowKeeps ==
    ASSUME MirrorInv, NEW i \in MItems, NEW k, Y!CommitRow(i, k) PROVE MirrorInv'
<1>1. /\ fetch[i].pc = "placed" /\ prow' = [prow EXCEPT ![i] = fetch[i].v]
      /\ cut' = cut \ {Y!PathOf(i)} /\ Y!FetchEnds(i)
      /\ UNCHANGED <<pfile, job>> /\ Y!FetchFrame
  BY DEF Y!CommitRow
<1>2. /\ job.pc = "fetch" /\ fetch[i].v # 0 /\ ~Y!errParseSkip(i)
      /\ (job.hash = "yes" /\ kind # "oci" => fetch[i].v = want[i])
      /\ (kind = "deb" => fetch[i].v <= 1)
      /\ pfile[Y!PathOf(i)] = fetch[i].v
  BY <1>1 DEF MirrorInv, MirrorPhases, FetchesListed, PoolImmutable, PlacedOld
<1>3. PICK d \in Y!Version, r \in FetchRecord : d = fetch[i].v /\ r = Y!NoFetch
  BY MirrorTypes, MirrorFacts DEF FetchRecord
<1>4. r.pc = "no" /\ r.v <= 1 /\ fetch' = [fetch EXCEPT ![i] = r] /\ prow' = [prow EXCEPT ![i] = d]
  BY <1>1, <1>3, MirrorFacts DEF Y!FetchEnds
<1>5. /\ Y!MTypeOK' /\ MirrorPhases' /\ FetchesListed' /\ KeysNoted' /\ ListedThere'
      /\ SkippedAbsent' /\ PurgeDone' /\ PoolImmutable'
  <2>1. pfile' \in [MItems -> Y!Version] /\ cut' \subseteq MItems
    BY <1>1, MirrorTypes
  <2> QED
    BY <1>1, <1>2, <1>3, <1>4, <2>1, WorkerMoves
<1>6. PlacedOld' /\ Y!MirrorFilesKept'
  <2>1. kind' = kind
    BY <1>1 DEF Y!FetchFrame
  <2>2. prow'[i] = fetch[i].v /\ \A j \in MItems : j # i => prow'[j] = prow[j]
    BY <1>1, MirrorTypes
  <2>3. ASSUME NEW j \in MItems, Y!PathOf(j) = Y!PathOf(i), prow'[j] # 0
        PROVE  pfile'[Y!PathOf(i)] = prow'[j]
    <3>1. CASE j = i
      BY <1>1, <1>2, <2>2, <3>1
    <3>2. CASE j # i
      <4>1. kind = "deb"
        BY <2>3, <3>2, PathsDistinct
      <4>2. prow[j] \in Nat /\ fetch[i].v \in Nat /\ prow[j] <= 1 /\ fetch[i].v <= 1
        BY <4>1, MirrorTypes, MirrorFacts DEF MirrorInv, PoolImmutable, FetchRecord
      <4> QED
        BY <1>1, <1>2, <2>2, <2>3, <3>2, <4>2
    <3> QED
      BY <3>1, <3>2
  <2>4. \A q \in MItems : q # Y!PathOf(i) => pfile'[q] = pfile[q] /\ (q \in cut' <=> q \in cut)
    BY <1>1
  <2> QED
    BY <1>1, <2>1, <2>2, <2>3, <2>4, PlacedEnds
<1> QED
  BY <1>5, <1>6 DEF MirrorInv

LEMMA PlacedRollbackKeeps ==
    ASSUME MirrorInv, NEW i \in MItems, Y!RollbackPlaced(i) PROVE MirrorInv'
<1> DEFINE p == Y!PathOf(i)
<1>1. /\ fetch[i].pc = "placed" /\ Y!FetchEnds(i) /\ job' = [job EXCEPT !.errs = "yes"]
      /\ prow' = prow /\ Y!FetchFrame
      /\ \/ pfile' = [pfile EXCEPT ![p] = fetch[i].old] /\ cut' = cut
         \/ pfile' = [pfile EXCEPT ![p] = 0] /\ cut' = cut \cup {p}
  BY DEF Y!RollbackPlaced
<1>2. PICK d \in Y!Version, r \in FetchRecord : d = prow[i] /\ r = Y!NoFetch
  BY MirrorTypes, MirrorFacts DEF FetchRecord
<1>3. p \in MItems /\ fetch[i].old \in Y!Version /\ 0 \in Y!Version
  BY MirrorTypes, MirrorFacts, PathsFact DEF FetchRecord
<1>4. /\ r.pc = "no" /\ r.v <= 1 /\ fetch' = [fetch EXCEPT ![i] = r]
      /\ prow' = [prow EXCEPT ![i] = d] /\ (kind = "deb" => d <= 1)
      /\ job.pc = "fetch" /\ job'.errs = "yes"
  BY <1>1, <1>2, MirrorTypes, MirrorFacts
     DEF Y!FetchEnds, MirrorInv, MirrorPhases, PoolImmutable, JobRecord
<1> HIDE DEF p
<1>5. /\ Y!MTypeOK' /\ MirrorPhases' /\ FetchesListed' /\ KeysNoted' /\ ListedThere'
      /\ SkippedAbsent' /\ PurgeDone' /\ PoolImmutable'
  <2>1. pfile' \in [MItems -> Y!Version] /\ cut' \subseteq MItems
    BY <1>1, <1>3, MirrorTypes
  <2> QED
    BY <1>1, <1>2, <1>4, <2>1, WorkerMoves
<1>6. PlacedOld' /\ Y!MirrorFilesKept'
  <2>1. kind' = kind
    BY <1>1 DEF Y!FetchFrame
  <2>2. ASSUME p \notin cut', NEW j \in MItems, Y!PathOf(j) = p, prow'[j] # 0
        PROVE  pfile'[p] = prow'[j]
    <3>1. p \notin cut /\ pfile'[p] = fetch[i].old
      BY <1>1, <1>3, <2>2, MirrorTypes
    <3> QED
      BY <1>1, <2>2, <3>1 DEF MirrorInv, PlacedOld, p
  <2>3. \A q \in MItems : q # p => pfile'[q] = pfile[q] /\ (q \in cut' <=> q \in cut)
    BY <1>1, MirrorTypes
  <2>4. \A j \in MItems : j # i => prow'[j] = prow[j]
    BY <1>1
  <2> QED
    BY <1>1, <2>1, <2>2, <2>3, <2>4, PlacedEnds DEF p
<1> QED
  BY <1>5, <1>6 DEF MirrorInv

LEMMA HelmStopsKeeps == ASSUME MirrorInv, Y!HelmStops PROVE MirrorInv'
<1>1. /\ kind \in {"helm", "oci"} /\ job.pc = "fetch" /\ job.ctx = "done" /\ job' = job
      /\ fetch' = [i \in MItems |-> IF fetch[i].pc = "todo" THEN Y!NoFetch ELSE fetch[i]]
      /\ UNCHANGED <<prow, pfile, cut>>
      /\ UNCHANGED <<kind, ups, want, keys, moves, changes, syncs>>
  BY DEF Y!HelmStops, Y!FetchFrame
<1>2. /\ fetch' \in [MItems -> FetchRecord]
      /\ \A i \in MItems : fetch'[i] = IF fetch[i].pc = "todo" THEN Y!NoFetch ELSE fetch[i]
  BY <1>1, MirrorTypes, MirrorFacts
<1>3. Y!MTypeOK'
  BY <1>1, <1>2, MirrorTypes DEF Y!MTypeOK, JobRecord, FetchRecord
<1>4. MirrorPhases' /\ ListedThere' /\ PurgeDone' /\ PoolImmutable'
  BY <1>1 DEF MirrorInv, MirrorPhases, ListedThere, PurgeDone, PoolImmutable
<1>5. FetchesListed'
  BY <1>1, <1>2, MirrorFacts, SameJobSame DEF MirrorInv, FetchesListed
<1>6. KeysNoted'
  BY <1>1, SameJobSame DEF MirrorInv, KeysNoted, KeysWanted
<1>7. SkippedAbsent' /\ PlacedOld' /\ Y!MirrorFilesKept'
  <2>1. \A i \in MItems : fetch'[i].pc = "placed" \/ fetch[i].pc = "placed" => fetch'[i] = fetch[i]
    BY <1>2, MirrorFacts
  <2> QED
    BY <1>1, <2>1, FilesSame
<1> QED
  BY <1>3, <1>4, <1>5, <1>6, <1>7 DEF MirrorInv

\* A crash separates the files that are in place from their rows.
LEMMA MirrorCrashes == ASSUME MirrorInv, Y!MCrash PROVE MirrorInv'
<1>1. /\ cut' = cut \cup {Y!PathOf(i) : i \in {x \in MItems : fetch[x].pc = "placed"}}
      /\ job' = [job EXCEPT !.pc = "failed"] /\ fetch' = [i \in MItems |-> Y!NoFetch]
      /\ UNCHANGED <<kind, ups, prow, pfile, want, keys, moves, changes, syncs>>
  BY DEF Y!MCrash
<1>2. job' \in JobRecord /\ job'.hash = job.hash /\ job'.pc = "failed"
  BY <1>1, MirrorTypes DEF JobRecord
<1>3. fetch' \in [MItems -> FetchRecord] /\ \A i \in MItems : fetch'[i].pc = "no" /\ fetch'[i].v = 0
  BY <1>1, MirrorFacts
<1>4. Y!MTypeOK'
  <2>1. cut' \subseteq MItems
    BY <1>1, MirrorTypes, PathsFact
  <2> QED
    BY <1>1, <1>2, <1>3, <2>1, MirrorTypes DEF Y!MTypeOK, JobRecord, FetchRecord
<1>5. MirrorPhases'
  BY <1>1, <1>2, <1>3 DEF MirrorInv, MirrorPhases
<1>6. FetchesListed' /\ ListedThere' /\ PurgeDone' /\ PlacedOld'
  BY <1>2, <1>3 DEF FetchesListed, ListedThere, PurgeDone, PlacedOld
<1>7. KeysNoted'
  BY <1>1, <1>2, SameJobSame DEF MirrorInv, KeysNoted, KeysWanted
<1>8. SkippedAbsent' /\ PoolImmutable'
  BY <1>1, <1>2, <1>3, SameJobSame DEF MirrorInv, SkippedAbsent, PoolImmutable
<1>9. Y!MirrorFilesKept'
  <2>1. SUFFICES ASSUME NEW k \in MItems, prow[k] # 0, Y!PathOf(k) \notin cut'
                 PROVE  pfile[Y!PathOf(k)] = prow[k]
    BY <1>1, <1>2, SameJobSame DEF Y!MirrorFilesKept
  <2>2. Y!PathOf(k) \notin cut /\ \A j \in MItems : fetch[j].pc = "placed" => Y!PathOf(j) # Y!PathOf(k)
    BY <1>1, <2>1
  <2> QED
    BY <2>1, <2>2 DEF MirrorInv, Y!MirrorFilesKept
<1> QED
  BY <1>4, <1>5, <1>6, <1>7, <1>8, <1>9 DEF MirrorInv

\* What is listed is no drift: its key is noted, and where the key holds the
\* digest the row has the listed one.
LEMMA ListedIsNoDrift ==
    ASSUME MirrorInv, job.pc = "purge"
    PROVE  \A i \in MItems : want[i] # 0 => i \notin Y!Drift
<1> SUFFICES ASSUME NEW i \in MItems, want[i] # 0, prow[i] # 0
             PROVE  Y!DriftKey(i, prow[i]) \in keys
  BY DEF Y!Drift, Y!LocalRows
<1>1. job.errs = "no" /\ fetch[i].pc = "no" /\ ~Y!errParseSkip(i)
  BY DEF MirrorInv, MirrorPhases, SkippedAbsent
<1>2. job.hash = "yes" /\ kind # "oci" => prow[i] = want[i]
  BY <1>1 DEF MirrorInv, ListedThere
<1>3. Y!DriftKey(i, want[i]) \in keys
  BY DEF MirrorInv, KeysNoted, KeysWanted
<1>4. Y!DriftKey(i, prow[i]) = Y!DriftKey(i, want[i])
  BY <1>2 DEF Y!DriftKey
<1> QED
  BY <1>3, <1>4

LEMMA RunKeeps == ASSUME MirrorInv, Y!Run PROVE MirrorInv'
<1>1. job.pc = "purge" /\ UNCHANGED <<kind, ups, pfile, want, fetch, keys, cut, changes, syncs>>
  BY DEF Y!Run
<1>2. CASE Y!Blocked
  <2>1. job' = [job EXCEPT !.pc = "ok", !.skipped = "yes"] /\ UNCHANGED <<prow, moves>>
    BY <1>2 DEF Y!Run
  <2>2. /\ job' \in JobRecord /\ job'.hash = job.hash /\ job'.scope = job.scope
        /\ job'.pc = "ok" /\ job'.skipped = "yes"
        /\ job'.errs = job.errs /\ job'.pages = job.pages /\ job'.known = job.known
    BY <2>1, MirrorTypes DEF JobRecord
  <2>3. MirrorPhases'
    BY <1>1, <2>2 DEF MirrorInv, MirrorPhases
  <2>4. KeysNoted' /\ PurgeDone'
    BY <1>1, <2>1, <2>2, JobOnly DEF MirrorInv, KeysNoted, PurgeDone
  <2>5. ListedThere'
    BY <1>1, <2>1, <2>2, SameJobSame DEF MirrorInv, ListedThere
  <2> QED
    BY <1>1, <2>1, <2>2, <2>3, <2>4, <2>5, JobOnly DEF MirrorInv
<1>3. CASE ~Y!Blocked
  <2>1. /\ prow' = [i \in MItems |-> IF i \in Y!Drift THEN 0 ELSE prow[i]]
        /\ moves' = Y!Purge(Y!Drift) /\ job' = [job EXCEPT !.pc = "move"]
    BY <1>3 DEF Y!Run
  <2>2. /\ job' \in JobRecord /\ job'.hash = job.hash /\ job'.scope = job.scope /\ job'.pc = "move"
        /\ job'.errs = job.errs /\ job'.pages = job.pages /\ job'.known = job.known
    BY <2>1, MirrorTypes DEF JobRecord
  <2>3. /\ prow' \in [MItems -> Y!Version]
        /\ \A i \in MItems : prow'[i] = IF i \in Y!Drift THEN 0 ELSE prow[i]
    BY <2>1, MirrorTypes, MirrorFacts
  <2>4. Y!Drift \subseteq MItems
    BY DEF Y!Drift, Y!LocalRows
  <2>5. Y!MTypeOK'
    <3>1. moves' \subseteq MItems
      BY <2>1, <2>4, PathsFact DEF Y!Purge
    <3> QED
      BY <1>1, <2>2, <2>3, <3>1, MirrorTypes DEF Y!MTypeOK, JobRecord, FetchRecord
  <2>6. MirrorPhases'
    BY <1>1, <2>2 DEF MirrorInv, MirrorPhases
  <2>7. FetchesListed' /\ KeysNoted'
    BY <1>1, <2>2, SameJobSame DEF MirrorInv, FetchesListed, KeysNoted, KeysWanted
  <2>8. ListedThere'
    <3>1. SUFFICES ASSUME job.errs = "no", NEW i \in MItems, want[i] # 0, fetch[i].pc = "no",
                          ~Y!errParseSkip(i)
                   PROVE  prow'[i] # 0 /\ (job.hash = "yes" /\ kind # "oci" => prow'[i] = want[i])
      BY <1>1, <2>2, SameJobSame DEF ListedThere
    <3>2. prow'[i] = prow[i]
      BY <1>1, <2>3, <3>1, ListedIsNoDrift
    <3> QED
      BY <1>1, <3>1, <3>2 DEF MirrorInv, ListedThere
  <2>9. SkippedAbsent' /\ PoolImmutable'
    <3>1. SkippedAbsent'
      BY <1>1, <2>2, <2>3, SameJobSame DEF MirrorInv, SkippedAbsent
    <3>2. PoolImmutable'
      BY <1>1, <2>3 DEF MirrorInv, PoolImmutable
    <3> QED
      BY <3>1, <3>2
  <2>10. PurgeDone'
    <3>1. Y!Drift' = {}
      <4>1. SUFFICES ASSUME NEW i \in Y!Drift' PROVE FALSE
        OBVIOUS
      <4>2. /\ i \in MItems /\ prow'[i] # 0 /\ (kind = "deb" => Y!Accept(i))
            /\ Y!DriftKey(i, prow'[i]) \notin keys
        BY <1>1, <2>2, <4>1 DEF Y!Drift, Y!LocalRows, Y!Accept, Y!DriftKey
      <4>3. i \notin Y!Drift /\ prow'[i] = prow[i]
        BY <2>3, <4>2
      <4> QED
        BY <4>2, <4>3 DEF Y!Drift, Y!LocalRows
    <3>2. ASSUME NEW i \in MItems, Y!PathOf(i) \in moves' PROVE prow'[i] = 0
      <4>1. Y!PathOf(i) \notin {Y!PathOf(j) : j \in {x \in MItems : prow[x] # 0} \ Y!Drift}
        BY <2>1, <3>2 DEF Y!Purge
      <4>2. prow[i] = 0 \/ i \in Y!Drift
        BY <4>1
      <4> QED
        BY <2>3, <4>2
    <3> QED
      BY <1>1, <2>2, <3>1, <3>2, SameJobSame DEF PurgeDone
  <2>11. PlacedOld'
    BY <1>1, <2>2 DEF MirrorInv, MirrorPhases, PlacedOld
  <2>12. Y!MirrorFilesKept'
    <3>1. \A i \in MItems : prow'[i] # 0 => prow'[i] = prow[i]
      BY <2>3
    <3> QED
      BY <1>1, <2>2, <3>1, SameJobSame DEF MirrorInv, Y!MirrorFilesKept
  <2> QED
    BY <2>5, <2>6, <2>7, <2>8, <2>9, <2>10, <2>11, <2>12 DEF MirrorInv
<1> QED
  BY <1>2, <1>3

LEMMA MoveKeeps == ASSUME MirrorInv, NEW p \in MItems, Y!ApplyPendingMove(p) PROVE MirrorInv'
<1>1. /\ job.pc = "move" /\ p \in moves /\ moves' = moves \ {p}
      /\ pfile' = [pfile EXCEPT ![p] = 0] \/ pfile' = pfile
      /\ UNCHANGED <<kind, ups, prow, job, want, fetch, keys, cut, changes, syncs>>
  BY DEF Y!ApplyPendingMove
<1>2. pfile' \in [MItems -> Y!Version] /\ \A q \in MItems : q # p => pfile'[q] = pfile[q]
  BY <1>1, MirrorTypes, MirrorFacts
<1>3. Y!MTypeOK'
  BY <1>1, <1>2, MirrorTypes DEF Y!MTypeOK, JobRecord, FetchRecord
<1>4. MirrorPhases' /\ FetchesListed' /\ SkippedAbsent' /\ PoolImmutable'
  BY <1>1, SameJobSame DEF MirrorInv, MirrorPhases, FetchesListed, SkippedAbsent, PoolImmutable
<1>5. KeysNoted' /\ ListedThere'
  BY <1>1, SameJobSame DEF MirrorInv, KeysNoted, KeysWanted, ListedThere
<1>6. PurgeDone'
  BY <1>1, SameJobSame DEF MirrorInv, PurgeDone, Y!Drift, Y!LocalRows, Y!Accept
<1>7. PlacedOld'
  BY <1>1 DEF MirrorInv, MirrorPhases, PlacedOld
<1>8. Y!MirrorFilesKept'
  <2>1. \A i \in MItems : prow[i] # 0 => Y!PathOf(i) # p
    BY <1>1 DEF MirrorInv, PurgeDone
  <2> QED
    BY <1>1, <1>2, <2>1, SameJobSame, PathsFact DEF MirrorInv, Y!MirrorFilesKept
<1> QED
  BY <1>3, <1>4, <1>5, <1>6, <1>7, <1>8 DEF MirrorInv

LEMMA MovesDoneKeeps == ASSUME MirrorInv, Y!MovesDone PROVE MirrorInv'
<1>1. /\ job.pc = "move" /\ job' = [job EXCEPT !.pc = "ok"]
      /\ UNCHANGED <<kind, ups, prow, pfile, want, fetch, keys, moves, cut, changes, syncs>>
  BY DEF Y!MovesDone
<1>2. /\ job' \in JobRecord /\ job'.hash = job.hash /\ job'.scope = job.scope /\ job'.pc = "ok"
      /\ job'.errs = job.errs /\ job'.pages = job.pages /\ job'.known = job.known
  BY <1>1, MirrorTypes DEF JobRecord
<1>3. MirrorPhases'
  BY <1>1, <1>2 DEF MirrorInv, MirrorPhases
<1>4. KeysNoted' /\ PurgeDone'
  BY <1>1, <1>2, JobOnly DEF MirrorInv, KeysNoted, PurgeDone
<1>5. ListedThere'
  BY <1>1, <1>2, SameJobSame DEF MirrorInv, ListedThere
<1> QED
  BY <1>1, <1>2, <1>3, <1>4, <1>5, JobOnly DEF MirrorInv

LEMMA MirrorStep == ASSUME MirrorInv, Y!MNext \/ UNCHANGED yvars PROVE MirrorInv'
<1>1. CASE UNCHANGED yvars
  <2>1. UNCHANGED <<kind, ups, prow, pfile, job, want, fetch, keys, moves, cut, changes, syncs>>
    BY <1>1 DEF yvars
  <2>2. MirrorPhases' /\ ListedThere'
    BY <2>1, SameJobSame DEF MirrorInv, MirrorPhases, ListedThere
  <2>3. KeysNoted' /\ PurgeDone'
    BY <2>1, JobOnly, MirrorTypes DEF MirrorInv, KeysNoted, PurgeDone
  <2> QED
    BY <2>1, <2>2, <2>3, JobOnly, MirrorTypes DEF MirrorInv
<1>2. CASE \/ \E i \in MItems, v \in Y!Version : Y!Upstream(i, v)
           \/ \E scope \in {"all", "part"}, hash, purge, force \in {"yes", "no"} :
                 Y!StartSync(scope, hash, purge, force)
           \/ Y!Cancel \/ Y!MCrash
  BY <1>2, UpstreamKeeps, StartSyncKeeps, CancelKeeps, MirrorCrashes
<1>3. CASE \/ Y!RpmCollect \/ Y!DebCollect \/ Y!HelmCollect \/ Y!OciCollect
           \/ Y!ParseUpstreamSimpleIndex \/ Y!PagesDone \/ Y!ListFails
  BY <1>3, CollectsKeep, SimpleIndexKeeps, PagesDoneKeeps, ListFailsKeeps
<1>4. CASE \E i \in MItems :
             \/ Y!ParseUpstreamProject(i) \/ Y!ProjectFails(i)
             \/ Y!DownloadToTemp(i) \/ Y!SkipFile(i) \/ Y!FetchFails(i) \/ Y!AlreadyThere(i)
             \/ Y!commitMembership(i) \/ Y!Replace(i) \/ Y!RollbackPlaced(i)
             \/ Y!ApplyPendingMove(i)
  BY <1>4, PageKeeps, PageFailsKeeps, FetchDownloadKeeps, SkipFileKeeps, FetchFailsKeeps,
     AlreadyThereKeeps, MembershipKeeps, ReplaceMirrorKeeps, PlacedRollbackKeeps, MoveKeeps
<1>5. CASE \E i \in MItems :
             \/ Y!RpmFetchAndCommit(i) \/ Y!DebFetchAndCommit(i) \/ Y!HelmFetchAndCommit(i)
             \/ Y!PyPIFetchAndCommit(i) \/ Y!fetchAndCommitOCI(i)
  BY <1>5, CommitRowKeeps DEF Y!RpmFetchAndCommit, Y!DebFetchAndCommit, Y!HelmFetchAndCommit,
     Y!PyPIFetchAndCommit, Y!fetchAndCommitOCI
<1>6. CASE \/ Y!RpmHandle \/ Y!DebHandle \/ Y!HelmHandle \/ Y!OciHandle \/ Y!PyPIHandle
           \/ Y!HelmStops \/ Y!Run \/ Y!RunFails \/ Y!MovesDone
  BY <1>6, HandlesKeep, HelmStopsKeeps, RunKeeps, RunFailsKeeps, MovesDoneKeeps
<1> QED
  BY <1>1, <1>2, <1>3, <1>4, <1>5, <1>6 DEF Y!MNext

LEMMA MirrorShows == ASSUME MirrorInv PROVE Y!MTypeOK /\ Y!SyncedMatches /\ Y!MirrorFilesKept
<1>1. ASSUME job.pc = "ok" PROVE job.errs = "no" /\ \A i \in MItems : fetch[i].pc = "no"
  BY <1>1 DEF MirrorInv, MirrorPhases
<1>2. Y!SyncedMatches
  BY <1>1 DEF MirrorInv, ListedThere, PurgeDone, Y!SyncedMatches
<1> QED
  BY <1>2 DEF MirrorInv

\* Only a purge deletes rows.
LEMMA RowsStay ==
    ASSUME MirrorInv, (Y!MNext /\ ~Y!Run) \/ UNCHANGED yvars
    PROVE  \A i \in MItems : prow[i] # 0 => prow'[i] # 0
<1>1. CASE prow' = prow
  BY <1>1
<1>2. CASE \E i \in MItems, k \in Y!Kinds : Y!CommitRow(i, k)
  <2>1. PICK i \in MItems : fetch[i].pc = "placed" /\ prow' = [prow EXCEPT ![i] = fetch[i].v]
    BY <1>2 DEF Y!CommitRow
  <2>2. fetch[i].v # 0
    BY <2>1 DEF MirrorInv, FetchesListed
  <2> QED
    BY <2>1, <2>2, MirrorTypes
<1>3. CASE \E i \in MItems : Y!commitMembership(i)
  <2>1. PICK i \in MItems : fetch[i].pc # "no" /\ prow' = [prow EXCEPT ![i] = want[i]]
    BY <1>3 DEF Y!commitMembership
  <2>2. want[i] # 0
    BY <2>1 DEF MirrorInv, FetchesListed
  <2> QED
    BY <2>1, <2>2, MirrorTypes
<1>4. CASE UNCHANGED yvars
  BY <1>1, <1>4 DEF yvars
<1>5. CASE Y!MNext /\ ~Y!Run
  <2>1. CASE \/ \E i \in MItems, v \in Y!Version : Y!Upstream(i, v)
             \/ \E scope \in {"all", "part"}, hash, purge, force \in {"yes", "no"} :
                   Y!StartSync(scope, hash, purge, force)
             \/ Y!Cancel \/ Y!MCrash
    BY <1>1, <2>1 DEF Y!Upstream, Y!StartSync, Y!Cancel, Y!MCrash
  <2>2. CASE \/ Y!RpmCollect \/ Y!DebCollect \/ Y!HelmCollect \/ Y!OciCollect
             \/ Y!ParseUpstreamSimpleIndex \/ Y!PagesDone \/ Y!ListFails
             \/ \E i \in MItems : Y!ParseUpstreamProject(i) \/ Y!ProjectFails(i)
    BY <1>1, <2>2 DEF Y!RpmCollect, Y!DebCollect, Y!HelmCollect, Y!OciCollect,
       Y!ParseUpstreamSimpleIndex, Y!PagesDone, Y!ListFails, Y!ParseUpstreamProject,
       Y!ProjectFails, Y!ListFrame
  <2>3. CASE \E i \in MItems :
               \/ Y!DownloadToTemp(i) \/ Y!SkipFile(i) \/ Y!FetchFails(i) \/ Y!AlreadyThere(i)
               \/ Y!Replace(i) \/ Y!RollbackPlaced(i) \/ Y!ApplyPendingMove(i)
    BY <1>1, <2>3 DEF Y!DownloadToTemp, Y!SkipFile, Y!FetchFails, Y!AlreadyThere, Y!Replace,
       Y!RollbackPlaced, Y!ApplyPendingMove
  <2>4. CASE \E i \in MItems :
               \/ Y!RpmFetchAndCommit(i) \/ Y!DebFetchAndCommit(i) \/ Y!HelmFetchAndCommit(i)
               \/ Y!PyPIFetchAndCommit(i) \/ Y!fetchAndCommitOCI(i) \/ Y!commitMembership(i)
    BY <1>2, <1>3, <2>4 DEF Y!RpmFetchAndCommit, Y!DebFetchAndCommit, Y!HelmFetchAndCommit,
       Y!PyPIFetchAndCommit, Y!fetchAndCommitOCI, Y!Kinds
  <2>5. CASE \/ Y!RpmHandle \/ Y!DebHandle \/ Y!HelmHandle \/ Y!OciHandle \/ Y!PyPIHandle
             \/ Y!HelmStops \/ Y!RunFails \/ Y!MovesDone
    BY <1>1, <2>5 DEF Y!RpmHandle, Y!DebHandle, Y!HelmHandle, Y!OciHandle, Y!PyPIHandle, Y!Finish,
       Y!HelmStops, Y!RunFails, Y!MovesDone
  <2> QED
    BY <1>5, <2>1, <2>2, <2>3, <2>4, <2>5 DEF Y!MNext
<1> QED
  BY <1>4, <1>5

LEMMA MirrorCardinality ==
    \A S \in SUBSET MItems : Y!Cardinality(S) \in Nat /\ Y!Cardinality(S) = Cardinality(S)
<1>1. \A S : Y!Cardinality(S) = Cardinality(S)
  BY DEF Y!Cardinality, Cardinality
<1> QED
  BY <1>1, MirrorAssumption, FS_Subset, FS_CardinalityType

LEMMA PurgesDrift == ASSUME MirrorInv, Y!MNext \/ UNCHANGED yvars PROVE Y!PurgeStep
<1> DEFINE gone == {i \in MItems : prow[i] # 0 /\ prow'[i] = 0}
<1>1. CASE gone = {}
  BY <1>1 DEF Y!PurgeStep
<1>2. CASE gone # {}
  <2>1. Y!Run
    BY <1>2, RowsStay
  <2>2. job.pc = "purge" /\ job.ctx = "live"
    BY <2>1 DEF Y!Run, Y!PurgeContext
  <2>3. ~Y!Blocked /\ prow' = [i \in MItems |-> IF i \in Y!Drift THEN 0 ELSE prow[i]]
    BY <1>2, <2>1 DEF Y!Run
  <2>4. gone = Y!Drift /\ gone \in SUBSET MItems /\ Y!LocalRows \in SUBSET MItems
    BY <2>3, MirrorTypes DEF Y!Drift, Y!LocalRows
  <2>5. gone \cap job.known = {}
    <3>1. job.pages = {} /\ job.errs = "no"
      BY <2>2 DEF MirrorInv, MirrorPhases
    <3>2. \A i \in job.known : want[i] # 0
      BY <2>2, <3>1 DEF MirrorInv, KeysNoted
    <3> QED
      BY <2>2, <2>4, <3>2, ListedIsNoDrift
  <2>6. \/ job.force = "yes" \/ Pct = 0
        \/ Y!Cardinality(gone) * 100 <= Pct * Y!Cardinality(Y!LocalRows)
    <3>1. PICK n \in Nat, m \in Nat : n = Y!Cardinality(gone) /\ m = Y!Cardinality(Y!LocalRows)
      BY <2>4, MirrorCardinality
    <3>2. Pct > 0 /\ job.force = "no" => ~(n * 100 > Pct * m)
      BY <2>3, <2>4, <3>1 DEF Y!Blocked
    <3>3. n * 100 \in Nat /\ Pct * m \in Nat /\ Pct \in Nat
      BY MirrorAssumption
    <3>4. job.force \in {"yes", "no"}
      BY MirrorTypes DEF JobRecord
    <3> QED
      BY <3>1, <3>2, <3>3, <3>4
  <2> QED
    BY <2>5, <2>6 DEF Y!PurgeStep
<1> QED
  BY <1>1, <1>2

LEMMA MirrorInvariant == Spec => [](part = "mirror" => MirrorInv)
<1>1. Init => (part = "mirror" => MirrorInv)
  BY MirrorInit DEF Init
<1>2. (part = "mirror" => MirrorInv) /\ [Next]_vars => (part = "mirror" => MirrorInv)'
  BY RepositorySteps, MirrorStep
<1> QED
  BY <1>1, <1>2, PTL DEF Spec

(* MirrorSync: whatever the upstream publishes or withdraws meanwhile,     *)
(* whichever worker, page or commit fails and whenever the job is          *)
(* cancelled or the process dies, a sync that succeeds leaves the mirror   *)
(* equal to the listing, and every row has its file.  For any items, any   *)
(* contents and any number of workers and jobs (rpm/sync_handler.go:257    *)
(* and its siblings, driftpurge/deb_adapter.go:147).                       *)
THEOREM SyncedMirrorsMatch == Spec => []SyncedMatches
<1>1. (part = "mirror" => MirrorInv) => SyncedMatches
  BY MirrorShows DEF SyncedMatches
<1> QED
  BY <1>1, MirrorInvariant, PTL

(* MirrorSync: the drift purge never deletes a row the upstream lists in   *)
(* the part that was synced, nor more than the threshold allows, because   *)
(* errors and a done context keep it from running on a listing cut short   *)
(* (driftpurge/engine.go:184, 232; pypi/sync_handler.go:200).              *)
THEOREM PurgesDeleteDriftOnly == Spec => PurgeOnlyDrift
<1>1. (part = "mirror" => MirrorInv) /\ [Next]_vars => [part = "mirror" => Y!PurgeStep]_yvars
  BY RepositorySteps, PurgesDrift
<1> QED
  BY <1>1, MirrorInvariant, PTL DEF Spec, PurgeOnlyDrift

-----------------------------------------------------------------------------
(* Package protocols.                                                      *)

PackageRow == [c : K!Content, id : K!Content, path : Versions \cup {0}]
PackageRequest ==
    [op : {"idle", "put", "stage", "session", "delete"},
     pc : {"idle", "staged", "mod", "commit", "find", "tx", "move", "side"},
     k : Versions \cup {0}, p : Versions \cup {0}, v : K!Content, old : K!Content,
     old2 : K!Content, id : K!Content, tags : SUBSET DistTags,
     todo : SUBSET (Versions \X K!Content)]

Placing == {"mod", "commit"}
Placed(c) == req[c].pc \in Placing
Unpublishing(r) == proto = "npm" /\ r.op = "delete" /\ r.pc \in {"tx", "move"}

(* What a request is at each of its steps.  An upload knows its version,   *)
(* path and content; only Go modules have a second file to replace, only   *)
(* npm publishes tags and only debs and charts choose their path.          *)
RequestSound(r) ==
    /\ r.op \in {"put", "session"} =>
          /\ r.pc \in {"staged", "mod", "commit"}
          /\ r.k \in Versions /\ r.p \in Versions /\ r.v # 0
          /\ proto \notin {"deb", "helm"} => r.p = r.k
    /\ r.op = "delete" =>
          /\ r.pc \in {"tx", "move", "side"}
          /\ r.k \in Versions /\ r.p \in Versions
          /\ proto \notin {"deb", "helm"} => r.p = r.k
          /\ r.v = 0 => r.id = 0
    /\ r.op = "stage" => r.k \in Versions
    /\ r.op \in {"idle", "stage"} => r.pc \in {"idle", "side"}
    /\ r.op = "session" => proto = "pypi" /\ \A e \in r.todo : e[2] # 0
    /\ r.pc = "mod" => proto = "go"
    /\ r.pc = "side" => proto # "npm"
    /\ proto # "npm" => r.tags = {}
RequestsSound == \A c \in Clients : RequestSound(req[c])

(* A row has a content, an id and, but for debs and charts, the path of    *)
(* its version.                                                            *)
RowSound(k) ==
    /\ row[k].c = 0 => row[k].id = 0
    /\ row[k].c # 0 => /\ row[k].id # 0 /\ row[k].path \in Versions
                       /\ proto \notin {"deb", "helm"} => row[k].path = k
RowsSound == \A k \in Versions : RowSound(k)

(* A lock is held by the upload between its file and its row, and by a     *)
(* deletion from an npm repository.                                        *)
LocksSound ==
    /\ \A c \in Clients :
          /\ Placed(c) => lock[K!LockOf(req[c].p)] = c
          /\ Unpublishing(req[c]) => lock[0] = c
    /\ proto = "npm" => \A p \in Versions : lock[p] = None

(* A row of the path whose file is its own.                                *)
Current(k, p) == k \in Versions /\ row[k].c # 0 /\ row[k].path = p /\ k \notin shadowed

(* The upload that holds the lock of a path has put its file there, and    *)
(* remembers the file that the rows of the path describe, unless a delete  *)
(* took one of the two.                                                    *)
PlacedRight(r) ==
    /\ proto \in {"npm", "pypi"} => \A k \in Versions : row[k].c # 0 => row[k].path # r.p
    /\ r.p \notin torn =>
          /\ file[r.p] = r.v
          /\ proto = "go" /\ r.pc = "commit" => side[r.p] = r.v
          /\ \A k \in Versions :
                Current(k, r.p) =>
                   /\ r.old = row[k].c
                   /\ proto = "go" => (IF r.pc = "mod" THEN side[r.p] ELSE r.old2) = row[k].c
PlacedSound == \A c \in Clients : Placed(c) => PlacedRight(req[c])

(* What nobody is about to replace is what the rows describe.              *)
FileRight(k, p) == file[p] = row[k].c /\ (proto = "go" => side[p] = row[k].c)
FilesAgree ==
    \A p \in Versions :
        p \notin torn /\ (\A c \in Clients : Placed(c) => req[c].p # p) =>
            \A k \in Versions : Current(k, p) => FileRight(k, p)

(* A publication's deletion keeps the lock of the repository: its row is   *)
(* the one it found until its transaction, and gone after it.              *)
UnpublishRight(r) ==
    /\ r.pc = "tx" => row[r.k].c = r.v /\ row[r.k].id = r.id
    /\ r.pc = "move" => row[r.k].c = 0
UnpublishSound ==
    proto = "npm" =>
        /\ torn = {}
        /\ \A c \in Clients : req[c].op = "delete" => UnpublishRight(req[c])

(* A tag names a version that has a row.                                   *)
TagsSound ==
    \A t \in DistTags : tags[t] # 0 => proto = "npm" /\ tags[t] \in Versions /\ row[tags[t]].c # 0

(* No content is stored twice: not in two rows, not in a row and a request *)
(* that has still to store it, not in two of those; and a delete knows     *)
(* which row has the content it found.                                     *)
StoredOnce == \A j, k \in Versions : row[k].c # 0 /\ row[j].c = row[k].c => j = k
NotStored(r) == \A k \in Versions : row[k].c # r.v
KnowsRow(r) ==
    r.pc = "tx" /\ r.v # 0 =>
        \A k \in Versions : row[k].c = r.v => k = r.k /\ row[k].id = r.id
ContentsUnique ==
    proto \in {"npm", "go"} =>
          /\ \A k \in Versions : row[k].c <= made
          /\ \A c \in Clients : req[c].v <= made
          /\ StoredOnce
          /\ \A c \in Clients :
                /\ req[c].op = "put" =>
                      /\ NotStored(req[c])
                      /\ \A d \in Clients :
                            d # c /\ req[d].op \in {"put", "delete"} => req[d].v # req[c].v
                /\ req[c].op = "delete" => KnowsRow(req[c])

(* What the search index holds.                                            *)
IndexSound ==
    /\ proto \in {"rpm", "maven", "pypi", "npm"} => \A e \in index : row[e[1]].c # 0
    /\ proto = "npm" => \A e \in index : e[2] = row[e[1]].c
    /\ proto \in {"npm", "go"} => \A k \in Versions : row[k].c # 0 => <<k, row[k].c>> \in index

PackageInv ==
    /\ K!TypeOK /\ RequestsSound /\ RowsSound /\ LocksSound /\ PlacedSound /\ FilesAgree
    /\ UnpublishSound /\ TagsSound /\ ContentsUnique /\ IndexSound

LEMMA PackageFacts ==
    ASSUME PackageInv
    PROVE  /\ proto \in K!Protos /\ made \in K!Content /\ tmp \subseteq K!Content
           /\ row \in [Versions -> PackageRow]
           /\ file \in [Versions -> K!Content] /\ side \in [Versions -> K!Content]
           /\ index \subseteq Versions \X K!Content
           /\ tags \in [DistTags -> Versions \cup {0}]
           /\ lock \in [Versions \cup {0} -> Clients \cup {None}]
           /\ req \in [Clients -> PackageRequest]
           /\ sess \in [st : {"none", "open", "gone"}, files : [Versions -> K!Content]]
           /\ shadowed \subseteq Versions /\ torn \subseteq Versions
  BY DEF PackageInv, K!TypeOK, PackageRow, PackageRequest

LEMMA PackageTypes ==
    ASSUME proto \in K!Protos, made \in K!Content, tmp \subseteq K!Content,
           row \in [Versions -> PackageRow],
           file \in [Versions -> K!Content], side \in [Versions -> K!Content],
           index \subseteq Versions \X K!Content,
           tags \in [DistTags -> Versions \cup {0}],
           lock \in [Versions \cup {0} -> Clients \cup {None}],
           req \in [Clients -> PackageRequest],
           sess \in [st : {"none", "open", "gone"}, files : [Versions -> K!Content]],
           shadowed \subseteq Versions, torn \subseteq Versions
    PROVE  K!TypeOK
  BY DEF K!TypeOK, PackageRow, PackageRequest

LEMMA ContentFacts ==
    /\ Versions \subseteq Nat \ {0} /\ K!Content \subseteq Nat /\ 0 \in K!Content
    /\ K!Content = 0 .. MaxUploads /\ MaxUploads \in Nat /\ None \notin Clients
  BY PackagesAssumption, ClientsAssumption DEF K!Content

LEMMA PackageInitial ==
    ASSUME K!Init
    PROVE  PackageInv
<1>i. K!Idle \in PackageRequest /\ K!Idle.pc = "idle" /\ K!Idle.op = "idle" /\ K!Idle.tags = {} /\ K!Idle.v = 0
  BY ContentFacts DEF K!Idle, PackageRequest
<1>n. K!NoRow \in PackageRow /\ K!NoRow.c = 0 /\ K!NoRow.id = 0
  BY ContentFacts DEF K!NoRow, PackageRow
<1>s. sess \in [st : {"none", "open", "gone"}, files : [Versions -> K!Content]]
  BY ContentFacts DEF K!Init
<1>1. K!TypeOK
  BY <1>i, <1>n, <1>s, ContentFacts, PackageTypes DEF K!Init
<1>2. RequestsSound
  BY <1>i DEF K!Init, RequestsSound, RequestSound
<1>3. RowsSound
  BY <1>n DEF K!Init, RowsSound, RowSound
<1>4. LocksSound
  BY <1>i DEF K!Init, LocksSound, Placed, Placing, Unpublishing
<1>5. PlacedSound
  BY <1>i DEF K!Init, PlacedSound, Placed, Placing
<1>6. FilesAgree
  BY <1>n DEF K!Init, FilesAgree, Current
<1>7. UnpublishSound
  BY <1>i DEF K!Init, UnpublishSound
<1>8. TagsSound
  BY DEF K!Init, TagsSound
<1>9. ContentsUnique
  BY <1>i, <1>n DEF K!Init, ContentsUnique, StoredOnce
<1>10. IndexSound
  BY <1>n DEF K!Init, IndexSound
<1> QED
  BY <1>1, <1>2, <1>3, <1>4, <1>5, <1>6, <1>7, <1>8, <1>9, <1>10 DEF PackageInv

\* A request that changes and nothing else of the requests: what is known of
\* the others stays known.
LEMMA RequestMoves ==
    ASSUME PackageInv, NEW c \in Clients, NEW r \in PackageRequest,
           req' = [req EXCEPT ![c] = r], proto' = proto, RequestSound(r)
    PROVE  /\ req' \in [Clients -> PackageRequest]
           /\ RequestsSound'
           /\ req'[c] = r /\ \A d \in Clients : d # c => req'[d] = req[d]
<1>1. /\ req' \in [Clients -> PackageRequest]
      /\ req'[c] = r /\ \A d \in Clients : d # c => req'[d] = req[d]
  BY PackageFacts
<1>2. ASSUME NEW d \in Clients PROVE RequestSound(req[d])'
  <2>1. CASE d = c
    BY <2>1, <1>1 DEF RequestSound
  <2>2. CASE d # c
    BY <2>2, <1>1 DEF RequestSound, PackageInv, RequestsSound
  <2> QED
    BY <2>1, <2>2
<1> QED
  BY <1>1, <1>2 DEF RequestsSound

PackageSession == [st : {"none", "open", "gone"}, files : [Versions -> K!Content]]

LEMMA PackageTypesNext ==
    ASSUME proto' \in K!Protos, made' \in K!Content, tmp' \subseteq K!Content,
           row' \in [Versions -> PackageRow],
           file' \in [Versions -> K!Content], side' \in [Versions -> K!Content],
           index' \subseteq Versions \X K!Content,
           tags' \in [DistTags -> Versions \cup {0}],
           lock' \in [Versions \cup {0} -> Clients \cup {None}],
           req' \in [Clients -> PackageRequest],
           sess' \in PackageSession,
           shadowed' \subseteq Versions, torn' \subseteq Versions
    PROVE  K!TypeOK'
  BY DEF K!TypeOK, PackageRow, PackageRequest, PackageSession

\* Locks of others are kept, and an npm repository has one lock only.
LocksKept(c) ==
    /\ lock' \in [Versions \cup {0} -> Clients \cup {None}]
    /\ \A x \in Versions \cup {0} : lock[x] \in Clients \ {c} => lock'[x] = lock[x]
    /\ proto = "npm" => \A p \in Versions : lock'[p] = None

\* What a request that knows a content shares with nobody.
OwnContent(c, r) ==
    proto \in {"npm", "go"} =>
        /\ r.op = "put" =>
              /\ NotStored(r)
              /\ \A d \in Clients : d # c /\ req[d].op \in {"put", "delete"} => req[d].v # r.v
        /\ r.op = "delete" =>
              /\ \A d \in Clients : d # c /\ req[d].op = "put" => req[d].v # r.v
              /\ KnowsRow(r)

\* Requests that come, go or wait: neither the rows nor the files change.
LEMMA RequestOnly ==
    ASSUME PackageInv, NEW c \in Clients, NEW r \in PackageRequest,
           req' = [req EXCEPT ![c] = r], RequestSound(r),
           UNCHANGED <<proto, row, file, index, tags, shadowed, torn>>,
           side' \in [Versions -> K!Content], proto = "go" => side' = side,
           LocksKept(c),
           ~Placed(c), r.pc \notin Placing,
           Unpublishing(r) => lock'[0] = c /\ UnpublishRight(r),
           made' \in K!Content, made <= made', proto \in {"npm", "go"} => r.v <= made',
           OwnContent(c, r),
           sess' \in PackageSession, tmp' \subseteq K!Content
    PROVE  PackageInv'
<1>f. /\ row \in [Versions -> PackageRow] /\ req \in [Clients -> PackageRequest]
      /\ made \in K!Content
  BY PackageFacts
<1>m. /\ req' \in [Clients -> PackageRequest] /\ RequestsSound'
      /\ req'[c] = r /\ \A d \in Clients : d # c => req'[d] = req[d]
  BY RequestMoves
<1>p. \A d \in Clients : Placed(d)' <=> Placed(d)
  BY <1>m DEF Placed
<1>1. K!TypeOK'
  BY <1>m, PackageFacts, PackageTypesNext DEF LocksKept
<1>3. RowsSound'
  BY DEF PackageInv, RowsSound, RowSound
<1>4. LocksSound'
  <2>1. ASSUME NEW d \in Clients, Placed(d)' PROVE (lock[K!LockOf(req[d].p)] = d)'
    <3>1. d # c /\ req'[d] = req[d] /\ lock[K!LockOf(req[d].p)] = d /\ Placed(d)
      BY <2>1, <1>p, <1>m DEF PackageInv, LocksSound
    <3>2. req[d].p \in Versions
      BY <3>1, <1>f DEF PackageInv, RequestsSound, RequestSound, Placed, Placing, PackageRequest
    <3> QED
      BY <3>1, <3>2 DEF K!LockOf, LocksKept
  <2>2. ASSUME NEW d \in Clients, Unpublishing(req[d])' PROVE lock'[0] = d
    <3>1. CASE d = c
      BY <3>1, <2>2, <1>m DEF Unpublishing
    <3>2. CASE d # c
      BY <3>2, <2>2, <1>m DEF Unpublishing, PackageInv, LocksSound, LocksKept
    <3> QED
      BY <3>1, <3>2
  <2> QED
    BY <2>1, <2>2 DEF LocksSound, LocksKept
<1>5. PlacedSound'
  <2>1. ASSUME NEW d \in Clients, Placed(d)' PROVE PlacedRight(req[d])'
    <3>1. d # c /\ req'[d] = req[d] /\ PlacedRight(req[d])
      BY <2>1, <1>p, <1>m DEF PackageInv, PlacedSound
    <3> QED
      BY <3>1 DEF PlacedRight, Current
  <2> QED
    BY <2>1 DEF PlacedSound
<1>6. FilesAgree'
  <2>1. ASSUME NEW p \in Versions, p \notin torn, \A d \in Clients : Placed(d)' => req'[d].p # p,
               NEW k \in Versions, Current(k, p)
        PROVE  FileRight(k, p)'
    <3>1. \A d \in Clients : Placed(d) => req[d].p # p
      BY <2>1, <1>m, <1>p
    <3> QED
      BY <3>1, <2>1 DEF PackageInv, FilesAgree, FileRight
  <2> QED
    BY <2>1 DEF FilesAgree, Current
<1>7. UnpublishSound'
  BY <1>m DEF PackageInv, UnpublishSound, UnpublishRight, Unpublishing
<1>8. TagsSound'
  BY DEF PackageInv, TagsSound
<1>9. ContentsUnique'
  <2>1. ASSUME proto \in {"npm", "go"} PROVE \A k \in Versions : row[k].c <= made
    BY <2>1 DEF PackageInv, ContentsUnique
  <2>2. ASSUME proto \in {"npm", "go"} PROVE \A k \in Versions : row[k].c <= made'
    BY <2>1, <2>2, <1>f, ContentFacts DEF PackageRow
  <2>3. ASSUME proto \in {"npm", "go"}, NEW d \in Clients PROVE req'[d].v <= made'
    BY <2>3, <1>m, <1>f, ContentFacts DEF PackageRequest, PackageInv, ContentsUnique
  <2>4. ASSUME proto \in {"npm", "go"}, NEW d \in Clients, req'[d].op = "put", NEW e \in Clients,
               e # d, req'[e].op \in {"put", "delete"}
        PROVE  req'[e].v # req'[d].v
    BY <2>4, <1>m DEF PackageInv, ContentsUnique, OwnContent
  <2>5. ASSUME proto \in {"npm", "go"}, NEW d \in Clients
        PROVE  /\ req'[d].op = "put" => NotStored(req[d])'
               /\ req'[d].op = "delete" => KnowsRow(req[d])'
    <3>1. CASE d = c
      BY <3>1, <2>5, <1>m DEF OwnContent, NotStored, KnowsRow
    <3>2. CASE d # c
      BY <3>2, <2>5, <1>m DEF PackageInv, ContentsUnique, NotStored, KnowsRow
    <3> QED
      BY <3>1, <3>2
  <2>6. proto \in {"npm", "go"} => StoredOnce'
    BY DEF PackageInv, ContentsUnique, StoredOnce
  <2> QED
    BY <2>2, <2>3, <2>4, <2>5, <2>6 DEF ContentsUnique
<1>10. IndexSound'
  BY DEF PackageInv, IndexSound
<1> QED
  BY <1>m, <1>1, <1>3, <1>4, <1>5, <1>6, <1>7, <1>8, <1>9, <1>10 DEF PackageInv

LEMMA LocksStay ==
    ASSUME PackageInv, NEW c \in Clients, lock' = lock \/ K!Unlock(c)
    PROVE  LocksKept(c)
<1>1. lock \in [Versions \cup {0} -> Clients \cup {None}]
  BY PackageFacts
<1>2. CASE lock' = lock
  BY <1>1, <1>2 DEF LocksKept, PackageInv, LocksSound
<1>3. CASE K!Unlock(c)
  BY <1>1, <1>3 DEF LocksKept, K!Unlock, PackageInv, LocksSound
<1> QED
  BY <1>2, <1>3

LEMMA IdleFacts ==
    ASSUME TRUE
    PROVE  /\ K!Idle \in PackageRequest /\ RequestSound(K!Idle)
           /\ K!Idle.op = "idle" /\ K!Idle.pc = "idle" /\ K!Idle.v = 0
<1>1. PICK r : r = K!Idle
  OBVIOUS
<1>2. r \in PackageRequest /\ r.op = "idle" /\ r.pc = "idle" /\ r.tags = {} /\ r.v = 0
  BY <1>1, ContentFacts DEF K!Idle, PackageRequest
<1>3. RequestSound(r)
  BY <1>2 DEF RequestSound
<1> QED
  BY <1>1, <1>2, <1>3

LEMMA RequestEnds ==
    ASSUME PackageInv, NEW c \in Clients, K!Done(c),
           UNCHANGED <<proto, row, file, side, index, tags, shadowed, torn, made>>,
           lock' = lock \/ K!Unlock(c), ~Placed(c),
           sess' \in PackageSession, tmp' \subseteq K!Content
    PROVE  PackageInv'
<1>1. PICK r \in PackageRequest : r = K!Idle
  BY IdleFacts
<1>2. /\ RequestSound(r) /\ r.pc \notin Placing /\ ~Unpublishing(r) /\ OwnContent(c, r)
      /\ r.v = 0
  BY <1>1, IdleFacts DEF Placing, Unpublishing, OwnContent
<1>3. made \in K!Content /\ made >= 0 /\ side \in [Versions -> K!Content]
  BY PackageFacts, ContentFacts
<1>4. req' = [req EXCEPT ![c] = r]
  BY <1>1 DEF K!Done
<1>5. r.v <= made' /\ made <= made' /\ made' \in K!Content
  BY <1>2, <1>3, ContentFacts
<1>6. LocksKept(c)
  BY LocksStay
<1> QED
  BY <1>2, <1>3, <1>4, <1>5, <1>6, RequestOnly

LEMMA StageFileStep ==
    ASSUME PackageInv, NEW c \in Clients, K!StageFile(c)
    PROVE  PackageInv'
<1>1. /\ tmp \subseteq K!Content /\ sess \in PackageSession /\ req[c] \in PackageRequest
      /\ req[c].k \in Versions
  BY PackageFacts DEF PackageSession, K!StageFile, PackageInv, RequestsSound, RequestSound
<1>2. tmp' \subseteq K!Content
  BY <1>1 DEF K!StageFile
<1>3. PICK g \in [Versions -> K!Content] : g = [sess.files EXCEPT ![req[c].k] = req[c].v]
  BY <1>1 DEF PackageSession, PackageRequest
<1>4. sess' = [sess EXCEPT !.files = g] \/ sess' = sess
  BY <1>3 DEF K!StageFile
<1>5. sess' \in PackageSession
  BY <1>1, <1>4 DEF PackageSession
<1> QED
  BY <1>2, <1>5, RequestEnds DEF K!StageFile, Placed, Placing

LEMMA DeleteEndsStep ==
    ASSUME PackageInv, NEW c \in Clients, K!DeleteFails(c) \/ K!MoveFails(c)
    PROVE  PackageInv'
<1>1. tmp \subseteq K!Content /\ sess \in PackageSession
  BY PackageFacts DEF PackageSession
<1> QED
  BY <1>1, RequestEnds DEF K!DeleteFails, K!MoveFails, K!Leave, Placed, Placing

LEMMA ReceiveStep ==
    ASSUME PackageInv, NEW c \in Clients, NEW t, NEW k \in Versions, NEW p \in Versions,
           NEW T \in SUBSET DistTags, K!Receive(c, t, k, p, T),
           t = "npm" \/ T = {}, t \in {"deb", "helm"} \/ p = k
    PROVE  PackageInv'
<1>f. /\ made \in K!Content /\ row \in [Versions -> PackageRow] /\ req \in [Clients -> PackageRequest]
      /\ sess \in PackageSession /\ tmp \subseteq K!Content /\ side \in [Versions -> K!Content]
  BY PackageFacts DEF PackageSession
<1>1. PICK v \in K!Content : v = made + 1 /\ v # 0 /\ v > made
  BY <1>f, ContentFacts DEF K!Receive
<1>2. PICK r : r = [K!Idle EXCEPT !.op = "put", !.pc = "staged", !.k = k, !.p = p, !.v = v, !.tags = T]
  OBVIOUS
<1>3. /\ r \in PackageRequest /\ r.op = "put" /\ r.pc = "staged" /\ r.k = k /\ r.p = p /\ r.v = v
      /\ r.tags = T
  BY <1>2, IdleFacts DEF PackageRequest
<1>4. req' = [req EXCEPT ![c] = r] /\ made' = v /\ proto = t
  BY <1>1, <1>2 DEF K!Receive
<1>5. RequestSound(r)
  BY <1>1, <1>3, <1>4 DEF RequestSound
<1>6. OwnContent(c, r)
  <2>1. ASSUME proto \in {"npm", "go"} PROVE \A j \in Versions : row[j].c # v
    BY <2>1, <1>1, <1>f, ContentFacts DEF PackageInv, ContentsUnique, PackageRow
  <2>2. ASSUME proto \in {"npm", "go"} PROVE \A d \in Clients : req[d].v # v
    BY <2>2, <1>1, <1>f, ContentFacts DEF PackageInv, ContentsUnique, PackageRequest
  <2> QED
    BY <2>1, <2>2, <1>3 DEF OwnContent, NotStored
<1>7. ~Placed(c) /\ r.pc \notin Placing /\ ~Unpublishing(r)
  BY <1>3, IdleFacts DEF K!Receive, Placed, Placing, Unpublishing
<1>8. lock' = lock /\ UNCHANGED <<proto, row, file, side, index, tags, shadowed, torn, sess, tmp>>
  BY DEF K!Receive
<1>9. made <= made' /\ r.v <= made' /\ made' \in K!Content
  BY <1>1, <1>3, <1>4, <1>f, ContentFacts
<1> QED
  BY <1>3, <1>4, <1>5, <1>6, <1>7, <1>8, <1>9, <1>f, LocksStay, RequestOnly

LEMMA PutStep ==
    ASSUME PackageInv, NEW c \in Clients, NEW k \in Versions,
           \/ K!PutRPM(c, k) \/ K!HandleLegacyUpload(c, k) \/ K!PutArtifact(c, k) \/ K!PutModule(c, k)
           \/ \E p \in Versions : K!PutDEB(c, k, p) \/ K!PutChart(c, k, p)
           \/ \E T \in SUBSET DistTags : K!Publish(c, k, T)
    PROVE  PackageInv'
<1>0. {} \in SUBSET DistTags
  OBVIOUS
<1>1. CASE K!PutRPM(c, k) \/ K!HandleLegacyUpload(c, k) \/ K!PutArtifact(c, k) \/ K!PutModule(c, k)
  BY <1>0, <1>1, ReceiveStep DEF K!PutRPM, K!HandleLegacyUpload, K!PutArtifact, K!PutModule
<1>2. CASE \E p \in Versions : K!PutDEB(c, k, p) \/ K!PutChart(c, k, p)
  BY <1>0, <1>2, ReceiveStep DEF K!PutDEB, K!PutChart
<1>3. CASE \E T \in SUBSET DistTags : K!Publish(c, k, T)
  BY <1>3, ReceiveStep DEF K!Publish
<1> QED
  BY <1>1, <1>2, <1>3

LEMMA handleUploadFileStep ==
    ASSUME PackageInv, NEW c \in Clients, NEW k \in Versions, K!handleUploadFile(c, k)
    PROVE  PackageInv'
<1>f. /\ made \in K!Content /\ sess \in PackageSession /\ tmp \subseteq K!Content
      /\ side \in [Versions -> K!Content]
  BY PackageFacts DEF PackageSession
<1>1. PICK v \in K!Content : v = made + 1 /\ v > made
  BY <1>f, ContentFacts DEF K!handleUploadFile
<1>2. PICK r : r = [K!Idle EXCEPT !.op = "stage", !.pc = "side", !.k = k, !.v = v]
  OBVIOUS
<1>i. PICK i \in PackageRequest : i = K!Idle /\ i.tags = {}
  BY IdleFacts DEF K!Idle
<1>3. r \in PackageRequest /\ r.op = "stage" /\ r.pc = "side" /\ r.k = k /\ r.v = v /\ r.tags = {}
  BY <1>2, <1>i DEF PackageRequest
<1>4. /\ req' = [req EXCEPT ![c] = r] /\ made' = v /\ proto = "pypi" /\ tmp' = tmp \cup {v}
      /\ lock' = lock /\ UNCHANGED <<proto, row, file, side, index, tags, shadowed, torn, sess>>
  BY <1>1, <1>2 DEF K!handleUploadFile
<1>5. RequestSound(r) /\ OwnContent(c, r)
  BY <1>3, <1>4 DEF RequestSound, OwnContent
<1>6. ~Placed(c) /\ r.pc \notin Placing /\ ~Unpublishing(r)
  BY <1>3, IdleFacts DEF K!handleUploadFile, Placed, Placing, Unpublishing
<1>7. made <= made' /\ r.v <= made' /\ made' \in K!Content /\ tmp' \subseteq K!Content
  BY <1>1, <1>3, <1>4, <1>f, ContentFacts
<1> QED
  BY <1>3, <1>4, <1>5, <1>6, <1>7, <1>f, LocksStay, RequestOnly

LEMMA handleCommitStep ==
    ASSUME PackageInv, NEW c \in Clients, K!handleCommit(c)
    PROVE  PackageInv'
<1>f. /\ made \in K!Content /\ sess \in PackageSession /\ tmp \subseteq K!Content
      /\ side \in [Versions -> K!Content]
  BY PackageFacts DEF PackageSession
<1> DEFINE files == {<<k, sess.files[k]>> : k \in {x \in Versions : sess.files[x] # 0}}
<1>g. PICK g \in [Versions -> K!Content] : g = sess.files
  BY <1>f DEF PackageSession
<1>1. PICK F \in SUBSET (Versions \X K!Content) : F = files /\ \A e \in F : e[2] # 0
  <2>1. \A e \in files : e \in Versions \X K!Content /\ e[2] # 0
    BY <1>g
  <2> QED
    BY <2>1
<1>2. PICK e \in F :
        req' = [req EXCEPT ![c] = [K!Idle EXCEPT !.op = "session", !.pc = "staged", !.k = e[1],
                                                 !.p = e[1], !.v = e[2], !.todo = F]]
  BY <1>1 DEF K!handleCommit
<1>3. PICK r : r = [K!Idle EXCEPT !.op = "session", !.pc = "staged", !.k = e[1],
                                  !.p = e[1], !.v = e[2], !.todo = F]
  OBVIOUS
<1>i. PICK i \in PackageRequest : i = K!Idle /\ i.tags = {}
  BY IdleFacts DEF K!Idle
<1>e. e[1] \in Versions /\ e[2] \in K!Content /\ e[2] # 0
  BY <1>1
<1>4. /\ r \in PackageRequest /\ r.op = "session" /\ r.pc = "staged" /\ r.k = e[1] /\ r.p = e[1]
      /\ r.v = e[2] /\ r.tags = {} /\ r.todo = F
  BY <1>3, <1>i, <1>e, <1>1 DEF PackageRequest
<1>5. /\ req' = [req EXCEPT ![c] = r] /\ proto = "pypi"
      /\ lock' = lock /\ UNCHANGED <<proto, row, file, side, index, tags, shadowed, torn, sess, tmp, made>>
  BY <1>2, <1>3 DEF K!handleCommit
<1>6. RequestSound(r) /\ OwnContent(c, r)
  BY <1>1, <1>e, <1>4, <1>5 DEF RequestSound, OwnContent
<1>7. ~Placed(c) /\ r.pc \notin Placing /\ ~Unpublishing(r)
  BY <1>4, <1>5, IdleFacts DEF K!handleCommit, Placed, Placing, Unpublishing
<1>8. made <= made'
  BY <1>f, <1>5, ContentFacts
<1> QED
  BY <1>4, <1>5, <1>6, <1>7, <1>8, <1>f, LocksStay, RequestOnly

\* A delete that finds its row, or a Maven file without one.
LEMMA FindRowStep ==
    ASSUME PackageInv, NEW c \in Clients, NEW t, NEW k \in Versions, NEW p \in Versions,
           K!FindRow(c, t, k, p), t \in {"deb", "helm"} \/ p = k,
           \/ t # "npm" /\ lock' = lock
           \/ t = "npm" /\ lock[0] = None /\ K!Lock(c, p)
    PROVE  PackageInv'
<1>f. /\ made \in K!Content /\ row \in [Versions -> PackageRow] /\ req \in [Clients -> PackageRequest]
      /\ sess \in PackageSession /\ tmp \subseteq K!Content /\ side \in [Versions -> K!Content]
      /\ file \in [Versions -> K!Content] /\ lock \in [Versions \cup {0} -> Clients \cup {None}]
  BY PackageFacts DEF PackageSession
<1>1. PICK v \in K!Content : v = row[k].c
  BY <1>f DEF PackageRow
<1>2. PICK i \in K!Content : i = row[k].id
  BY <1>f DEF PackageRow
<1>3. PICK r : r = [K!Idle EXCEPT !.op = "delete", !.pc = "tx", !.k = k, !.p = p,
                                  !.v = v, !.id = i, !.old = file[p]]
  OBVIOUS
<1>i. PICK e \in PackageRequest : e = K!Idle /\ e.tags = {}
  BY IdleFacts DEF K!Idle
<1>4. /\ r \in PackageRequest /\ r.op = "delete" /\ r.pc = "tx" /\ r.k = k /\ r.p = p
      /\ r.v = v /\ r.id = i /\ r.tags = {}
  BY <1>3, <1>i, <1>f DEF PackageRequest
<1>5. /\ req' = [req EXCEPT ![c] = r] /\ proto = t
      /\ UNCHANGED <<proto, row, file, side, index, tags, shadowed, torn, sess, tmp, made>>
  BY <1>1, <1>2, <1>3 DEF K!FindRow
<1>6. RequestSound(r)
  BY <1>1, <1>2, <1>4, <1>5 DEF RequestSound, PackageInv, RowsSound, RowSound
<1>7. OwnContent(c, r)
  <2>1. ASSUME proto \in {"npm", "go"}, NEW d \in Clients, req[d].op = "put" PROVE req[d].v # r.v
    BY <2>1, <1>1, <1>4 DEF PackageInv, ContentsUnique, NotStored
  <2>2. ASSUME proto \in {"npm", "go"} PROVE KnowsRow(r)
    BY <2>2, <1>1, <1>2, <1>4 DEF PackageInv, ContentsUnique, StoredOnce, KnowsRow
  <2> QED
    BY <2>1, <2>2, <1>4 DEF OwnContent
<1>8. ~Placed(c) /\ r.pc \notin Placing
  BY <1>4, IdleFacts DEF K!FindRow, Placed, Placing
<1>9. LocksKept(c) /\ (Unpublishing(r) => lock'[0] = c)
  <2>1. CASE t # "npm" /\ lock' = lock
    BY <2>1, <1>5, LocksStay DEF Unpublishing
  <2>2. CASE t = "npm" /\ lock[0] = None /\ K!Lock(c, p)
    <3>1. lock' = [lock EXCEPT ![0] = c]
      BY <2>2, <1>5 DEF K!Lock, K!LockOf
    <3> QED
      BY <3>1, <2>2, <1>f, ContentFacts DEF LocksKept, PackageInv, LocksSound
  <2> QED
    BY <2>1, <2>2
<1>10. UnpublishRight(r)
  BY <1>1, <1>2, <1>4 DEF UnpublishRight
<1>11. made <= made' /\ made' \in K!Content /\ (proto \in {"npm", "go"} => r.v <= made')
  BY <1>f, <1>1, <1>4, <1>5, ContentFacts DEF PackageInv, ContentsUnique
<1> QED
  BY <1>4, <1>5, <1>6, <1>7, <1>8, <1>9, <1>10, <1>11, <1>f, RequestOnly

LEMMA AtPathFacts ==
    ASSUME NEW p \in Versions, NEW k
    PROVE  k \in K!AtPath(p) <=> k \in Versions /\ row[k].c # 0 /\ row[k].path = p
  BY DEF K!AtPath, K!Has

LEMMA DeleteStep ==
    ASSUME PackageInv, NEW c \in Clients, NEW p \in Versions,
           \/ K!DeleteRPM(c, p) \/ K!DeleteModule(c, p) \/ K!DeletePackage(c, p) \/ K!DeleteDEB(c, p)
           \/ K!DeleteChart(c, p) \/ K!DeleteArtifact(c, p) \/ K!Unpublish(c, p)
    PROVE  PackageInv'
<1>1. PICK t \in {"rpm", "go", "pypi", "deb", "helm", "maven", "npm"}, k \in Versions :
        /\ K!FindRow(c, t, k, p)
        /\ k \in K!AtPath(p) \/ k = p
        /\ \/ t # "npm" /\ lock' = lock
           \/ t = "npm" /\ lock[0] = None /\ K!Lock(c, p)
  <2>1. CASE K!DeleteRPM(c, p)
    BY <2>1, AtPathFacts DEF K!DeleteRPM
  <2>2. CASE K!DeleteModule(c, p)
    BY <2>2, AtPathFacts DEF K!DeleteModule
  <2>3. CASE K!DeletePackage(c, p)
    BY <2>3, AtPathFacts DEF K!DeletePackage
  <2>4. CASE K!DeleteDEB(c, p)
    BY <2>4, AtPathFacts DEF K!DeleteDEB
  <2>5. CASE K!DeleteChart(c, p)
    BY <2>5, AtPathFacts DEF K!DeleteChart
  <2>6. CASE K!DeleteArtifact(c, p)
    BY <2>6, AtPathFacts DEF K!DeleteArtifact
  <2>7. CASE K!Unpublish(c, p)
    BY <2>7, AtPathFacts DEF K!Unpublish
  <2> QED
    BY <2>1, <2>2, <2>3, <2>4, <2>5, <2>6, <2>7
<1>2. t \in {"deb", "helm"} \/ p = k
  BY <1>1, AtPathFacts DEF K!FindRow, PackageInv, RowsSound, RowSound
<1> QED
  BY <1>1, <1>2, FindRowStep

\* Provenance files, checksums and the life of a session.
LEMMA QuietPackages ==
    ASSUME PackageInv, UNCHANGED <<proto, row, file, index, tags, lock, req, shadowed, torn>>,
           side' \in [Versions -> K!Content], proto = "go" => side' = side,
           made' \in K!Content, made <= made', sess' \in PackageSession, tmp' \subseteq K!Content
    PROVE  PackageInv'
<1>f. /\ row \in [Versions -> PackageRow] /\ req \in [Clients -> PackageRequest]
      /\ made \in K!Content
  BY PackageFacts
<1>1. K!TypeOK'
  BY PackageFacts, PackageTypesNext
<1>2. RequestsSound' /\ RowsSound'
  BY DEF PackageInv, RequestsSound, RequestSound, RowsSound, RowSound
<1>3. LocksSound'
  BY DEF PackageInv, LocksSound, Placed, Unpublishing, K!LockOf
<1>4. PlacedSound'
  BY DEF PackageInv, PlacedSound, PlacedRight, Placed, Current
<1>5. FilesAgree'
  BY DEF PackageInv, FilesAgree, FileRight, Placed, Current
<1>6. UnpublishSound' /\ TagsSound' /\ IndexSound'
  BY DEF PackageInv, UnpublishSound, UnpublishRight, TagsSound, IndexSound
<1>7. ContentsUnique'
  <2>1. ASSUME proto \in {"npm", "go"}
        PROVE  (\A k \in Versions : row[k].c <= made') /\ (\A c \in Clients : req[c].v <= made')
    BY <2>1, <1>f, ContentFacts DEF PackageInv, ContentsUnique, PackageRow, PackageRequest
  <2> QED
    BY <2>1 DEF PackageInv, ContentsUnique, StoredOnce, NotStored, KnowsRow
<1> QED
  BY <1>1, <1>2, <1>3, <1>4, <1>5, <1>6, <1>7 DEF PackageInv

LEMMA PutSideStep ==
    ASSUME PackageInv, NEW p \in Versions, K!PutProvenance(p) \/ K!PutSidecar(p)
    PROVE  PackageInv'
<1>f. /\ made \in K!Content /\ sess \in PackageSession /\ tmp \subseteq K!Content
      /\ side \in [Versions -> K!Content]
  BY PackageFacts DEF PackageSession
<1>1. PICK t \in {"helm", "maven"} : K!PutSide(p, t)
  BY DEF K!PutProvenance, K!PutSidecar
<1>2. PICK v \in K!Content : v = made + 1 /\ v > made
  BY <1>1, <1>f, ContentFacts DEF K!PutSide
<1>3. /\ made' = v /\ side' = [side EXCEPT ![p] = v] /\ proto # "go"
      /\ UNCHANGED <<proto, row, file, index, tags, lock, req, shadowed, torn, sess, tmp>>
  BY <1>1, <1>2 DEF K!PutSide
<1>4. made <= made' /\ made' \in K!Content /\ side' \in [Versions -> K!Content]
  BY <1>2, <1>3, <1>f, ContentFacts
<1> QED
  BY <1>3, <1>4, <1>f, QuietPackages

LEMMA SessionStep ==
    ASSUME PackageInv, K!CreateSession \/ K!ExpireSession
    PROVE  PackageInv'
<1>f. /\ made \in K!Content /\ sess \in PackageSession /\ tmp \subseteq K!Content
      /\ side \in [Versions -> K!Content]
  BY PackageFacts DEF PackageSession
<1>1. /\ sess' = [sess EXCEPT !.st = "open"] \/ sess' = [sess EXCEPT !.st = "gone"]
      /\ tmp' \subseteq tmp
      /\ UNCHANGED <<proto, row, file, side, index, tags, lock, req, made, shadowed, torn>>
  BY DEF K!CreateSession, K!ExpireSession
<1>2. sess' \in PackageSession
  BY <1>1, <1>f DEF PackageSession
<1>3. tmp' \subseteq K!Content /\ made <= made'
  BY <1>1, <1>f, ContentFacts
<1> QED
  BY <1>1, <1>2, <1>3, <1>f, QuietPackages

\* A lock that is free is nobody's.
LEMMA FreePath ==
    ASSUME PackageInv, NEW c \in Clients, NEW p \in Versions, lock[K!LockOf(p)] = None
    PROVE  /\ Placed(c) => req[c].p # p
           /\ proto = "npm" => ~Placed(c) /\ ~Unpublishing(req[c])
<1>1. Placed(c) => lock[K!LockOf(req[c].p)] = c
  BY DEF PackageInv, LocksSound
<1>2. proto = "npm" => K!LockOf(p) = 0 /\ K!LockOf(req[c].p) = 0
  BY DEF K!LockOf
<1> QED
  BY <1>1, <1>2, ContentFacts DEF PackageInv, LocksSound

\* Who has placed a file has the path to himself.
LEMMA PlacedAlone ==
    ASSUME PackageInv, NEW c \in Clients, Placed(c)
    PROVE  /\ req[c].p \in Versions /\ req[c].k \in Versions /\ req[c].v # 0
           /\ req[c].op \in {"put", "session"} /\ PlacedRight(req[c])
           /\ \A d \in Clients : d # c /\ Placed(d) => req[d].p # req[c].p
           /\ proto = "npm" => \A d \in Clients : d # c => ~Placed(d) /\ ~Unpublishing(req[d])
<1>1. req[c] \in PackageRequest
  BY PackageFacts
<1>2. /\ req[c].p \in Versions /\ req[c].k \in Versions /\ req[c].v # 0
      /\ req[c].op \in {"put", "session"} /\ PlacedRight(req[c])
  BY <1>1 DEF PackageInv, RequestsSound, RequestSound, PlacedSound, Placed, Placing, PackageRequest
<1>3. \A d \in Clients : Placed(d) => lock[K!LockOf(req[d].p)] = d
  BY DEF PackageInv, LocksSound
<1>4. \A d \in Clients : d # c /\ Placed(d) => req[d].p # req[c].p
  BY <1>3
<1>5. proto = "npm" => \A d \in Clients : d # c => ~Placed(d) /\ ~Unpublishing(req[d])
  BY <1>3 DEF K!LockOf, PackageInv, LocksSound
<1> QED
  BY <1>2, <1>4, <1>5

\* Locks after a request took, kept or gave up its own: requests of others
\* still have theirs.
LEMMA LocksAfter ==
    ASSUME PackageInv, NEW c \in Clients, NEW r \in PackageRequest,
           req' = [req EXCEPT ![c] = r], proto' = proto, RequestSound(r), LocksKept(c),
           r.pc \in Placing => lock'[K!LockOf(r.p)] = c,
           Unpublishing(r) => lock'[0] = c
    PROVE  LocksSound'
<1>f. req \in [Clients -> PackageRequest]
  BY PackageFacts
<1>m. req'[c] = r /\ \A d \in Clients : d # c => req'[d] = req[d]
  BY RequestMoves
<1>1. ASSUME NEW d \in Clients, Placed(d)' PROVE (lock[K!LockOf(req[d].p)] = d)'
  <2>1. CASE d = c
    BY <2>1, <1>1, <1>m DEF Placed, K!LockOf
  <2>2. CASE d # c
    <3>1. req'[d] = req[d] /\ lock[K!LockOf(req[d].p)] = d /\ Placed(d)
      BY <2>2, <1>1, <1>m DEF PackageInv, LocksSound, Placed
    <3>2. req[d].p \in Versions
      BY <3>1, PlacedAlone
    <3> QED
      BY <2>2, <3>1, <3>2 DEF K!LockOf, LocksKept
  <2> QED
    BY <2>1, <2>2
<1>2. ASSUME NEW d \in Clients, Unpublishing(req[d])' PROVE lock'[0] = d
  <2>1. CASE d = c
    BY <2>1, <1>2, <1>m DEF Unpublishing
  <2>2. CASE d # c
    BY <2>2, <1>2, <1>m DEF Unpublishing, PackageInv, LocksSound, LocksKept
  <2> QED
    BY <2>1, <2>2
<1> QED
  BY <1>1, <1>2 DEF LocksSound, LocksKept

\* Contents after a request went on with the content it had.
LEMMA ContentsAfter ==
    ASSUME PackageInv, NEW c \in Clients, NEW r \in PackageRequest,
           req' = [req EXCEPT ![c] = r], UNCHANGED <<proto, row, made>>, RequestSound(r),
           proto \in {"npm", "go"} => r.v <= made, OwnContent(c, r)
    PROVE  ContentsUnique'
<1>m. req'[c] = r /\ \A d \in Clients : d # c => req'[d] = req[d]
  BY RequestMoves
<1>1. ASSUME proto \in {"npm", "go"}, NEW d \in Clients, req'[d].op = "put", NEW e \in Clients,
             e # d, req'[e].op \in {"put", "delete"}
      PROVE  req'[e].v # req'[d].v
  BY <1>1, <1>m DEF PackageInv, ContentsUnique, OwnContent
<1>2. ASSUME proto \in {"npm", "go"}, NEW d \in Clients
      PROVE  /\ req'[d].v <= made
             /\ req'[d].op = "put" => NotStored(req[d])'
             /\ req'[d].op = "delete" => KnowsRow(req[d])'
  <2>1. CASE d = c
    BY <2>1, <1>2, <1>m DEF OwnContent, NotStored, KnowsRow
  <2>2. CASE d # c
    BY <2>2, <1>2, <1>m DEF PackageInv, ContentsUnique, NotStored, KnowsRow
  <2> QED
    BY <2>1, <2>2
<1> QED
  BY <1>1, <1>2 DEF ContentsUnique, PackageInv, StoredOnce

LEMMA ContentsNow ==
    ASSUME PackageInv, NEW c \in Clients
    PROVE  OwnContent(c, req[c]) /\ (proto \in {"npm", "go"} => req[c].v <= made)
  BY DEF PackageInv, ContentsUnique, OwnContent

LEMMA PlaceStep ==
    ASSUME PackageInv, NEW c \in Clients, K!Place(c)
    PROVE  PackageInv'
<1>f. /\ row \in [Versions -> PackageRow] /\ req \in [Clients -> PackageRequest]
      /\ sess \in PackageSession /\ tmp \subseteq K!Content /\ side \in [Versions -> K!Content]
      /\ file \in [Versions -> K!Content] /\ lock \in [Versions \cup {0} -> Clients \cup {None}]
  BY PackageFacts DEF PackageSession
<1>r. PICK r \in PackageRequest : r = req[c]
  BY <1>f
<1>s. /\ r.pc = "staged" /\ r.op \in {"put", "session"} /\ r.p \in Versions /\ r.k \in Versions
      /\ r.v # 0 /\ RequestSound(r) /\ lock[K!LockOf(r.p)] = None
  BY <1>r DEF K!Place, K!LockedPut, PackageRequest, PackageInv, RequestsSound, RequestSound
<1>n. ~Placed(c)
  BY <1>r, <1>s DEF Placed, Placing
<1> DEFINE refused == \/ K!VersionExists(r.k) \/ K!FileExists(r.p)
                      \/ r.op = "session" /\ r.v \notin tmp
<1>1. CASE refused
  BY <1>1, <1>r, <1>n, <1>f, RequestEnds DEF K!Place
<1>2. CASE ~refused
  <2>q. PICK q : q = [r EXCEPT !.pc = IF proto = "go" THEN "mod" ELSE "commit", !.old = file[r.p]]
    OBVIOUS
  <2>u. /\ q \in PackageRequest /\ q.pc = (IF proto = "go" THEN "mod" ELSE "commit") /\ q.old = file[r.p]
        /\ q.op = r.op /\ q.k = r.k /\ q.p = r.p /\ q.v = r.v /\ q.tags = r.tags /\ q.todo = r.todo
    BY <2>q, <1>f, <1>s DEF PackageRequest
  <2>a. /\ req' = [req EXCEPT ![c] = q] /\ file' = [file EXCEPT ![r.p] = r.v]
        /\ lock' = [lock EXCEPT ![K!LockOf(r.p)] = c]
        /\ UNCHANGED <<proto, row, side, index, tags, sess, tmp, made, shadowed, torn>>
    BY <1>2, <1>r, <2>q DEF K!Place, K!Lock
  <2>s. RequestSound(q) /\ q.pc \in Placing /\ ~Unpublishing(q)
    BY <2>u, <1>s DEF RequestSound, Placing, Unpublishing
  <2>m. /\ req' \in [Clients -> PackageRequest] /\ RequestsSound'
        /\ req'[c] = q /\ \A d \in Clients : d # c => req'[d] = req[d]
    BY <2>u, <2>a, <2>s, RequestMoves
  <2>k. LocksKept(c) /\ lock'[K!LockOf(q.p)] = c
    BY <2>a, <2>u, <1>f, <1>s, ContentFacts DEF LocksKept, K!LockOf, PackageInv, LocksSound
  <2>1. K!TypeOK'
    <3>1. file' \in [Versions -> K!Content]
      BY <2>a, <1>f, <1>s DEF PackageRequest
    <3> QED
      BY <3>1, <2>m, <2>k, <2>a, <1>f, PackageFacts, PackageTypesNext DEF LocksKept
  <2>2. LocksSound'
    BY <2>a, <2>u, <2>s, <2>k, LocksAfter
  <2>p. \A d \in Clients : d # c /\ Placed(d) => req[d].p # r.p
    BY <1>s, FreePath
  <2>v. \A k \in Versions : Current(k, r.p) /\ r.p \notin torn => FileRight(k, r.p)
    BY <2>p, <1>n, <1>s DEF PackageInv, FilesAgree
  <2>3. PlacedSound'
    <3>1. ASSUME NEW d \in Clients, Placed(d)', d # c PROVE PlacedRight(req[d])'
      <4>1. req'[d] = req[d] /\ PlacedRight(req[d]) /\ req[d].p # r.p /\ req[d].p \in Versions
        BY <3>1, <2>m, <2>p, PlacedAlone DEF Placed
      <4>2. file'[req[d].p] = file[req[d].p]
        BY <4>1, <2>a, <1>f
      <4> QED
        BY <4>1, <4>2, <2>a DEF PlacedRight, Current
    <3>2. PlacedRight(q)'
      <4>1. proto \in {"npm", "pypi"} => \A k \in Versions : row[k].c # 0 => row[k].path # q.p
        BY <1>2, <1>s, <2>u, AtPathFacts
           DEF PackageInv, RowsSound, RowSound, RequestSound, K!VersionExists, K!FileExists, K!Has
      <4>2. file'[q.p] = q.v
        BY <2>a, <2>u, <1>f, <1>s
      <4> QED
        BY <4>1, <4>2, <2>v, <2>a, <2>u DEF PlacedRight, Current, FileRight
    <3> QED
      BY <3>1, <3>2, <2>m DEF PlacedSound, PlacedRight, Current
  <2>4. FilesAgree'
    <3>1. ASSUME NEW p \in Versions, p \notin torn, \A d \in Clients : Placed(d)' => req'[d].p # p,
                 NEW k \in Versions, Current(k, p)
          PROVE  FileRight(k, p)'
      <4>1. p # r.p
        BY <3>1, <2>m, <2>s, <2>u DEF Placed
      <4>2. \A d \in Clients : Placed(d) => req[d].p # p
        BY <3>1, <2>m, <1>n DEF Placed
      <4> QED
        BY <4>1, <4>2, <3>1, <2>a, <1>f DEF PackageInv, FilesAgree, FileRight
    <3> QED
      BY <3>1, <2>a DEF FilesAgree, Current
  <2>5. UnpublishSound'
    BY <2>m, <2>a, <2>u, <1>s DEF PackageInv, UnpublishSound, UnpublishRight
  <2>6. ContentsUnique'
    <3>1. OwnContent(c, q) /\ (proto \in {"npm", "go"} => q.v <= made)
      BY <1>r, <1>s, <2>u, ContentsNow DEF OwnContent, NotStored
    <3> QED
      BY <3>1, <2>a, <2>u, <2>s, ContentsAfter
  <2>7. RowsSound' /\ TagsSound' /\ IndexSound'
    BY <2>a DEF PackageInv, RowsSound, RowSound, TagsSound, IndexSound
  <2> QED
    BY <2>m, <2>1, <2>2, <2>3, <2>4, <2>5, <2>6, <2>7 DEF PackageInv
<1> QED
  BY <1>1, <1>2

LEMMA PlaceModStep ==
    ASSUME PackageInv, NEW c \in Clients, K!PlaceMod(c)
    PROVE  PackageInv'
<1>f. /\ row \in [Versions -> PackageRow] /\ req \in [Clients -> PackageRequest]
      /\ side \in [Versions -> K!Content]
  BY PackageFacts
<1>r. PICK r \in PackageRequest : r = req[c]
  BY <1>f
<1>n. Placed(c) /\ r.pc = "mod" /\ proto = "go"
  BY <1>r DEF K!PlaceMod, Placed, Placing, PackageInv, RequestsSound, RequestSound
<1>s. /\ r.p \in Versions /\ r.k \in Versions /\ r.v # 0 /\ RequestSound(r) /\ PlacedRight(r)
      /\ r.op \in {"put", "session"}
      /\ \A d \in Clients : d # c /\ Placed(d) => req[d].p # r.p
  BY <1>r, <1>n, PlacedAlone DEF PackageInv, RequestsSound
<1>q. PICK q : q = [r EXCEPT !.pc = "commit", !.old2 = side[r.p]]
  OBVIOUS
<1>u. /\ q \in PackageRequest /\ q.pc = "commit" /\ q.old2 = side[r.p] /\ q.old = r.old
      /\ q.op = r.op /\ q.k = r.k /\ q.p = r.p /\ q.v = r.v /\ q.tags = r.tags /\ q.todo = r.todo
  BY <1>q, <1>f, <1>s DEF PackageRequest
<1>a. /\ req' = [req EXCEPT ![c] = q] /\ side' = [side EXCEPT ![r.p] = r.v]
      /\ UNCHANGED <<proto, row, file, index, tags, lock, sess, tmp, made, shadowed, torn>>
  BY <1>r, <1>q DEF K!PlaceMod
<1>t. RequestSound(q) /\ q.pc \in Placing /\ ~Unpublishing(q)
  BY <1>u, <1>s, <1>n DEF RequestSound, Placing, Unpublishing
<1>m. /\ req' \in [Clients -> PackageRequest] /\ RequestsSound'
      /\ req'[c] = q /\ \A d \in Clients : d # c => req'[d] = req[d]
  BY <1>u, <1>a, <1>t, RequestMoves
<1>1. K!TypeOK'
  <2>1. side' \in [Versions -> K!Content]
    BY <1>a, <1>f, <1>s DEF PackageRequest
  <2> QED
    BY <2>1, <1>m, <1>a, PackageFacts, PackageTypesNext DEF PackageSession
<1>2. LocksSound'
  <2>1. lock[K!LockOf(r.p)] = c
    BY <1>r, <1>n DEF PackageInv, LocksSound
  <2> QED
    BY <2>1, <1>a, <1>u, <1>t, LocksStay, LocksAfter
<1>3. PlacedSound'
  <2>1. ASSUME NEW d \in Clients, Placed(d)', d # c PROVE PlacedRight(req[d])'
    <3>1. req'[d] = req[d] /\ PlacedRight(req[d]) /\ req[d].p # r.p /\ req[d].p \in Versions
      BY <2>1, <1>m, <1>s, PlacedAlone DEF Placed
    <3>2. side'[req[d].p] = side[req[d].p]
      BY <3>1, <1>a, <1>f
    <3> QED
      BY <3>1, <3>2, <1>a DEF PlacedRight, Current
  <2>2. PlacedRight(q)'
    <3>1. side'[q.p] = q.v
      BY <1>a, <1>u, <1>f, <1>s
    <3> QED
      BY <3>1, <1>s, <1>n, <1>a, <1>u DEF PlacedRight, Current
  <2> QED
    BY <2>1, <2>2, <1>m DEF PlacedSound, PlacedRight, Current
<1>4. FilesAgree'
  <2>1. ASSUME NEW p \in Versions, p \notin torn, \A d \in Clients : Placed(d)' => req'[d].p # p,
               NEW k \in Versions, Current(k, p)
        PROVE  FileRight(k, p)'
    <3>1. p # r.p
      BY <2>1, <1>m, <1>t, <1>u DEF Placed
    <3>2. \A d \in Clients : Placed(d) => req[d].p # p
      BY <2>1, <3>1, <1>m, <1>r DEF Placed
    <3> QED
      BY <3>1, <3>2, <2>1, <1>a, <1>f DEF PackageInv, FilesAgree, FileRight
  <2> QED
    BY <2>1, <1>a DEF FilesAgree, Current
<1>5. ContentsUnique'
  <2>1. OwnContent(c, q) /\ (proto \in {"npm", "go"} => q.v <= made)
    BY <1>r, <1>s, <1>u, ContentsNow DEF OwnContent, NotStored
  <2> QED
    BY <2>1, <1>a, <1>u, <1>t, ContentsAfter
<1>6. RowsSound' /\ TagsSound' /\ IndexSound' /\ UnpublishSound'
  BY <1>a, <1>n DEF PackageInv, RowsSound, RowSound, TagsSound, IndexSound, UnpublishSound
<1> QED
  BY <1>m, <1>1, <1>2, <1>3, <1>4, <1>5, <1>6 DEF PackageInv

LEMMA RollbackStep ==
    ASSUME PackageInv, NEW c \in Clients, K!Rollback(c)
    PROVE  PackageInv'
<1>f. /\ row \in [Versions -> PackageRow] /\ req \in [Clients -> PackageRequest]
      /\ side \in [Versions -> K!Content] /\ file \in [Versions -> K!Content]
      /\ lock \in [Versions \cup {0} -> Clients \cup {None}]
  BY PackageFacts
<1>r. PICK r \in PackageRequest : r = req[c]
  BY <1>f
<1>n. Placed(c) /\ r.pc \in Placing
  BY <1>r DEF K!Rollback, Placed, Placing
<1>s. /\ r.p \in Versions /\ PlacedRight(r)
      /\ \A d \in Clients : d # c /\ Placed(d) => req[d].p # r.p
  BY <1>r, <1>n, PlacedAlone
<1>q. PICK q \in PackageRequest : q = K!Idle
  BY IdleFacts
<1>u. RequestSound(q) /\ q.pc \notin Placing /\ ~Unpublishing(q) /\ OwnContent(c, q) /\ q.v = 0 /\ q.op = "idle"
  BY <1>q, IdleFacts DEF Placing, Unpublishing, OwnContent
<1>a. /\ req' = [req EXCEPT ![c] = q] /\ K!Unlock(c)
      /\ file' = [file EXCEPT ![r.p] = IF proto = "pypi" THEN 0 ELSE r.old]
      /\ side' = IF proto = "go" /\ r.pc = "commit" THEN [side EXCEPT ![r.p] = r.old2] ELSE side
      /\ UNCHANGED <<proto, row, index, tags, sess, tmp, made, shadowed, torn>>
  BY <1>r, <1>q DEF K!Rollback, K!Leave, K!Done
<1>m. /\ req' \in [Clients -> PackageRequest] /\ RequestsSound'
      /\ req'[c] = q /\ \A d \in Clients : d # c => req'[d] = req[d]
  BY <1>u, <1>a, RequestMoves
<1>k. LocksKept(c)
  BY <1>a, LocksStay
<1>w. /\ file' \in [Versions -> K!Content] /\ side' \in [Versions -> K!Content]
      /\ \A p \in Versions : p # r.p => file'[p] = file[p] /\ side'[p] = side[p]
      /\ file'[r.p] = (IF proto = "pypi" THEN 0 ELSE r.old)
      /\ proto = "go" => side'[r.p] = (IF r.pc = "mod" THEN side[r.p] ELSE r.old2)
  BY <1>a, <1>f, <1>s, <1>n, ContentFacts DEF PackageRequest, Placing
<1>1. K!TypeOK'
  BY <1>w, <1>m, <1>a, <1>k, PackageFacts, PackageTypesNext DEF PackageSession, LocksKept
<1>2. LocksSound'
  BY <1>a, <1>u, <1>k, LocksAfter
<1>3. PlacedSound'
  <2>1. ASSUME NEW d \in Clients, Placed(d)' PROVE PlacedRight(req[d])'
    <3>1. /\ d # c /\ req'[d] = req[d] /\ PlacedRight(req[d]) /\ req[d].p # r.p
          /\ req[d].p \in Versions
      BY <2>1, <1>m, <1>u, <1>s, PlacedAlone DEF Placed
    <3>2. side'[req[d].p] = side[req[d].p] /\ file'[req[d].p] = file[req[d].p]
      BY <3>1, <1>w
    <3> QED
      BY <3>1, <3>2, <1>a DEF PlacedRight, Current
  <2> QED
    BY <2>1 DEF PlacedSound
<1>4. FilesAgree'
  <2>1. ASSUME NEW p \in Versions, p \notin torn, \A d \in Clients : Placed(d)' => req'[d].p # p,
               NEW k \in Versions, Current(k, p)
        PROVE  FileRight(k, p)'
    <3>1. CASE p = r.p
      BY <3>1, <2>1, <1>s, <1>w, <1>a DEF PlacedRight, FileRight, Current
    <3>2. CASE p # r.p
      <4>1. \A d \in Clients : Placed(d) => req[d].p # p
        BY <3>2, <2>1, <1>m, <1>r DEF Placed
      <4> QED
        BY <3>2, <4>1, <2>1, <1>a, <1>w DEF PackageInv, FilesAgree, FileRight
    <3> QED
      BY <3>1, <3>2
  <2> QED
    BY <2>1, <1>a DEF FilesAgree, Current
<1>5. ContentsUnique'
  <2>1. proto \in {"npm", "go"} => q.v <= made
    BY <1>u, PackageFacts, ContentFacts
  <2> QED
    BY <2>1, <1>a, <1>u, ContentsAfter
<1>6. RowsSound' /\ TagsSound' /\ IndexSound'
  BY <1>a DEF PackageInv, RowsSound, RowSound, TagsSound, IndexSound
<1>7. UnpublishSound'
  BY <1>m, <1>u, <1>a DEF PackageInv, UnpublishSound, UnpublishRight
<1> QED
  BY <1>m, <1>1, <1>2, <1>3, <1>4, <1>5, <1>6, <1>7 DEF PackageInv

\* A step of a delete that takes a file or a second file of a path, and
\* notes when the path is somebody's.
LEMMA TakesFile ==
    ASSUME PackageInv, NEW c \in Clients, NEW r \in PackageRequest, NEW q \in PackageRequest,
           r = req[c], r.op = "delete", r.pc \notin Placing, r.p \in Versions,
           req' = [req EXCEPT ![c] = q], RequestSound(q), q.pc \notin Placing,
           UNCHANGED <<proto, row, index, tags, sess, tmp, made, shadowed>>,
           LocksKept(c), ~Unpublishing(q), q.op \in {"idle", "delete"}, OwnContent(c, q),
           proto \in {"npm", "go"} => q.v <= made,
           file' \in [Versions -> K!Content], side' \in [Versions -> K!Content],
           \A p \in Versions : p # r.p => file'[p] = file[p] /\ side'[p] = side[p],
           torn \subseteq torn', torn' \subseteq torn \cup {r.p},
           K!AtPath(r.p) # {} \/ lock[r.p] \notin {None, c} => r.p \in torn',
           proto = "npm" => torn' = {} /\ ~Placed(c) /\ \A d \in Clients : ~Placed(d)
    PROVE  PackageInv'
<1>m. /\ req' \in [Clients -> PackageRequest] /\ RequestsSound'
      /\ req'[c] = q /\ \A d \in Clients : d # c => req'[d] = req[d]
  BY RequestMoves
<1>1. K!TypeOK'
  <2>1. torn' \subseteq Versions
    BY PackageFacts
  <2> QED
    BY <2>1, <1>m, PackageFacts, PackageTypesNext DEF PackageSession, LocksKept
<1>2. LocksSound'
  BY LocksAfter
<1>p. \A d \in Clients : Placed(d)' <=> d # c /\ Placed(d)
  BY <1>m DEF Placed
<1>3. PlacedSound'
  <2>1. ASSUME NEW d \in Clients, Placed(d)' PROVE PlacedRight(req[d])'
    <3>1. d # c /\ Placed(d) /\ req'[d] = req[d] /\ PlacedRight(req[d]) /\ req[d].p \in Versions
      BY <2>1, <1>m, <1>p, PlacedAlone
    <3>2. CASE req[d].p # r.p
      <4>1. side'[req[d].p] = side[req[d].p] /\ file'[req[d].p] = file[req[d].p]
        BY <3>1, <3>2
      <4>2. req[d].p \in torn' <=> req[d].p \in torn
        BY <3>2
      <4> QED
        BY <3>1, <4>1, <4>2 DEF PlacedRight, Current
    <3>3. CASE req[d].p = r.p
      <4>1. proto # "npm" /\ lock[r.p] = d
        BY <3>1, <3>3 DEF PackageInv, LocksSound, K!LockOf
      <4>2. r.p \in torn'
        BY <4>1, <3>1, ContentFacts
      <4> QED
        BY <3>1, <3>3, <4>2 DEF PlacedRight, Current
    <3> QED
      BY <3>2, <3>3
  <2> QED
    BY <2>1 DEF PlacedSound
<1>4. FilesAgree'
  <2>1. ASSUME NEW p \in Versions, p \notin torn', \A d \in Clients : Placed(d)' => req'[d].p # p,
               NEW k \in Versions, Current(k, p)
        PROVE  FileRight(k, p)'
    <3>1. p # r.p
      BY <2>1, AtPathFacts DEF Current
    <3>2. \A d \in Clients : Placed(d) => req[d].p # p
      BY <3>1, <2>1, <1>m, <1>p
    <3>3. p \notin torn
      BY <2>1
    <3> QED
      BY <3>1, <3>2, <3>3, <2>1 DEF PackageInv, FilesAgree, FileRight
  <2> QED
    BY <2>1 DEF FilesAgree, Current
<1>5. ContentsUnique'
  BY ContentsAfter
<1>6. RowsSound' /\ TagsSound' /\ IndexSound'
  BY DEF PackageInv, RowsSound, RowSound, TagsSound, IndexSound
<1>7. UnpublishSound'
  BY <1>m DEF PackageInv, UnpublishSound, UnpublishRight, Unpublishing
<1> QED
  BY <1>m, <1>1, <1>2, <1>3, <1>4, <1>5, <1>6, <1>7 DEF PackageInv

\* The requests a delete goes on as.
LEMMA NextOfDelete ==
    ASSUME PackageInv, NEW c \in Clients, req[c].op = "delete", req[c].pc # "side",
           proto \in {"helm", "go"}, NEW x \in {"move", "side"}
    PROVE  \E q \in PackageRequest :
              /\ q = [req[c] EXCEPT !.pc = x]
              /\ q.pc = x /\ q.op = "delete" /\ q.k = req[c].k /\ q.p = req[c].p /\ q.v = req[c].v
              /\ RequestSound(q) /\ q.pc \notin Placing /\ ~Unpublishing(q) /\ OwnContent(c, q)
              /\ proto \in {"npm", "go"} => q.v <= made
<1>r. PICK r \in PackageRequest : r = req[c]
  BY PackageFacts
<1>q. PICK q : q = [r EXCEPT !.pc = x]
  OBVIOUS
<1>u. /\ q \in PackageRequest /\ q.pc = x /\ q.op = r.op /\ q.k = r.k /\ q.p = r.p /\ q.v = r.v
      /\ q.id = r.id /\ q.tags = r.tags
  BY <1>q DEF PackageRequest
<1>1. RequestSound(r)
  BY <1>r DEF PackageInv, RequestsSound
<1>2. RequestSound(q)
  BY <1>1, <1>r, <1>u DEF RequestSound
<1>3. OwnContent(c, q) /\ (proto \in {"npm", "go"} => q.v <= made)
  BY <1>r, <1>u, ContentsNow DEF OwnContent, KnowsRow
<1> QED
  BY <1>r, <1>q, <1>u, <1>2, <1>3 DEF Placing, Unpublishing

LEMMA IdleNext ==
    ASSUME PackageInv, NEW c \in Clients
    PROVE  \E q \in PackageRequest :
              /\ q = K!Idle /\ q.op = "idle" /\ q.pc = "idle" /\ q.v = 0
              /\ RequestSound(q) /\ q.pc \notin Placing /\ ~Unpublishing(q) /\ OwnContent(c, q)
              /\ proto \in {"npm", "go"} => q.v <= made
<1>1. PICK q \in PackageRequest : q = K!Idle
  BY IdleFacts
<1>2. q.op = "idle" /\ q.pc = "idle" /\ q.v = 0 /\ RequestSound(q)
  BY <1>1, IdleFacts
<1>3. 0 <= made
  BY PackageFacts, ContentFacts
<1> QED
  BY <1>1, <1>2, <1>3 DEF Placing, Unpublishing, OwnContent

LEMMA MoveToTrashStep ==
    ASSUME PackageInv, NEW c \in Clients, K!MoveToTrash(c)
    PROVE  PackageInv'
<1>f. /\ row \in [Versions -> PackageRow] /\ req \in [Clients -> PackageRequest]
      /\ side \in [Versions -> K!Content] /\ file \in [Versions -> K!Content]
      /\ lock \in [Versions \cup {0} -> Clients \cup {None}]
  BY PackageFacts
<1>r. PICK r \in PackageRequest : r = req[c]
  BY <1>f
<1>s. r.pc = "move" /\ r.op = "delete" /\ r.p \in Versions /\ r.k \in Versions /\ RequestSound(r)
  BY <1>r DEF K!MoveToTrash, PackageRequest, PackageInv, RequestsSound, RequestSound
<1>a. /\ file' = [file EXCEPT ![r.p] = 0]
      /\ torn' = IF K!AtPath(r.p) # {} \/ lock[r.p] \notin {None, c} THEN torn \cup {r.p} ELSE torn
      /\ UNCHANGED <<proto, row, side, index, tags, sess, tmp, made, shadowed>>
  BY <1>r DEF K!MoveToTrash
<1>w. /\ file' \in [Versions -> K!Content]
      /\ \A p \in Versions : p # r.p => file'[p] = file[p] /\ side'[p] = side[p]
  BY <1>a, <1>f, <1>s, ContentFacts
<1>t. /\ torn \subseteq torn' /\ torn' \subseteq torn \cup {r.p}
      /\ K!AtPath(r.p) # {} \/ lock[r.p] \notin {None, c} => r.p \in torn'
  BY <1>a
<1>n. ASSUME proto = "npm" PROVE torn' = {} /\ ~Placed(c) /\ \A d \in Clients : ~Placed(d)
  <2>1. torn = {} /\ row[r.k].c = 0 /\ r.p = r.k /\ lock[r.p] = None /\ lock[0] = c
    BY <1>n, <1>r, <1>s
       DEF PackageInv, UnpublishSound, UnpublishRight, RequestSound, LocksSound, Unpublishing
  <2>2. K!AtPath(r.p) = {}
    BY <2>1, <1>n, <1>s, AtPathFacts DEF PackageInv, RowsSound, RowSound
  <2>3. \A d \in Clients : ~Placed(d)
    BY <2>1, <1>n, <1>r, <1>s DEF PackageInv, LocksSound, K!LockOf, Placed, Placing
  <2> QED
    BY <2>1, <2>2, <2>3, <1>a
<1>q. PICK q \in PackageRequest :
        /\ req' = [req EXCEPT ![c] = q] /\ LocksKept(c)
        /\ RequestSound(q) /\ q.pc \notin Placing /\ ~Unpublishing(q) /\ OwnContent(c, q)
        /\ q.op \in {"idle", "delete"}
        /\ proto \in {"npm", "go"} => q.v <= made
  <2>1. CASE proto \in {"helm", "go"} /\ file[r.p] # 0
    <3>1. req' = [req EXCEPT ![c] = [req[c] EXCEPT !.pc = "side"]] /\ lock' = lock
      BY <2>1, <1>r DEF K!MoveToTrash, K!Goto
    <3>2. "side" \in {"move", "side"} /\ req[c].pc # "side"
      BY <1>r, <1>s
    <3> QED
      BY <2>1, <3>1, <3>2, <1>r, <1>s, LocksStay, NextOfDelete
  <2>2. CASE ~(proto \in {"helm", "go"} /\ file[r.p] # 0)
    <3>1. req' = [req EXCEPT ![c] = K!Idle] /\ K!Unlock(c)
      BY <2>2, <1>r DEF K!MoveToTrash, K!Leave, K!Done
    <3> QED
      BY <3>1, LocksStay, IdleNext
  <2> QED
    BY <2>1, <2>2
<1> QED
  BY <1>r, <1>s, <1>a, <1>w, <1>t, <1>n, <1>q, <1>f, TakesFile DEF Placing

LEMMA MoveSideStep ==
    ASSUME PackageInv, NEW c \in Clients, K!MoveSide(c)
    PROVE  PackageInv'
<1>f. /\ row \in [Versions -> PackageRow] /\ req \in [Clients -> PackageRequest]
      /\ side \in [Versions -> K!Content] /\ file \in [Versions -> K!Content]
      /\ lock \in [Versions \cup {0} -> Clients \cup {None}]
  BY PackageFacts
<1>r. PICK r \in PackageRequest : r = req[c]
  BY <1>f
<1>s. r.pc = "side" /\ r.op = "delete" /\ r.p \in Versions /\ proto # "npm"
  BY <1>r DEF K!MoveSide, PackageRequest, PackageInv, RequestsSound, RequestSound
<1>a. /\ side' = [side EXCEPT ![r.p] = 0] \/ side' = side
      /\ torn' = IF K!AtPath(r.p) # {} \/ lock[r.p] # None THEN torn \cup {r.p} ELSE torn
      /\ req' = [req EXCEPT ![c] = K!Idle]
      /\ UNCHANGED <<proto, row, file, index, tags, lock, sess, tmp, made, shadowed>>
  BY <1>r DEF K!MoveSide, K!Done
<1>w. /\ side' \in [Versions -> K!Content]
      /\ \A p \in Versions : p # r.p => file'[p] = file[p] /\ side'[p] = side[p]
  BY <1>a, <1>f, <1>s, ContentFacts
<1>t. /\ torn \subseteq torn' /\ torn' \subseteq torn \cup {r.p}
      /\ K!AtPath(r.p) # {} \/ lock[r.p] \notin {None, c} => r.p \in torn'
  BY <1>a
<1>q. PICK q \in PackageRequest :
        /\ req' = [req EXCEPT ![c] = q] /\ LocksKept(c)
        /\ RequestSound(q) /\ q.pc \notin Placing /\ ~Unpublishing(q) /\ OwnContent(c, q)
        /\ q.op \in {"idle", "delete"}
        /\ proto \in {"npm", "go"} => q.v <= made
  BY <1>a, LocksStay, IdleNext
<1> QED
  BY <1>r, <1>s, <1>a, <1>w, <1>t, <1>q, <1>f, TakesFile DEF Placing

\* The versions are bounded, so any that are left have a highest one.
LEMMA HighestVersion ==
    ASSUME NEW S \in SUBSET Versions, S # {}
    PROVE  K!Max(S) \in S
<1>1. PICK n \in Versions \cup {0} : Versions \subseteq 1 .. n
  BY PackagesAssumption
<1>2. n \in Nat
  BY <1>1, ContentFacts
<1> DEFINE R == OpToRel(<, Nat)
           T == {n - x : x \in S}
<1>3. IsWellFoundedOn(R, Nat)
  BY NatLessThanWellFounded
<1>4. T \subseteq Nat /\ T # {}
  <2>1. ASSUME NEW x \in S PROVE n - x \in Nat
    <3>1. x \in 1 .. n
      BY <1>1
    <3> QED
      BY <3>1, <1>2
  <2> QED
    BY <2>1
<1>5. PICK y \in T : \A z \in T : <<z, y>> \notin R
  <2> HIDE DEF R, T
  <2> QED
    BY <1>3, <1>4, WFMin
<1>6. PICK x \in S : y = n - x
  BY <1>5
<1>7. ASSUME NEW z \in S PROVE x >= z
  <2>1. n - z \in T /\ <<n - z, y>> \notin R
    BY <1>5
  <2>2. ~(n - z < y)
    BY <2>1, <1>4 DEF OpToRel
  <2> QED
    BY <2>2, <1>6, <1>1, <1>2, ContentFacts
<1> QED
  BY <1>7 DEF K!Max

\* Rows that a transaction deletes: nothing else of the others changes.
LEMMA RowsGo ==
    ASSUME PackageInv, NEW gone \in SUBSET Versions,
           row' = [k \in Versions |-> IF k \in gone THEN K!NoRow ELSE row[k]],
           shadowed' = shadowed \ gone,
           UNCHANGED <<proto, file, side, torn>>
    PROVE  /\ row' \in [Versions -> PackageRow] /\ RowsSound'
           /\ \A k \in Versions : row'[k] = row[k] \/ (k \in gone /\ row'[k].c = 0)
           /\ \A k \in gone : row'[k].c = 0
           /\ \A k \in Versions, p \in Versions : Current(k, p)' => Current(k, p) /\ row'[k] = row[k]
<1>f. row \in [Versions -> PackageRow]
  BY PackageFacts
<1>n. PICK n : n = K!NoRow
  OBVIOUS
<1>1. n \in PackageRow /\ n.c = 0 /\ n.id = 0
  BY <1>n, ContentFacts DEF K!NoRow, PackageRow
<1>2. /\ row' \in [Versions -> PackageRow]
      /\ \A k \in Versions : row'[k] = IF k \in gone THEN n ELSE row[k]
  BY <1>f, <1>n, <1>1
<1>3. RowsSound'
  BY <1>1, <1>2 DEF PackageInv, RowsSound, RowSound
<1>4. \A k \in Versions, p \in Versions : Current(k, p)' => Current(k, p) /\ row'[k] = row[k]
  BY <1>1, <1>2 DEF Current
<1> QED
  BY <1>1, <1>2, <1>3, <1>4

LEMMA DeletedFacts ==
    ASSUME PackageInv, NEW r \in PackageRequest, r.p \in Versions, r.k \in Versions
    PROVE  /\ K!DeletedRows(r) \subseteq Versions
           /\ proto # "deb" =>
                 \A k : k \in K!DeletedRows(r) <=> k = r.k /\ row[k].c # 0 /\ row[k].id = r.id
  BY AtPathFacts DEF K!DeletedRows, K!DeleteByStoragePoolPath, K!Has

\* What the search index has after the transaction.
LEMMA IndexAfterDelete ==
    ASSUME PackageInv, NEW r \in PackageRequest, r.op = "delete", r.pc = "tx", RequestSound(r),
           proto \in {"npm", "go"} => KnowsRow(r), proto = "npm" => UnpublishRight(r),
           row' = [k \in Versions |-> IF k \in K!DeletedRows(r) THEN K!NoRow ELSE row[k]],
           shadowed' = shadowed \ K!DeletedRows(r),
           UNCHANGED <<proto, file, side, torn>>,
           index' = IF r.v = 0 THEN index ELSE K!IndexDelete(r.k, r.v)
    PROVE  index' \subseteq index /\ IndexSound'
<1>f. index \subseteq Versions \X K!Content
  BY PackageFacts
<1>d. /\ r.p \in Versions /\ r.k \in Versions /\ K!DeletedRows(r) \subseteq Versions
      /\ proto # "deb" =>
            \A k : k \in K!DeletedRows(r) <=> k = r.k /\ row[k].c # 0 /\ row[k].id = r.id
  BY DeletedFacts DEF RequestSound
<1>g. /\ \A k \in Versions : row'[k] = row[k] \/ (k \in K!DeletedRows(r) /\ row'[k].c = 0)
      /\ \A k \in K!DeletedRows(r) : row'[k].c = 0
  BY <1>d, RowsGo
<1>i. index' = IF r.v = 0 THEN index
               ELSE IF proto \in {"npm", "go"} THEN {e \in index : e[2] # r.v}
               ELSE IF proto = "helm" THEN index \ {<<r.k, r.v>>}
               ELSE {e \in index : e[1] # r.k}
  BY DEF K!IndexDelete, K!IndexPackageDelete, K!IndexHelmDelete, K!IndexRPMDelete
<1>1. index' \subseteq index
  BY <1>i
<1>2. r.v = 0 => r.id = 0
  BY DEF RequestSound
<1>3. proto # "deb" /\ r.k \in K!DeletedRows(r) => r.v # 0
  BY <1>2, <1>d DEF PackageInv, RowsSound, RowSound
<1>4. ASSUME proto \in {"rpm", "maven", "pypi"}, NEW e \in index' PROVE row'[e[1]].c # 0
  <2>1. e \in index /\ e[1] \in Versions /\ row[e[1]].c # 0
    BY <1>4, <1>1, <1>f DEF PackageInv, IndexSound
  <2>2. e[1] \notin K!DeletedRows(r)
    BY <2>1, <1>3, <1>4, <1>d, <1>i
  <2> QED
    BY <2>1, <2>2, <1>g
<1>5. ASSUME proto = "npm", NEW e \in index' PROVE row'[e[1]].c # 0 /\ e[2] = row'[e[1]].c
  <2>1. e \in index /\ e[1] \in Versions /\ row[e[1]].c # 0 /\ e[2] = row[e[1]].c
    BY <1>5, <1>1, <1>f DEF PackageInv, IndexSound
  <2>2. e[1] \notin K!DeletedRows(r)
    BY <2>1, <1>3, <1>5, <1>d, <1>i DEF UnpublishRight
  <2> QED
    BY <2>1, <2>2, <1>g
<1>6. ASSUME proto \in {"npm", "go"}, NEW k \in Versions, row'[k].c # 0 PROVE <<k, row'[k].c>> \in index'
  <2>1. row'[k] = row[k] /\ k \notin K!DeletedRows(r) /\ row[k].c # 0
    BY <1>6, <1>g
  <2>2. <<k, row[k].c>> \in index
    BY <1>6, <2>1 DEF PackageInv, IndexSound
  <2>3. CASE r.v = 0
    BY <2>1, <2>2, <2>3, <1>i
  <2>4. CASE r.v # 0
    <3>1. row[k].c # r.v
      BY <2>4, <2>1, <1>6, <1>d DEF KnowsRow
    <3> QED
      BY <3>1, <2>1, <2>2, <2>4, <1>6, <1>i
  <2> QED
    BY <2>3, <2>4
<1> QED
  BY <1>1, <1>4, <1>5, <1>6 DEF IndexSound

\* The tags of the versions that are left.
LEMMA TagsAfterDelete ==
    ASSUME PackageInv, NEW r \in PackageRequest, r.p \in Versions, r.k \in Versions,
           row' = [k \in Versions |-> IF k \in K!DeletedRows(r) THEN K!NoRow ELSE row[k]],
           shadowed' = shadowed \ K!DeletedRows(r),
           UNCHANGED <<proto, file, side, torn>>,
           tags' = IF proto = "npm" THEN K!DropDistTags(r) ELSE tags
    PROVE  tags' \in [DistTags -> Versions \cup {0}] /\ TagsSound'
<1>f. tags \in [DistTags -> Versions \cup {0}]
  BY PackageFacts
<1>d. /\ K!DeletedRows(r) \subseteq Versions
      /\ proto = "npm" => \A k : k \in K!DeletedRows(r) => k = r.k
  BY DeletedFacts
<1>g. \A k \in Versions : row'[k] = row[k] \/ k \in K!DeletedRows(r)
  BY <1>d, RowsGo
<1>1. CASE proto # "npm"
  <2>1. tags' = tags /\ \A t \in DistTags : tags[t] = 0
    BY <1>1 DEF PackageInv, TagsSound
  <2> QED
    BY <2>1, <1>f DEF TagsSound
<1>2. CASE proto = "npm"
  <2> DEFINE left == {k \in Versions : row[k].c # 0} \ {r.k}
  <2>1. PICK h \in left \cup {0} : h = K!highestVersion(left)
    <3>1. left \in SUBSET Versions
      OBVIOUS
    <3> HIDE DEF left
    <3> QED
      BY <3>1, HighestVersion DEF K!highestVersion
  <2>2. tags' = [t \in DistTags |-> IF tags[t] # r.k THEN tags[t] ELSE IF t = "latest" THEN h ELSE 0]
    BY <1>2, <2>1 DEF K!DropDistTags, K!Has
  <2>3. tags' \in [DistTags -> Versions \cup {0}]
    BY <2>2, <1>f
  <2>4. ASSUME NEW t \in DistTags, tags'[t] # 0
        PROVE  tags'[t] \in Versions /\ tags'[t] # r.k /\ row[tags'[t]].c # 0
    BY <2>1, <2>2, <2>4 DEF PackageInv, TagsSound
  <2>5. TagsSound'
    BY <2>4, <1>2, <1>d, <1>g DEF TagsSound
  <2> QED
    BY <2>3, <2>5
<1> QED
  BY <1>1, <1>2

LEMMA DeleteTxStep ==
    ASSUME PackageInv, NEW c \in Clients, K!DeleteTx(c)
    PROVE  PackageInv'
<1>f. /\ row \in [Versions -> PackageRow] /\ req \in [Clients -> PackageRequest]
      /\ made \in K!Content /\ index \subseteq Versions \X K!Content
  BY PackageFacts
<1>r. PICK r \in PackageRequest : r = req[c]
  BY <1>f
<1>s. r.pc = "tx" /\ r.op = "delete" /\ r.p \in Versions /\ r.k \in Versions /\ RequestSound(r)
  BY <1>r DEF K!DeleteTx, PackageRequest, PackageInv, RequestsSound, RequestSound
<1>o. OwnContent(c, r) /\ (proto \in {"npm", "go"} => r.v <= made /\ KnowsRow(r))
  BY <1>r, <1>s, ContentsNow DEF OwnContent
<1>l. proto = "npm" => UnpublishRight(r) /\ lock[0] = c
  BY <1>r, <1>s DEF PackageInv, UnpublishSound, LocksSound, Unpublishing
<1> DEFINE gone == K!DeletedRows(r)
<1>d. /\ gone \subseteq Versions
      /\ proto # "deb" => \A k : k \in gone <=> k = r.k /\ row[k].c # 0 /\ row[k].id = r.id
  BY <1>s, DeletedFacts
<1>a. /\ row' = [k \in Versions |-> IF k \in gone THEN K!NoRow ELSE row[k]]
      /\ index' = IF r.v = 0 THEN index ELSE K!IndexDelete(r.k, r.v)
      /\ shadowed' = shadowed \ gone
      /\ tags' = IF proto = "npm" THEN K!DropDistTags(r) ELSE tags
      /\ IF K!AfterTx(r) = "idle" THEN K!Leave(c) ELSE K!Goto(c, K!AfterTx(r)) /\ lock' = lock
      /\ UNCHANGED <<proto, file, side, sess, tmp, made, torn>>
  BY <1>r DEF K!DeleteTx
<1>g. /\ row' \in [Versions -> PackageRow] /\ RowsSound'
      /\ \A k \in Versions : row'[k] = row[k] \/ (k \in gone /\ row'[k].c = 0)
      /\ \A k \in gone : row'[k].c = 0
      /\ \A k \in Versions, p \in Versions : Current(k, p)' => Current(k, p) /\ row'[k] = row[k]
  BY <1>a, <1>d, RowsGo
<1>i. index' \subseteq index /\ IndexSound'
  BY <1>a, <1>s, <1>o, <1>l, IndexAfterDelete
<1>t. tags' \in [DistTags -> Versions \cup {0}] /\ TagsSound'
  BY <1>a, <1>s, TagsAfterDelete
<1>q. PICK q \in PackageRequest :
        /\ req' = [req EXCEPT ![c] = q] /\ LocksKept(c)
        /\ RequestSound(q) /\ q.pc \notin Placing
        /\ \/ q.op = "idle" /\ q.pc = "idle" /\ q.v = 0
           \/ q.op = "delete" /\ q.pc \in {"move", "side"} /\ q.k = r.k /\ q.v = r.v /\ lock' = lock
  <2>1. CASE K!AfterTx(r) = "idle"
    <3>1. req' = [req EXCEPT ![c] = K!Idle] /\ K!Unlock(c)
      BY <2>1, <1>a DEF K!Leave, K!Done
    <3>2. LocksKept(c)
      BY <3>1, LocksStay
    <3> QED
      BY <3>1, <3>2, IdleNext
  <2>2. CASE K!AfterTx(r) # "idle"
    <3>1. PICK x \in {"move", "side"} : x = K!AfterTx(r) /\ (x = "side" => proto \in {"helm", "go"})
      BY <2>2 DEF K!AfterTx
    <3>2. PICK q : q = [r EXCEPT !.pc = x]
      OBVIOUS
    <3>3. /\ q \in PackageRequest /\ q.pc = x /\ q.op = r.op /\ q.k = r.k /\ q.p = r.p /\ q.v = r.v
          /\ q.id = r.id /\ q.tags = r.tags
      BY <3>2 DEF PackageRequest
    <3>4. RequestSound(q)
      BY <3>1, <3>3, <1>s DEF RequestSound
    <3>5. req' = [req EXCEPT ![c] = q] /\ lock' = lock
      BY <2>2, <3>1, <3>2, <1>a, <1>r DEF K!Goto
    <3>6. LocksKept(c)
      BY <3>5, LocksStay
    <3> QED
      BY <3>1, <3>3, <3>4, <3>5, <3>6, <1>s DEF Placing
  <2> QED
    BY <2>1, <2>2
<1>m. /\ req' \in [Clients -> PackageRequest] /\ RequestsSound'
      /\ req'[c] = q /\ \A d \in Clients : d # c => req'[d] = req[d]
  BY <1>q, <1>a, RequestMoves
<1>p. /\ \A d \in Clients : Placed(d)' <=> Placed(d)
      /\ ~Placed(c)
  BY <1>m, <1>q, <1>r, <1>s DEF Placed, Placing
<1>1. K!TypeOK'
  <2>1. index' \subseteq Versions \X K!Content /\ shadowed' \subseteq Versions
    BY <1>i, <1>f, <1>a, PackageFacts
  <2> HIDE DEF gone
  <2> QED
    BY <2>1, <1>g, <1>t, <1>q, <1>m, <1>a, PackageFacts, PackageTypesNext DEF PackageSession, LocksKept
<1>2. LocksSound'
  <2>1. Unpublishing(q) => lock'[0] = c
    BY <1>q, <1>l DEF Unpublishing
  <2> QED
    BY <2>1, <1>q, <1>a, LocksAfter
<1>3. PlacedSound'
  <2>1. ASSUME NEW d \in Clients, Placed(d)' PROVE PlacedRight(req[d])'
    <3>1. d # c /\ Placed(d) /\ req'[d] = req[d] /\ PlacedRight(req[d]) /\ req[d].p \in Versions
      BY <2>1, <1>m, <1>p, PlacedAlone
    <3>2. \A k \in Versions : row'[k].c # 0 => row'[k] = row[k]
      BY <1>g
    <3>3. \A k \in Versions : Current(k, req[d].p)' => Current(k, req[d].p) /\ row'[k] = row[k]
      BY <1>g, <3>1
    <3>4. UNCHANGED <<proto, file, side, torn>>
      BY <1>a
    <3>5. PICK s \in PackageRequest : s = req[d] /\ s = req'[d]
      BY <3>1, <1>f
    <3>6. \A k \in Versions : Current(k, s.p)' => Current(k, s.p) /\ row'[k] = row[k]
      BY <3>3, <3>5, <3>1, <1>g
    <3>7. PlacedRight(s)'
      BY <3>1, <3>2, <3>4, <3>5, <3>6 DEF PlacedRight
    <3> QED
      BY <3>5, <3>7 DEF PlacedRight, Current
  <2> QED
    BY <2>1 DEF PlacedSound
<1>4. FilesAgree'
  <2>1. ASSUME NEW p \in Versions, p \notin torn, \A d \in Clients : Placed(d)' => req'[d].p # p,
               NEW k \in Versions, Current(k, p)'
        PROVE  FileRight(k, p)'
    <3>1. Current(k, p) /\ row'[k] = row[k]
      BY <2>1, <1>g
    <3>2. \A d \in Clients : Placed(d) => req[d].p # p
      BY <2>1, <1>m, <1>p
    <3> QED
      BY <3>1, <3>2, <2>1, <1>a DEF PackageInv, FilesAgree, FileRight
  <2> QED
    BY <2>1, <1>a DEF FilesAgree
<1>5. UnpublishSound'
  <2>1. ASSUME proto = "npm", NEW d \in Clients, req'[d].op = "delete" PROVE UnpublishRight(req[d])'
    <3>1. d = c
      BY <2>1, <1>m, <1>l DEF PackageInv, LocksSound, RequestsSound, RequestSound, Unpublishing
    <3>2. row'[r.k].c = 0
      BY <2>1, <1>l, <1>d, <1>g, <1>s DEF UnpublishRight
    <3> QED
      BY <3>1, <3>2, <2>1, <1>m, <1>q DEF UnpublishRight
  <2>2. proto = "npm" => torn' = {}
    BY <1>a DEF PackageInv, UnpublishSound
  <2> QED
    BY <2>1, <2>2, <1>a DEF UnpublishSound
<1>6. ContentsUnique'
  <2>0. \A k \in Versions : row'[k].c = 0 \/ row'[k] = row[k]
    BY <1>g
  <2>1. ASSUME proto \in {"npm", "go"}
        PROVE  /\ \A k \in Versions : row'[k].c <= made
               /\ \A d \in Clients : req'[d].v <= made
               /\ StoredOnce'
    <3>1. \A k \in Versions : row'[k].c <= made
      BY <2>0, <2>1, <1>f, ContentFacts DEF PackageInv, ContentsUnique
    <3>2. q.v <= made
      BY <2>1, <1>q, <1>o, <1>f, ContentFacts
    <3>3. \A d \in Clients : req'[d].v <= made
      BY <3>2, <2>1, <1>m DEF PackageInv, ContentsUnique
    <3>4. StoredOnce'
      BY <2>0, <2>1 DEF PackageInv, ContentsUnique, StoredOnce
    <3> QED
      BY <3>1, <3>3, <3>4
  <2>2. ASSUME proto \in {"npm", "go"}, NEW d \in Clients, req'[d].op = "put"
        PROVE  /\ NotStored(req[d])'
               /\ \A e \in Clients : e # d /\ req'[e].op \in {"put", "delete"} => req'[e].v # req'[d].v
    <3>1. d # c /\ req'[d] = req[d] /\ req[d].op = "put" /\ NotStored(req[d]) /\ req[d].v # 0
      BY <2>2, <1>m, <1>q DEF PackageInv, ContentsUnique, RequestsSound, RequestSound
    <3>2. NotStored(req[d])'
      BY <3>1, <2>0 DEF NotStored
    <3>3. ASSUME NEW e \in Clients, e # d, req'[e].op \in {"put", "delete"} PROVE req'[e].v # req'[d].v
      BY <3>1, <3>3, <2>2, <1>m, <1>q, <1>r, <1>s DEF PackageInv, ContentsUnique
    <3> QED
      BY <3>2, <3>3
  <2>3. ASSUME proto \in {"npm", "go"}, NEW d \in Clients, req'[d].op = "delete"
        PROVE  KnowsRow(req[d])'
    <3>1. CASE d = c
      BY <3>1, <2>3, <1>m, <1>q DEF KnowsRow
    <3>2. CASE d # c
      BY <3>2, <2>0, <2>3, <1>m DEF KnowsRow, PackageInv, ContentsUnique
    <3> QED
      BY <3>1, <3>2
  <2> QED
    BY <2>1, <2>2, <2>3, <1>a DEF ContentsUnique
<1> QED
  BY <1>g, <1>i, <1>t, <1>m, <1>1, <1>2, <1>3, <1>4, <1>5, <1>6 DEF PackageInv

\* The row an upload stores: the other versions stay, and the rows whose
\* path it takes are shadowed.
LEMMA InsertFacts ==
    ASSUME PackageInv, NEW c \in Clients, NEW k \in Versions, NEW p \in Versions, NEW v \in K!Content,
           v # 0, proto \notin {"deb", "helm"} => p = k, K!Insert(c, k, p, v), proto' = proto
    PROVE  /\ row' \in [Versions -> PackageRow] /\ RowsSound'
           /\ index' \subseteq Versions \X K!Content /\ shadowed' \subseteq Versions
           /\ row'[k].c = v /\ row'[k].path = p
           /\ \A j \in Versions : j # k => row'[j] = row[j]
           /\ \A j \in Versions, x \in Versions :
                 Current(j, x)' => \/ j = k /\ x = p
                                   \/ j # k /\ x # p /\ Current(j, x) /\ row'[j] = row[j]
<1>f. row \in [Versions -> PackageRow] /\ index \subseteq Versions \X K!Content /\ shadowed \subseteq Versions
  BY PackageFacts
<1>1. PICK i \in K!Content : i = (IF K!Has(k) THEN row[k].id ELSE v) /\ i # 0
  BY <1>f DEF K!Has, PackageRow, PackageInv, RowsSound, RowSound
<1>2. PICK n : n = [c |-> v, id |-> i, path |-> p]
  OBVIOUS
<1>3. n \in PackageRow /\ n.c = v /\ n.id = i /\ n.path = p
  BY <1>2 DEF PackageRow
<1>4. row' = [row EXCEPT ![k] = n]
  BY <1>1, <1>2 DEF K!Insert
<1>5. /\ row' \in [Versions -> PackageRow] /\ row'[k] = n
      /\ \A j \in Versions : j # k => row'[j] = row[j]
  BY <1>3, <1>4, <1>f
<1>6. RowsSound'
  BY <1>1, <1>3, <1>5 DEF PackageInv, RowsSound, RowSound
<1>7. index' \subseteq Versions \X K!Content
  BY <1>f DEF K!Insert, K!IndexDelete, K!IndexPackageDelete, K!IndexHelmDelete, K!IndexRPMDelete
<1>8. /\ shadowed' \subseteq Versions
      /\ \A j \in Versions : j # k => (j \in shadowed' <=> j \in shadowed \/ (row[j].c # 0 /\ row[j].path = p))
  BY <1>f, AtPathFacts DEF K!Insert
<1>9. ASSUME NEW j \in Versions, NEW x \in Versions, Current(j, x)'
      PROVE  \/ j = k /\ x = p
             \/ j # k /\ x # p /\ Current(j, x) /\ row'[j] = row[j]
  BY <1>9, <1>3, <1>5, <1>8 DEF Current
<1> QED
  BY <1>3, <1>5, <1>6, <1>7, <1>8, <1>9

\* A session goes on with one of its files; every other upload is over.
LEMMA NextOfSessionFacts ==
    ASSUME PackageInv, NEW c \in Clients, Placed(c), K!NextOfSession(c)
    PROVE  /\ sess' \in PackageSession /\ tmp' \subseteq K!Content
           /\ \E q \in PackageRequest :
                /\ req' = [req EXCEPT ![c] = q] /\ RequestSound(q) /\ q.pc \notin Placing
                /\ q.op \in {"idle", "session"} /\ (proto \in {"npm", "go"} => q.v = 0)
<1>f. sess \in PackageSession /\ tmp \subseteq K!Content
  BY PackageFacts DEF PackageSession
<1>r. PICK r \in PackageRequest : r = req[c]
  BY PackageFacts
<1>s. RequestSound(r) /\ r.op \in {"put", "session"}
  BY <1>r, PlacedAlone DEF PackageInv, RequestsSound
<1>t. PICK T \in SUBSET (Versions \X K!Content) : T = r.todo \ {<<r.k, r.v>>} /\ T \subseteq r.todo
  BY DEF PackageRequest
<1>1. CASE r.op = "session" /\ T # {}
  <2>1. PICK e \in T :
          req' = [req EXCEPT ![c] = [r EXCEPT !.pc = "staged", !.k = e[1], !.p = e[1], !.v = e[2],
                                              !.todo = T]]
    BY <1>1, <1>r, <1>t DEF K!NextOfSession
  <2>2. PICK q : q = [r EXCEPT !.pc = "staged", !.k = e[1], !.p = e[1], !.v = e[2], !.todo = T]
    OBVIOUS
  <2>3. e[1] \in Versions /\ e[2] \in K!Content /\ e[2] # 0
    BY <1>1, <1>s, <1>t DEF RequestSound
  <2>4. /\ q \in PackageRequest /\ q.op = r.op /\ q.pc = "staged" /\ q.k = e[1] /\ q.p = e[1]
        /\ q.v = e[2] /\ q.todo = T /\ q.tags = r.tags
    BY <2>2, <2>3 DEF PackageRequest
  <2>5. RequestSound(q) /\ proto = "pypi"
    BY <2>3, <2>4, <1>1, <1>s, <1>t DEF RequestSound
  <2>6. UNCHANGED <<sess, tmp>>
    BY <1>1, <1>r, <1>t DEF K!NextOfSession
  <2> QED
    BY <2>1, <2>2, <2>4, <2>5, <2>6, <1>1, <1>f DEF Placing
<1>2. CASE ~(r.op = "session" /\ T # {})
  <2>1. req' = [req EXCEPT ![c] = K!Idle]
    BY <1>2, <1>r, <1>t DEF K!NextOfSession, K!Done
  <2>2. (sess' = [sess EXCEPT !.st = "gone"] \/ sess' = sess) /\ tmp' \subseteq tmp
    BY <1>2, <1>r, <1>t DEF K!NextOfSession
  <2>3. sess' \in PackageSession
    BY <2>2, <1>f DEF PackageSession
  <2> QED
    BY <2>1, <2>2, <2>3, <1>f, IdleNext
<1> QED
  BY <1>1, <1>2

LEMMA CommitStep ==
    ASSUME PackageInv, NEW c \in Clients, K!Commit(c)
    PROVE  PackageInv'
<1>f. /\ row \in [Versions -> PackageRow] /\ req \in [Clients -> PackageRequest]
      /\ made \in K!Content /\ index \subseteq Versions \X K!Content
      /\ tags \in [DistTags -> Versions \cup {0}]
  BY PackageFacts
<1>r. PICK r \in PackageRequest : r = req[c]
  BY <1>f
<1>n. Placed(c) /\ r.pc = "commit"
  BY <1>r DEF K!Commit, Placed, Placing
<1>s. /\ r.p \in Versions /\ r.k \in Versions /\ r.v # 0 /\ RequestSound(r) /\ PlacedRight(r)
      /\ r.op \in {"put", "session"} /\ r.v \in K!Content /\ r.tags \subseteq DistTags
      /\ proto \notin {"deb", "helm"} => r.p = r.k
      /\ \A d \in Clients : d # c /\ Placed(d) => req[d].p # r.p
      /\ proto = "npm" => \A d \in Clients : d # c => ~Placed(d) /\ ~Unpublishing(req[d])
  BY <1>r, <1>n, PlacedAlone DEF PackageInv, RequestsSound, RequestSound, PackageRequest
<1>e. ~K!FileExists(r.p)
  BY <1>s, AtPathFacts DEF K!FileExists, PlacedRight
<1>a. /\ K!Insert(c, r.k, r.p, r.v) /\ K!SetDistTags(r.k, r.tags) /\ K!NextOfSession(c) /\ K!Unlock(c)
      /\ torn' = IF file[r.p] = r.v /\ (proto = "go" => side[r.p] = r.v) THEN torn \ {r.p} ELSE torn
      /\ UNCHANGED <<proto, file, side, made>>
  BY <1>e, <1>r DEF K!Commit
<1>i. /\ row' \in [Versions -> PackageRow] /\ RowsSound'
      /\ index' \subseteq Versions \X K!Content /\ shadowed' \subseteq Versions
      /\ row'[r.k].c = r.v /\ row'[r.k].path = r.p
      /\ \A j \in Versions : j # r.k => row'[j] = row[j]
      /\ \A j \in Versions, x \in Versions :
            Current(j, x)' => \/ j = r.k /\ x = r.p
                              \/ j # r.k /\ x # r.p /\ Current(j, x) /\ row'[j] = row[j]
  BY <1>a, <1>s, InsertFacts
<1>z. sess' \in PackageSession /\ tmp' \subseteq K!Content
  BY <1>a, <1>n, NextOfSessionFacts
<1>q. PICK q \in PackageRequest :
        /\ req' = [req EXCEPT ![c] = q] /\ RequestSound(q) /\ q.pc \notin Placing
        /\ q.op \in {"idle", "session"} /\ (proto \in {"npm", "go"} => q.v = 0)
  BY <1>a, <1>n, NextOfSessionFacts
<1>m. /\ req' \in [Clients -> PackageRequest] /\ RequestsSound'
      /\ req'[c] = q /\ \A d \in Clients : d # c => req'[d] = req[d]
  BY <1>q, <1>a, RequestMoves
<1>p. \A d \in Clients : Placed(d)' <=> d # c /\ Placed(d)
  BY <1>m, <1>q DEF Placed
<1>k. LocksKept(c)
  BY <1>a, LocksStay
<1>t. tags' \in [DistTags -> Versions \cup {0}] /\ TagsSound'
  <2>1. tags' = [t \in DistTags |-> IF t \in r.tags THEN r.k ELSE tags[t]]
    BY <1>a DEF K!SetDistTags
  <2>2. tags' \in [DistTags -> Versions \cup {0}]
    BY <2>1, <1>f, <1>s
  <2>3. ASSUME NEW t \in DistTags, tags'[t] # 0
        PROVE  proto = "npm" /\ tags'[t] \in Versions /\ row'[tags'[t]].c # 0
    <3>1. CASE t \in r.tags
      BY <3>1, <2>1, <1>s, <1>i DEF RequestSound
    <3>2. CASE t \notin r.tags
      <4>1. tags'[t] = tags[t] /\ proto = "npm" /\ tags[t] \in Versions /\ row[tags[t]].c # 0
        BY <3>2, <2>1, <2>3 DEF PackageInv, TagsSound
      <4> QED
        BY <4>1, <1>i, <1>s
    <3> QED
      BY <3>1, <3>2
  <2> QED
    BY <2>2, <2>3, <1>a DEF TagsSound
<1>1. K!TypeOK'
  <2>1. torn' \subseteq Versions
    BY <1>a, PackageFacts
  <2> QED
    BY <2>1, <1>i, <1>t, <1>z, <1>k, <1>m, <1>a, PackageFacts, PackageTypesNext DEF LocksKept
<1>2. LocksSound'
  <2>1. ~Unpublishing(q)
    BY <1>q DEF Unpublishing
  <2> QED
    BY <2>1, <1>q, <1>a, <1>k, LocksAfter
<1>3. PlacedSound'
  <2>1. ASSUME NEW d \in Clients, Placed(d)' PROVE PlacedRight(req[d])'
    <3>1. PICK s \in PackageRequest : s = req[d] /\ s = req'[d]
      BY <2>1, <1>f, <1>m, <1>p
    <3>2. d # c /\ Placed(d) /\ PlacedRight(s) /\ s.p \in Versions /\ s.p # r.p /\ proto # "npm"
      BY <2>1, <3>1, <1>p, <1>s, PlacedAlone
    <3>3. s.p \in torn' <=> s.p \in torn
      BY <3>2, <1>a
    <3>4. \A j \in Versions : Current(j, s.p)' => Current(j, s.p) /\ row'[j] = row[j]
      BY <3>2, <1>i
    <3>5. proto \in {"npm", "pypi"} => \A j \in Versions : row'[j].c # 0 => row'[j].path # s.p
      <4>1. SUFFICES ASSUME proto \in {"npm", "pypi"}, NEW j \in Versions, row'[j].c # 0
                     PROVE  row'[j].path # s.p
        OBVIOUS
      <4>2. CASE j = r.k
        BY <4>2, <3>2, <1>i
      <4>3. CASE j # r.k
        BY <4>1, <4>3, <3>2, <1>i DEF PlacedRight
      <4> QED
        BY <4>2, <4>3
    <3>6. PlacedRight(s)'
      BY <3>2, <3>3, <3>4, <3>5, <1>a DEF PlacedRight
    <3> QED
      BY <3>1, <3>6 DEF PlacedRight, Current
  <2> QED
    BY <2>1 DEF PlacedSound
<1>4. FilesAgree'
  <2>1. ASSUME NEW p \in Versions, p \notin torn', \A d \in Clients : Placed(d)' => req'[d].p # p,
               NEW k \in Versions, Current(k, p)'
        PROVE  FileRight(k, p)'
    <3>1. CASE p = r.p
      <4>1. k = r.k
        BY <3>1, <2>1, <1>i
      <4>2. file[r.p] = r.v /\ (proto = "go" => side[r.p] = r.v)
        BY <3>1, <2>1, <1>a, <1>s, <1>n DEF PlacedRight
      <4> QED
        BY <3>1, <4>1, <4>2, <1>a, <1>i DEF FileRight
    <3>2. CASE p # r.p
      <4>1. Current(k, p) /\ row'[k] = row[k] /\ p \notin torn
        BY <3>2, <2>1, <1>i, <1>a
      <4>2. \A d \in Clients : Placed(d) => req[d].p # p
        BY <3>2, <2>1, <1>m, <1>p, <1>r
      <4> QED
        BY <4>1, <4>2, <1>a DEF PackageInv, FilesAgree, FileRight
    <3> QED
      BY <3>1, <3>2
  <2> QED
    BY <2>1 DEF FilesAgree
<1>5. UnpublishSound'
  <2>1. ASSUME proto = "npm", NEW d \in Clients, req'[d].op = "delete" PROVE FALSE
    <3>1. d # c /\ req[d].op = "delete" /\ ~Unpublishing(req[d])
      BY <2>1, <1>m, <1>q, <1>s
    <3> QED
      BY <3>1, <2>1 DEF PackageInv, RequestsSound, RequestSound, Unpublishing
  <2>2. proto = "npm" => torn' = {}
    BY <1>a DEF PackageInv, UnpublishSound
  <2> QED
    BY <2>1, <2>2, <1>a DEF UnpublishSound
<1>6. ContentsUnique'
  <2>0. ASSUME proto \in {"npm", "go"}
        PROVE  /\ r.op = "put" /\ NotStored(r) /\ r.v <= made /\ q.v <= made
               /\ \A d \in Clients : d # c /\ req[d].op \in {"put", "delete"} => req[d].v # r.v
    BY <2>0, <1>r, <1>s, <1>q, <1>f, ContentFacts DEF RequestSound, PackageInv, ContentsUnique
  <2>1. ASSUME proto \in {"npm", "go"}
        PROVE  /\ \A k \in Versions : row'[k].c <= made
               /\ \A d \in Clients : req'[d].v <= made
               /\ StoredOnce'
    <3>1. \A k \in Versions : row'[k].c <= made
      BY <2>0, <2>1, <1>i, <1>s DEF PackageInv, ContentsUnique
    <3>2. \A d \in Clients : req'[d].v <= made
      BY <2>0, <2>1, <1>m DEF PackageInv, ContentsUnique
    <3>3. StoredOnce'
      BY <2>0, <2>1, <1>i, <1>s DEF PackageInv, ContentsUnique, StoredOnce, NotStored
    <3> QED
      BY <3>1, <3>2, <3>3
  <2>2. ASSUME proto \in {"npm", "go"}, NEW d \in Clients, req'[d].op = "put"
        PROVE  /\ NotStored(req[d])'
               /\ \A e \in Clients : e # d /\ req'[e].op \in {"put", "delete"} => req'[e].v # req'[d].v
    <3>1. d # c /\ req'[d] = req[d] /\ req[d].op = "put" /\ NotStored(req[d]) /\ req[d].v # r.v
      BY <2>0, <2>2, <1>m, <1>q DEF PackageInv, ContentsUnique
    <3>2. NotStored(req[d])'
      BY <3>1, <1>i, <1>s DEF NotStored
    <3>3. ASSUME NEW e \in Clients, e # d, req'[e].op \in {"put", "delete"} PROVE req'[e].v # req'[d].v
      BY <3>1, <3>3, <2>2, <1>m, <1>q DEF PackageInv, ContentsUnique
    <3> QED
      BY <3>2, <3>3
  <2>3. ASSUME proto \in {"npm", "go"}, NEW d \in Clients, req'[d].op = "delete"
        PROVE  KnowsRow(req[d])'
    <3>1. d # c /\ req'[d] = req[d] /\ KnowsRow(req[d]) /\ req[d].v # r.v
      BY <2>0, <2>3, <1>m, <1>q DEF PackageInv, ContentsUnique
    <3> QED
      BY <3>1, <1>i, <1>s DEF KnowsRow
  <2> QED
    BY <2>1, <2>2, <2>3, <1>a DEF ContentsUnique
<1>7. IndexSound'
  <2>0. index' = (IF proto \in {"npm", "go"} THEN {e \in index : e[2] # r.v}
                  ELSE IF proto = "helm" THEN index \ {<<r.k, r.v>>}
                  ELSE {e \in index : e[1] # r.k}) \cup {<<r.k, r.v>>}
    BY <1>a DEF K!Insert, K!IndexDelete, K!IndexPackageDelete, K!IndexHelmDelete, K!IndexRPMDelete
  <2>1. ASSUME NEW e \in index', e \notin index PROVE e[1] = r.k /\ e[2] = r.v
    BY <2>0, <2>1
  <2>2. ASSUME proto \in {"rpm", "maven", "pypi", "npm"}, NEW e \in index' PROVE row'[e[1]].c # 0
    <3>1. CASE e \in index
      <4>1. e[1] \in Versions /\ row[e[1]].c # 0
        BY <3>1, <2>2, <1>f DEF PackageInv, IndexSound
      <4> QED
        BY <4>1, <1>i, <1>s
    <3>2. CASE e \notin index
      BY <3>2, <2>1, <1>i, <1>s
    <3> QED
      BY <3>1, <3>2
  <2>3. ASSUME proto = "npm", NEW e \in index' PROVE e[2] = row'[e[1]].c
    <3>1. CASE e \in index
      <4>1. e[1] \in Versions /\ row[e[1]].c # 0 /\ e[2] = row[e[1]].c
        BY <3>1, <2>3, <1>f DEF PackageInv, IndexSound
      <4>2. e[1] # r.k
        BY <4>1, <2>3, <1>s DEF PlacedRight, PackageInv, RowsSound, RowSound
      <4> QED
        BY <4>1, <4>2, <1>i
    <3>2. CASE e \notin index
      BY <3>2, <2>1, <1>i, <1>s
    <3> QED
      BY <3>1, <3>2
  <2>4. ASSUME proto \in {"npm", "go"}, NEW k \in Versions, row'[k].c # 0
        PROVE  <<k, row'[k].c>> \in index'
    <3>1. CASE k = r.k
      BY <3>1, <2>0, <1>i
    <3>2. CASE k # r.k
      <4>1. row'[k] = row[k] /\ <<k, row[k].c>> \in index /\ row[k].c # r.v
        BY <3>2, <2>4, <1>i, <1>r, <1>s DEF PackageInv, IndexSound, ContentsUnique, NotStored, RequestSound
      <4> QED
        BY <4>1, <2>0, <2>4
    <3> QED
      BY <3>1, <3>2
  <2> QED
    BY <2>2, <2>3, <2>4, <1>a DEF IndexSound
<1> QED
  BY <1>i, <1>t, <1>m, <1>1, <1>2, <1>3, <1>4, <1>5, <1>6, <1>7 DEF PackageInv

LEMMA PackageStep ==
    ASSUME PackageInv, K!Next \/ UNCHANGED kvars
    PROVE  PackageInv'
<1>1. CASE UNCHANGED kvars
  <2>1. /\ UNCHANGED <<proto, row, file, index, tags, lock, req, shadowed, torn>>
        /\ UNCHANGED <<side, made, sess, tmp>>
    BY <1>1 DEF kvars
  <2>2. made <= made'
    BY <2>1, PackageFacts, ContentFacts
  <2> QED
    BY <2>1, <2>2, PackageFacts, QuietPackages DEF PackageSession
<1>2. CASE K!Next
  <2>1. ASSUME NEW c \in Clients, NEW k \in Versions,
               \/ K!PutRPM(c, k) \/ K!HandleLegacyUpload(c, k) \/ K!PutArtifact(c, k) \/ K!PutModule(c, k)
               \/ \E p \in Versions : K!PutDEB(c, k, p) \/ K!PutChart(c, k, p)
               \/ \E T \in SUBSET DistTags : K!Publish(c, k, T)
        PROVE  PackageInv'
    BY <2>1, PutStep
  <2>2. ASSUME NEW c \in Clients, NEW k \in Versions,
               \/ K!DeleteRPM(c, k) \/ K!DeleteModule(c, k) \/ K!DeletePackage(c, k) \/ K!DeleteDEB(c, k)
               \/ K!DeleteChart(c, k) \/ K!DeleteArtifact(c, k) \/ K!Unpublish(c, k)
        PROVE  PackageInv'
    BY <2>2, DeleteStep
  <2>3. ASSUME NEW c \in Clients, NEW k \in Versions, K!handleUploadFile(c, k) PROVE PackageInv'
    BY <2>3, handleUploadFileStep
  <2>4. ASSUME NEW c \in Clients, K!Place(c) \/ K!PlaceMod(c) \/ K!Commit(c) \/ K!Rollback(c)
        PROVE  PackageInv'
    BY <2>4, PlaceStep, PlaceModStep, CommitStep, RollbackStep
  <2>5. ASSUME NEW c \in Clients, K!StageFile(c) \/ K!handleCommit(c) PROVE PackageInv'
    BY <2>5, StageFileStep, handleCommitStep
  <2>6. ASSUME NEW c \in Clients,
               \/ K!DeleteTx(c) \/ K!DeleteFails(c) \/ K!MoveToTrash(c) \/ K!MoveFails(c) \/ K!MoveSide(c)
        PROVE  PackageInv'
    BY <2>6, DeleteTxStep, DeleteEndsStep, MoveToTrashStep, MoveSideStep
  <2>7. ASSUME NEW p \in Versions, K!PutProvenance(p) \/ K!PutSidecar(p) PROVE PackageInv'
    BY <2>7, PutSideStep
  <2>8. ASSUME K!CreateSession \/ K!ExpireSession PROVE PackageInv'
    BY <2>8, SessionStep
  <2> QED
    BY <1>2, <2>1, <2>2, <2>3, <2>4, <2>5, <2>6, <2>7, <2>8 DEF K!Next
<1> QED
  BY <1>1, <1>2

LEMMA PackageShows ==
    ASSUME PackageInv
    PROVE  K!RowFileAgree /\ K!DistTagsResolve /\ K!TypeOK /\ K!SearchMatchesRows
<1>f. /\ row \in [Versions -> PackageRow] /\ tags \in [DistTags -> Versions \cup {0}]
      /\ proto \in K!Protos /\ index \subseteq Versions \X K!Content
  BY PackageFacts
<1>1. K!RowFileAgree
  <2>1. proto = "npm" => torn = {}
    BY DEF PackageInv, UnpublishSound
  <2>2. ASSUME NEW k \in K!getList \ shadowed, NEW p, p = row[k].path,
               p \notin torn, lock[K!LockOf(p)] = None
        PROVE  K!Served(p) = row[k].c /\ (proto = "go" => K!serveMod(p) = row[k].c)
    <3>1. k \in Versions /\ row[k].c # 0 /\ p \in Versions /\ Current(k, p)
      BY <2>2 DEF K!getList, K!ListVersions, K!Has, PackageInv, RowsSound, RowSound, Current
    <3>2. \A c \in Clients : Placed(c) => req[c].p # p
      BY <2>2, <3>1, FreePath
    <3>3. FileRight(k, p)
      BY <2>2, <3>1, <3>2 DEF PackageInv, FilesAgree
    <3>4. k \in K!AtPath(p)
      BY <2>2, <3>1, AtPathFacts
    <3>5. K!Served(p) = file[p] /\ (proto = "go" => K!serveMod(p) = side[p])
      BY <3>4 DEF K!Served, K!serveMod, K!servePackage, K!servePoolPackage, K!getChart, K!getPackage,
                  K!getArtifact, K!getTarball, K!serveModule, K!ServeFile
    <3> QED
      BY <3>3, <3>5 DEF FileRight
  <2> QED
    BY <2>1, <2>2 DEF K!RowFileAgree
<1>2. K!DistTagsResolve
  <2> DEFINE have == K!ListVersions
             T == IF have # {} /\ \A t \in DistTags : tags[t] = 0
                  THEN [tags EXCEPT !["latest"] = K!Max(have)] ELSE tags
  <2>1. have \in SUBSET Versions /\ have = {k \in Versions : row[k].c # 0}
    BY DEF K!ListVersions, K!Has
  <2>2. ASSUME NEW t \in DistTags, T[t] # 0 PROVE T[t] \in have
    <3>1. CASE have # {} /\ \A u \in DistTags : tags[u] = 0
      <4>1. K!Max(have) \in have
        BY <3>1, <2>1, HighestVersion
      <4>2. T[t] = K!Max(have)
        BY <3>1, <2>2, <1>f
      <4> QED
        BY <4>1, <4>2
    <3>2. CASE ~(have # {} /\ \A u \in DistTags : tags[u] = 0)
      BY <3>2, <2>1, <2>2 DEF PackageInv, TagsSound
    <3> QED
      BY <3>1, <3>2
  <2>3. PICK doc : doc = [versions |-> have, tags |-> T]
    OBVIOUS
  <2>4. K!getPackument = doc /\ doc.versions = have /\ doc.tags = T
    BY <2>3 DEF K!getPackument
  <2> HIDE DEF have, T
  <2> QED
    BY <2>2, <2>4 DEF K!DistTagsResolve
<1>3. K!SearchMatchesRows
  <2>1. ASSUME proto \in {"npm", "go"}, NEW k \in Versions, K!Has(k) PROVE \E e \in index : e[1] = k
    <3>1. <<k, row[k].c>> \in index
      BY <2>1 DEF PackageInv, IndexSound, K!Has
    <3> QED
      BY <3>1
  <2> QED
    BY <2>1 DEF PackageInv, IndexSound, K!SearchMatchesRows, K!Has
<1> QED
  BY <1>1, <1>2, <1>3 DEF PackageInv

LEMMA PackageInvariant == Spec => [](part = "packages" => PackageInv)
<1>1. Init => (part = "packages" => PackageInv)
  BY PackageInitial DEF Init
<1>2. (part = "packages" => PackageInv) /\ [Next]_vars => (part = "packages" => PackageInv)'
  BY RepositorySteps, PackageStep
<1> QED
  BY <1>1, <1>2, PTL DEF Spec

(* Packages: for any versions, clients and number of uploads, a version    *)
(* that is listed is served with the content its row describes whenever    *)
(* its path is unlocked, through overlapping uploads, refusals, sessions,  *)
(* failed commits and deletes of others, but where a delete took the file  *)
(* of a later upload; npm, whose deletes hold the lock, has no such        *)
(* exception.  And every dist-tag names a version of the packument         *)
(* (storage/pathstore.go:160, npm/delete.go:81).                           *)
THEOREM DownloadsAreServed == Spec => []DownloadsServed
<1>1. (part = "packages" => PackageInv) => DownloadsServed
  BY PackageShows DEF DownloadsServed
<1> QED
  BY <1>1, PackageInvariant, PTL

(* Packages: the search index holds no entry of a version that is gone     *)
(* where entries go by version, and an entry of every version where they   *)
(* go by digest: no content is ever stored by two uploads, so that a       *)
(* delete only takes its own entry (metadata/fts.go:62, 106, 151).         *)
THEOREM SearchAlwaysMatchesRows == Spec => []SearchMatchesRows
<1>1. (part = "packages" => PackageInv) => SearchMatchesRows
  BY PackageShows DEF SearchMatchesRows
<1> QED
  BY <1>1, PackageInvariant, PTL

-----------------------------------------------------------------------------
(* Walks through lists.                                                    *)

WalkTypes ==
    /\ list \in L!Lists /\ grp \in Groupings
    /\ entries \subseteq Entries /\ steady \subseteq entries
    /\ walk \in [pc : {"page", "done"}, cur : {0} \cup Entries, added : 0 .. PageLimit, prefixes : SUBSET Nat]
    /\ got \in [Entries -> 0 .. 2] /\ seen \subseteq Nat /\ lost \in {"yes", "no"} /\ writes \in 0 .. MaxWrites

Returned(k) == IF list = "ListBucket" /\ grp[k] # 0 THEN grp[k] \in seen ELSE got[k] = 1
Keyed == list \in L!Keyset \/ (list \in L!RowKind /\ lost = "no")
KeyedWalk ==
    Keyed =>
      /\ \A k \in Entries : got[k] < 2 /\ (walk.pc = "page" /\ k > walk.cur => got[k] = 0)
      /\ \A k \in steady : k <= walk.cur \/ walk.pc = "done" => Returned(k)
      /\ list \in L!RowKind /\ walk.pc = "page" => walk.cur \in entries \cup {0}
OffsetWalk ==
    list \in L!Offset /\ writes = 0 =>
      /\ \A k \in Entries : got[k] < 2 /\ (got[k] = 1 => k \in entries)
      /\ \A k, x \in entries : got[k] = 1 /\ x < k => got[x] = 1
      /\ Cardinality({k \in Entries : got[k] = 1}) = walk.cur
      /\ walk.pc = "done" => \A k \in entries : got[k] = 1
WalkInv == WalkTypes /\ KeyedWalk /\ OffsetWalk

LEMMA EntriesAre ==
    /\ \E n \in Nat : Entries = 1 .. n
    /\ Entries \subseteq Nat /\ 0 \notin Entries /\ IsFiniteSet(Entries)
    /\ Groupings \subseteq [Entries -> Nat] /\ PageLimit \in Nat \ {0} /\ MaxWrites \in Nat
<1>1. PICK n \in Nat : Entries = 1 .. n
  BY ListsAssumption
<1>2. IsFiniteSet(1 .. n)
  BY FS_Interval
<1> QED
  BY <1>1, <1>2, ListsAssumption

LEMMA ListCardinality == \A S : L!Cardinality(S) = Cardinality(S)
  BY DEF L!Cardinality, Cardinality

LEMMA EntrySets ==
    ASSUME NEW S \in SUBSET Entries
    PROVE  IsFiniteSet(S) /\ Cardinality(S) \in Nat
  BY EntriesAre, FS_Subset, FS_CardinalityType

LEMMA LowestOf ==
    ASSUME NEW S \in SUBSET Nat, S # {}
    PROVE  \E x \in S : \A y \in S : x <= y
<1> DEFINE R == OpToRel(<, Nat)
<1>1. IsWellFoundedOn(R, Nat)
  BY NatLessThanWellFounded
<1>2. PICK x \in S : \A y \in S : <<y, x>> \notin R
  <2> HIDE DEF R
  <2> QED
    BY <1>1, WFMin
<1>3. ASSUME NEW y \in S PROVE x <= y
  <2>1. ~(y < x)
    BY <1>2 DEF OpToRel
  <2> QED
    BY <2>1
<1> QED
  BY <1>3

LEMMA HighestOf ==
    ASSUME NEW S \in SUBSET Entries, S # {}
    PROVE  L!Max(S) \in S /\ \A y \in S : y <= L!Max(S)
<1>1. PICK n \in Nat : Entries = 1 .. n
  BY EntriesAre
<1> DEFINE T == {n - x : x \in S}
<1>2. T \subseteq Nat /\ T # {}
  <2>1. ASSUME NEW x \in S PROVE n - x \in Nat
    <3>1. x \in 1 .. n
      BY <1>1
    <3> QED
      BY <3>1
  <2> QED
    BY <2>1
<1>3. PICK y \in T : \A z \in T : y <= z
  <2> HIDE DEF T
  <2> QED
    BY <1>2, LowestOf
<1>4. PICK x \in S : y = n - x
  BY <1>3
<1>5. ASSUME NEW z \in S PROVE x >= z
  <2>1. n - z \in T /\ y <= n - z
    BY <1>3
  <2>2. x \in 1 .. n /\ z \in 1 .. n
    BY <1>1
  <2> QED
    BY <2>1, <2>2, <1>4
<1>6. L!Max(S) \in S /\ \A z \in S : L!Max(S) >= z
  BY <1>5 DEF L!Max
<1> QED
  BY <1>6, EntriesAre

LEMMA LowestIs ==
    ASSUME NEW S \in SUBSET Entries, S # {}
    PROVE  L!Min(S) \in S
<1>1. PICK x \in S : \A y \in S : x <= y
  BY EntriesAre, LowestOf
<1> QED
  BY <1>1 DEF L!Min

\* The first n of a set: what comes before one of them is one of them, they
\* are at most n, and n if they are not all.
LEMMA FirstOf ==
    ASSUME NEW S \in SUBSET Entries, NEW n \in Nat, NEW F, F = L!First(S, n)
    PROVE  /\ F \subseteq S /\ IsFiniteSet(F) /\ Cardinality(F) \in Nat
           /\ \A k \in F, x \in S : x < k => x \in F
           /\ Cardinality(F) <= n
           /\ F # S => Cardinality(F) = n
           /\ Cardinality(S) <= n => F = S
<1> DEFINE Below(k) == {x \in S : x < k}
<1>0. S \subseteq Nat
  BY EntriesAre
<1>1. F = {k \in S : Cardinality(Below(k)) < n}
  BY ListCardinality DEF L!First
<1>2. F \subseteq S /\ IsFiniteSet(F) /\ Cardinality(F) \in Nat
  BY <1>1, EntrySets
<1>3. \A k \in S : Below(k) \in SUBSET Entries /\ IsFiniteSet(Below(k)) /\ Cardinality(Below(k)) \in Nat
  BY EntrySets
<1>4. ASSUME NEW k \in F, NEW x \in S, x < k PROVE x \in F
  <2>0. x \in Nat /\ k \in Nat /\ k \in S
    BY <1>0, <1>2
  <2>1. Below(x) \subseteq Below(k)
    <3>1. ASSUME NEW y \in Below(x) PROVE y \in Below(k)
      <4>1. y \in S /\ y < x /\ y \in Nat
        BY <1>0
      <4> QED
        BY <4>1, <2>0, <1>4
    <3> QED
      BY <3>1
  <2>2. Cardinality(Below(x)) <= Cardinality(Below(k))
    BY <2>0, <2>1, <1>3, FS_Subset
  <2>3. Cardinality(Below(k)) < n
    BY <1>1
  <2> HIDE DEF Below
  <2> QED
    BY <2>0, <2>2, <2>3, <1>1, <1>3
<1>5. Cardinality(F) <= n
  <2>1. CASE F = {}
    BY <2>1, FS_EmptySet
  <2>2. CASE F # {}
    <3>1. F \in SUBSET Entries
      BY <1>2
    <3>2. PICK m \in F : \A y \in F : y <= m
      BY <3>1, <2>2, HighestOf
    <3>3. F \subseteq Below(m) \cup {m}
      <4>1. ASSUME NEW y \in F PROVE y \in Below(m) \cup {m}
        <5>1. y \in Nat /\ m \in Nat /\ y <= m /\ y \in S
          BY <3>2, <1>0, <1>2
        <5> QED
          BY <5>1
      <4> QED
        BY <4>1
    <3>4. m \in S /\ Cardinality(Below(m)) < n
      BY <1>1
    <3> HIDE DEF Below
    <3>5. /\ IsFiniteSet(Below(m) \cup {m})
          /\ Cardinality(Below(m) \cup {m}) \in {Cardinality(Below(m)), Cardinality(Below(m)) + 1}
      BY <3>4, <1>3, FS_AddElement
    <3>6. Cardinality(F) <= Cardinality(Below(m) \cup {m})
      BY <3>3, <3>5, FS_Subset
    <3> QED
      BY <3>4, <3>5, <3>6, <1>2, <1>3
  <2> QED
    BY <2>1, <2>2
<1>6. ASSUME F # S PROVE Cardinality(F) = n
  <2>1. S \ F \in SUBSET Nat /\ S \ F # {}
    BY <1>6, <1>0, <1>2
  <2>2. PICK k \in S \ F : \A y \in S \ F : k <= y
    BY <2>1, LowestOf
  <2>3. Below(k) \subseteq F
    <3>1. ASSUME NEW x \in Below(k) PROVE x \in F
      <4>1. x \in S /\ x < k /\ x \in Nat /\ k \in Nat
        BY <1>0, <2>2
      <4> QED
        BY <4>1, <2>2
    <3> QED
      BY <3>1
  <2>4. Cardinality(Below(k)) <= Cardinality(F)
    BY <2>3, <1>2, FS_Subset
  <2>5. ~(Cardinality(Below(k)) < n) /\ k \in S
    BY <1>1, <2>2
  <2> HIDE DEF Below
  <2> QED
    BY <2>4, <2>5, <1>2, <1>3, <1>5
<1>7. ASSUME Cardinality(S) <= n PROVE F = S
  <2>1. ASSUME NEW k \in S PROVE k \in F
    <3>1. Below(k) \subseteq S \ {k}
      BY <1>0
    <3>2. IsFiniteSet(S \ {k}) /\ Cardinality(S \ {k}) = Cardinality(S) - 1
      BY EntrySets, FS_RemoveElement
    <3>3. Cardinality(Below(k)) <= Cardinality(S) - 1
      BY <3>1, <3>2, FS_Subset
    <3>4. Cardinality(S) \in Nat /\ Cardinality(Below(k)) \in Nat
      BY EntrySets, <1>3
    <3> HIDE DEF Below
    <3>5. Cardinality(Below(k)) < n
      BY <3>3, <3>4, <1>7
    <3> QED
      BY <3>5, <1>1
  <2> QED
    BY <2>1, <1>2
<1> QED
  BY <1>2, <1>4, <1>5, <1>6, <1>7

WalkRecord ==
    [pc : {"page", "done"}, cur : {0} \cup Entries, added : 0 .. PageLimit, prefixes : SUBSET Nat]

\* What a page that is returned changes.
LEMMA ReturnIs ==
    ASSUME WalkInv, NEW page \in SUBSET Entries, NEW more \in BOOLEAN, NEW cur \in {0} \cup Entries,
           L!Return(page, more, cur)
    PROVE  /\ WalkTypes'
           /\ UNCHANGED <<list, grp, entries, seen, steady, lost, writes>>
           /\ walk'.cur = cur /\ walk'.pc = (IF more THEN "page" ELSE "done")
           /\ \A k \in Entries :
                 got'[k] = IF k \in page THEN (IF got[k] = 0 THEN 1 ELSE 2) ELSE got[k]
<1>t. WalkTypes
  BY DEF WalkInv
<1>1. UNCHANGED <<list, grp, entries, seen, steady, lost, writes>>
  BY DEF L!Return
<1>2. PICK x \in {"page", "done"} : x = IF more THEN "page" ELSE "done"
  OBVIOUS
<1>3. PICK w \in WalkRecord : w = walk
  BY <1>t DEF WalkTypes, WalkRecord
<1>4. PICK v : v = [w EXCEPT !.pc = x, !.cur = cur]
  OBVIOUS
<1>5. v \in WalkRecord /\ v.pc = x /\ v.cur = cur
  BY <1>4 DEF WalkRecord
<1>6. walk' = v
  BY <1>2, <1>3, <1>4 DEF L!Return
<1>7. /\ got' \in [Entries -> 0 .. 2]
      /\ \A k \in Entries :
            got'[k] = IF k \in page THEN (IF got[k] = 0 THEN 1 ELSE 2) ELSE got[k]
  BY <1>t DEF L!Return, WalkTypes
<1>8. WalkTypes'
  BY <1>t, <1>1, <1>5, <1>6, <1>7 DEF WalkTypes, WalkRecord
<1> QED
  BY <1>1, <1>2, <1>5, <1>6, <1>7, <1>8

\* The last of a page, or the cursor as it was.
LEMMA LastIs ==
    ASSUME NEW S \in SUBSET Entries, NEW c \in {0} \cup Entries, NEW m, m = L!LastOf(S, c)
    PROVE  /\ m \in {0} \cup Entries /\ m \in Nat
           /\ S = {} => m = c
           /\ S # {} => m \in S
           /\ \A k \in S : k <= m
<1>1. CASE S = {}
  BY <1>1, EntriesAre DEF L!LastOf
<1>2. CASE S # {}
  BY <1>2, HighestOf, EntriesAre DEF L!LastOf
<1> QED
  BY <1>1, <1>2

\* A page of a list keyed by its last entry.
LEMMA KeyedPage ==
    ASSUME WalkInv, Keyed, list # "ListBucket", walk.pc = "page",
           NEW page \in SUBSET L!After(walk.cur),
           \A k \in page, x \in L!After(walk.cur) : x < k => x \in page,
           NEW more \in BOOLEAN, ~more => page = L!After(walk.cur),
           L!Return(page, more, L!LastOf(page, walk.cur))
    PROVE  WalkInv'
<1>t. WalkTypes
  BY DEF WalkInv
<1>0. /\ entries \subseteq Entries /\ steady \subseteq entries /\ Entries \subseteq Nat
      /\ walk.cur \in {0} \cup Entries /\ walk.cur \in Nat
      /\ page \in SUBSET Entries /\ page \subseteq entries
  BY <1>t, EntriesAre DEF WalkTypes, L!After
<1>1. PICK cur : cur = L!LastOf(page, walk.cur)
  OBVIOUS
<1>2. /\ cur \in {0} \cup Entries /\ cur \in Nat
      /\ page = {} => cur = walk.cur
      /\ page # {} => cur \in page
      /\ \A k \in page : k <= cur
  BY <1>0, <1>1, LastIs
<1>3. /\ WalkTypes'
      /\ UNCHANGED <<list, grp, entries, seen, steady, lost, writes>>
      /\ walk'.cur = cur /\ walk'.pc = (IF more THEN "page" ELSE "done")
      /\ \A k \in Entries :
            got'[k] = IF k \in page THEN (IF got[k] = 0 THEN 1 ELSE 2) ELSE got[k]
  BY <1>0, <1>1, <1>2, ReturnIs
<1>4. \A k \in L!After(walk.cur) : k > walk.cur /\ k \in entries
  BY DEF L!After
<1>5. /\ \A k \in Entries : got[k] < 2 /\ (k > walk.cur => got[k] = 0)
      /\ \A k \in steady : k <= walk.cur => Returned(k)
      /\ list \in L!RowKind => walk.cur \in entries \cup {0}
  BY DEF WalkInv, KeyedWalk
<1>6. walk.cur <= cur
  BY <1>0, <1>2, <1>4
<1>7. ASSUME NEW k \in Entries PROVE got'[k] < 2 /\ (walk'.pc = "page" /\ k > walk'.cur => got'[k] = 0)
  <2>0. k \in Nat /\ got[k] \in 0 .. 2
    BY <1>0, <1>t DEF WalkTypes
  <2>1. CASE k \in page
    <3>1. got[k] = 0
      BY <2>1, <1>4, <1>5
    <3>2. ~(k > cur)
      BY <2>1, <1>2, <2>0
    <3> QED
      BY <2>1, <3>1, <3>2, <1>3
  <2>2. CASE k \notin page
    BY <2>2, <1>3, <1>5, <1>6, <1>2, <1>0, <2>0
  <2> QED
    BY <2>1, <2>2
<1>8. ASSUME NEW k \in steady, k <= walk'.cur \/ walk'.pc = "done" PROVE Returned(k)'
  <2>0. k \in Nat /\ k \in entries /\ k \in Entries
    BY <1>0
  <2>r. Returned(k) <=> got[k] = 1
    BY DEF Returned
  <2>s. Returned(k)' <=> got'[k] = 1
    BY <1>3 DEF Returned
  <2>1. CASE k <= walk.cur
    <3>1. k \notin page
      BY <2>1, <1>4, <1>0, <2>0
    <3> QED
      BY <2>1, <3>1, <1>3, <1>5, <2>0, <2>r, <2>s
  <2>2. CASE ~(k <= walk.cur)
    <3>1. k \in L!After(walk.cur) /\ k > walk.cur
      BY <2>2, <2>0, <1>0 DEF L!After
    <3>2. k \in page
      <4>1. CASE ~more
        BY <4>1, <3>1
      <4>2. CASE more
        <5>1. k <= cur
          BY <4>2, <1>8, <1>3
        <5>2. cur \in page
          BY <5>1, <2>2, <1>2
        <5> QED
          BY <5>1, <5>2, <3>1, <2>0, <1>2
      <4> QED
        BY <4>1, <4>2
    <3>3. got[k] = 0
      BY <3>1, <1>5, <2>0
    <3> QED
      BY <3>2, <3>3, <1>3, <2>s, <2>0
  <2> QED
    BY <2>1, <2>2
<1>9. list \in L!RowKind => walk'.cur \in entries \cup {0}
  BY <1>0, <1>2, <1>3, <1>5
<1>10. KeyedWalk'
  BY <1>3, <1>7, <1>8, <1>9 DEF KeyedWalk
<1>11. OffsetWalk'
  BY <1>3 DEF OffsetWalk, Keyed, L!Keyset, L!RowKind, L!Offset
<1> QED
  BY <1>3, <1>10, <1>11 DEF WalkInv

\* A page of a list of which nothing is claimed (any more).
LEMMA OtherPage ==
    ASSUME WalkInv, ~Keyed, list \notin L!Offset, NEW page \in SUBSET Entries, NEW more \in BOOLEAN,
           NEW cur \in {0} \cup Entries, L!Return(page, more, cur)
    PROVE  WalkInv'
<1>1. WalkTypes' /\ UNCHANGED <<list, lost>>
  BY ReturnIs
<1> QED
  BY <1>1 DEF WalkInv, KeyedWalk, OffsetWalk, Keyed

LEMMA AfterIs ==
    ASSUME WalkInv
    PROVE  L!After(walk.cur) \in SUBSET Entries /\ walk.cur \in {0} \cup Entries /\ entries \in SUBSET Entries
  BY DEF WalkInv, WalkTypes, L!After

LEMMA handleListS3ObjectsStep ==
    ASSUME WalkInv, L!handleListS3Objects
    PROVE  WalkInv'
<1>1. PICK p : p = L!ListByBucket(walk.cur, PageLimit)
  OBVIOUS
<1>2. p.objects = L!First(L!After(walk.cur), PageLimit) /\ p.truncated = (L!Cardinality(L!After(walk.cur)) > PageLimit)
  BY <1>1 DEF L!ListByBucket
<1>3. list = "s3rest" /\ walk.pc = "page" /\ L!Return(p.objects, p.truncated, L!LastOf(p.objects, walk.cur))
  BY <1>1 DEF L!handleListS3Objects, L!Page
<1>4. PICK page, more : page = p.objects /\ more = p.truncated
  OBVIOUS
<1>5. /\ page \in SUBSET L!After(walk.cur)
      /\ \A k \in page, x \in L!After(walk.cur) : x < k => x \in page
      /\ Cardinality(L!After(walk.cur)) <= PageLimit => page = L!After(walk.cur)
  BY <1>2, <1>4, AfterIs, EntriesAre, FirstOf
<1>6. more = (Cardinality(L!After(walk.cur)) > PageLimit) /\ Cardinality(L!After(walk.cur)) \in Nat
  BY <1>2, <1>4, AfterIs, EntrySets, ListCardinality
<1>7. more \in BOOLEAN /\ (~more => page = L!After(walk.cur))
  <2>1. PICK n \in Nat, m \in Nat : n = Cardinality(L!After(walk.cur)) /\ m = PageLimit
    BY <1>6, EntriesAre
  <2>2. more = (n > m) /\ (n <= m => page = L!After(walk.cur))
    BY <2>1, <1>5, <1>6
  <2>3. (n > m) \in BOOLEAN /\ (~(n > m) => n <= m)
    OBVIOUS
  <2> QED
    BY <2>2, <2>3
<1>8. Keyed
  BY <1>3 DEF Keyed, L!Keyset
<1> QED
  BY <1>3, <1>4, <1>5, <1>7, <1>8, KeyedPage

\* One row more than the page is read.
LEMMA OneRowMore ==
    ASSUME WalkInv, Keyed, list # "ListBucket", walk.pc = "page",
           NEW fetched, NEW page, fetched = L!First(L!After(walk.cur), PageLimit + 1), page = L!First(fetched, PageLimit),
           NEW more \in BOOLEAN, more = (fetched # page),
           L!Return(page, more, L!LastOf(page, walk.cur))
    PROVE  WalkInv'
<1>0. PageLimit \in Nat /\ PageLimit + 1 \in Nat
  BY EntriesAre
<1>1. PICK S \in SUBSET Entries : S = L!After(walk.cur)
  BY AfterIs
<1>2. /\ fetched \subseteq S /\ \A k \in fetched, x \in S : x < k => x \in fetched
      /\ fetched # S => Cardinality(fetched) = PageLimit + 1
  <2>1. PICK n \in Nat : n = PageLimit + 1 /\ fetched = L!First(S, n)
    BY <1>0, <1>1
  <2> QED
    BY <2>1, FirstOf
<1>3. /\ page \subseteq fetched /\ \A k \in page, x \in fetched : x < k => x \in page
      /\ Cardinality(page) <= PageLimit
  <2>1. fetched \in SUBSET Entries
    BY <1>1, <1>2
  <2> QED
    BY <2>1, <1>0, FirstOf
<1>4. fetched = page => page = S
  BY <1>0, <1>2, <1>3
<1>5. \A k \in page, x \in S : x < k => x \in page
  BY <1>2, <1>3
<1>6. ~more => page = S
  BY <1>4
<1>7. page \in SUBSET S
  BY <1>2, <1>3
<1> QED
  BY <1>1, <1>5, <1>6, <1>7, KeyedPage

LEMMA ListMultipartUploadsStep ==
    ASSUME WalkInv, L!ListMultipartUploads
    PROVE  WalkInv'
<1>1. PICK fetched, page : fetched = L!First(L!After(walk.cur), PageLimit + 1) /\ page = L!First(fetched, PageLimit)
  OBVIOUS
<1>m. PICK more \in BOOLEAN : more = (fetched # page)
  OBVIOUS
<1>2. list = "uploads" /\ walk.pc = "page" /\ L!Return(page, more, L!LastOf(page, walk.cur))
  BY <1>1, <1>m DEF L!ListMultipartUploads, L!Page
<1>3. Keyed
  BY <1>2 DEF Keyed, L!Keyset
<1> QED
  BY <1>1, <1>2, <1>3, <1>m, OneRowMore

LEMMA handleListAuditStep ==
    ASSUME WalkInv, L!handleListAudit
    PROVE  WalkInv'
<1>1. PICK fetched, page : fetched = L!First(L!After(walk.cur), PageLimit + 1) /\ page = L!First(fetched, PageLimit)
  OBVIOUS
<1>m. PICK more \in BOOLEAN : more = (fetched # page)
  OBVIOUS
<1>2. list = "audit" /\ walk.pc = "page" /\ L!Return(page, more, L!LastOf(page, walk.cur))
  BY <1>1, <1>m DEF L!handleListAudit, L!Page
<1>3. Keyed
  BY <1>2 DEF Keyed, L!Keyset
<1> QED
  BY <1>1, <1>2, <1>3, <1>m, OneRowMore

\* A page that is full has a next one.
LEMMA FullPage ==
    ASSUME WalkInv, Keyed, list # "ListBucket", walk.pc = "page",
           NEW page, page = L!First(L!After(walk.cur), PageLimit), NEW more \in BOOLEAN,
           L!Cardinality(page) = PageLimit => more,
           L!Return(page, more, L!LastOf(page, walk.cur))
    PROVE  WalkInv'
<1>1. /\ page \in SUBSET L!After(walk.cur)
      /\ \A k \in page, x \in L!After(walk.cur) : x < k => x \in page
      /\ page # L!After(walk.cur) => Cardinality(page) = PageLimit
  <2>1. PICK S \in SUBSET Entries, n \in Nat : S = L!After(walk.cur) /\ n = PageLimit /\ page = L!First(S, n)
    BY AfterIs, EntriesAre
  <2> QED
    BY <2>1, FirstOf
<1>2. ~more => page = L!After(walk.cur)
  BY <1>1, ListCardinality
<1> QED
  BY <1>1, <1>2, KeyedPage

LEMMA tagsListStep ==
    ASSUME WalkInv, L!tagsList
    PROVE  WalkInv'
<1>1. PICK page : page = L!First(L!After(walk.cur), PageLimit)
  OBVIOUS
<1>2. PICK more \in BOOLEAN : more = (L!Cardinality(page) = PageLimit)
  OBVIOUS
<1>3. list = "tags" /\ walk.pc = "page" /\ L!Return(page, more, L!LastOf(page, walk.cur))
  BY <1>1, <1>2 DEF L!tagsList, L!Page
<1>4. Keyed
  BY <1>3 DEF Keyed, L!Keyset
<1> QED
  BY <1>1, <1>2, <1>3, <1>4, FullPage

\* The page of some rest of the entries is made of entries.
LEMMA SomePage ==
    ASSUME WalkInv, NEW rest \in SUBSET entries, NEW page, page = L!First(rest, PageLimit)
    PROVE  page \in SUBSET Entries /\ L!LastOf(page, walk.cur) \in {0} \cup Entries
<1>1. rest \in SUBSET Entries
  BY AfterIs
<1>2. page \subseteq rest
  <2>1. PICK n \in Nat : n = PageLimit /\ page = L!First(rest, n)
    BY EntriesAre
  <2> QED
    BY <2>1, <1>1, FirstOf
<1> QED
  BY <1>1, <1>2, AfterIs, LastIs

LEMMA handleListUsersStep ==
    ASSUME WalkInv, L!handleListUsers
    PROVE  WalkInv'
<1>1. PICK rest \in SUBSET entries : rest = IF walk.cur \in entries THEN L!After(walk.cur) ELSE entries
  BY DEF L!After
<1>2. PICK page : page = L!First(rest, PageLimit)
  OBVIOUS
<1>3. PICK more \in BOOLEAN : more = (rest # page)
  OBVIOUS
<1>4. list = "users" /\ walk.pc = "page" /\ L!Return(page, more, L!LastOf(page, walk.cur))
  BY <1>1, <1>2, <1>3 DEF L!handleListUsers, L!Page
<1>5. CASE Keyed
  <2>1. walk.cur \in entries \cup {0}
    BY <1>4, <1>5 DEF WalkInv, KeyedWalk, L!RowKind
  <2>2. rest = L!After(walk.cur)
    <3>1. L!After(0) = entries
      BY AfterIs, EntriesAre DEF L!After
    <3> QED
      BY <3>1, <2>1, <1>1
  <2>3. page \in SUBSET L!After(walk.cur) /\ \A k \in page, x \in L!After(walk.cur) : x < k => x \in page
    BY <1>2, <2>2, AfterIs, EntriesAre, FirstOf
  <2>4. ~more => page = L!After(walk.cur)
    BY <1>3, <2>2
  <2>5. list # "ListBucket"
    BY <1>4
  <2> QED
    BY <1>4, <1>5, <2>3, <2>4, <2>5, KeyedPage
<1>6. CASE ~Keyed
  <2>1. list \notin L!Offset
    BY <1>4 DEF L!Offset
  <2>2. PICK cur \in {0} \cup Entries : cur = L!LastOf(page, walk.cur)
    BY <1>1, <1>2, SomePage
  <2> QED
    BY <2>1, <2>2, <1>1, <1>2, <1>4, <1>6, SomePage, OtherPage
<1> QED
  BY <1>5, <1>6

LEMMA handleListProjectsFullStep ==
    ASSUME WalkInv, L!handleListProjectsFull
    PROVE  WalkInv'
<1>1. PICK rest \in SUBSET entries : rest = IF walk.cur \in entries \cup {0} THEN L!After(walk.cur) ELSE {}
  BY DEF L!After
<1>2. PICK page : page = L!First(rest, PageLimit)
  OBVIOUS
<1>c. L!Cardinality(page) \in Nat /\ PageLimit \in Nat
  BY <1>1, <1>2, SomePage, EntrySets, EntriesAre, ListCardinality
<1>3. PICK more : more = (L!Cardinality(page) >= PageLimit)
  OBVIOUS
<1>b. more \in BOOLEAN /\ (L!Cardinality(page) = PageLimit => more)
  <2>1. PICK n \in Nat, m \in Nat : n = L!Cardinality(page) /\ m = PageLimit
    BY <1>c
  <2>2. more = (n >= m)
    BY <2>1, <1>3
  <2>3. (n >= m) \in BOOLEAN /\ (n = m => n >= m)
    OBVIOUS
  <2> QED
    BY <2>1, <2>2, <2>3
<1>4. list = "projects" /\ walk.pc = "page" /\ L!Return(page, more, L!LastOf(page, walk.cur))
  BY <1>1, <1>2, <1>3 DEF L!handleListProjectsFull, L!Page
<1>5. CASE Keyed
  <2>1. walk.cur \in entries \cup {0}
    BY <1>4, <1>5 DEF WalkInv, KeyedWalk, L!RowKind
  <2>2. rest = L!After(walk.cur)
    BY <2>1, <1>1
  <2>3. L!Cardinality(page) = PageLimit => more
    BY <1>b
  <2>5. list # "ListBucket"
    BY <1>4
  <2> QED
    BY <1>2, <1>4, <1>5, <1>b, <2>2, <2>3, <2>5, FullPage
<1>6. CASE ~Keyed
  <2>1. list \notin L!Offset
    BY <1>4 DEF L!Offset
  <2>2. PICK cur \in {0} \cup Entries : cur = L!LastOf(page, walk.cur)
    BY <1>1, <1>2, SomePage
  <2> QED
    BY <2>1, <2>2, <1>1, <1>2, <1>4, <1>6, <1>b, SomePage, OtherPage
<1> QED
  BY <1>5, <1>6

\* The first entries of a set are some of it.
LEMMA FirstAmong ==
    ASSUME NEW S \in SUBSET Entries, NEW n \in Nat
    PROVE  L!First(S, n) \subseteq S
<1>1. PICK F : F = L!First(S, n)
  OBVIOUS
<1>2. F \subseteq S
  BY <1>1, FirstOf
<1> QED
  BY <1>1, <1>2

LEMMA handleGitCommitsStep ==
    ASSUME WalkInv, L!handleGitCommits
    PROVE  WalkInv'
<1>1. PICK rest \in SUBSET entries : rest = L!After(walk.cur)
  BY DEF L!After
<1>2. PICK page : page = L!First(rest, PageLimit)
  OBVIOUS
<1>3. PICK more, cur : more \in BOOLEAN /\ more = (rest # page) /\ cur = IF rest # page THEN L!Min(rest \ page) ELSE walk.cur
  OBVIOUS
<1>4. list = "commits" /\ L!Return(page, more, cur)
  BY <1>1, <1>2, <1>3 DEF L!handleGitCommits, L!Page
<1>5. rest \in SUBSET Entries /\ page \subseteq rest
  <2>1. PICK S \in SUBSET Entries : S = rest
    BY <1>1, AfterIs
  <2>2. PICK n \in Nat : n = PageLimit
    BY EntriesAre
  <2>3. page = L!First(S, n)
    BY <1>2, <2>1, <2>2
  <2>4. L!First(S, n) \subseteq S
    BY FirstAmong
  <2> QED
    BY <2>1, <2>3, <2>4
<1>6. cur \in {0} \cup Entries
  <2>1. CASE rest = page
    BY <2>1, <1>3, AfterIs
  <2>2. CASE rest # page
    <3>1. rest \ page # {} /\ rest \ page \in SUBSET Entries
      BY <2>2, <1>5
    <3> QED
      BY <3>1, <2>2, <1>3, LowestIs
  <2> QED
    BY <2>1, <2>2
<1>7. ~Keyed /\ list \notin L!Offset
  BY <1>4 DEF Keyed, L!Keyset, L!RowKind, L!Offset
<1> QED
  BY <1>3, <1>4, <1>5, <1>6, <1>7, OtherPage

\* A set that has all that comes before its elements is the first of the entries.
LEMMA FirstAre ==
    ASSUME NEW E \in SUBSET Entries, NEW Z \in SUBSET E, \A k \in Z, x \in E : x < k => x \in Z
    PROVE  L!First(E, Cardinality(Z)) = Z
<1> DEFINE Below(k) == {x \in E : x < k}
<1>0. E \subseteq Nat /\ IsFiniteSet(Z) /\ Cardinality(Z) \in Nat
  BY EntriesAre, EntrySets
<1>1. \A k \in E : IsFiniteSet(Below(k)) /\ Cardinality(Below(k)) \in Nat
  BY EntrySets
<1>2. ASSUME NEW k \in Z PROVE Cardinality(Below(k)) < Cardinality(Z)
  <2>1. Below(k) \subseteq Z \ {k}
    <3>1. ASSUME NEW y \in Below(k) PROVE y \in Z \ {k}
      <4>1. y \in E /\ y < k /\ y \in Nat /\ k \in Nat
        BY <1>0
      <4> QED
        BY <4>1
    <3> QED
      BY <3>1
  <2>2. IsFiniteSet(Z \ {k}) /\ Cardinality(Z \ {k}) = Cardinality(Z) - 1
    BY <1>0, FS_RemoveElement
  <2>3. Cardinality(Below(k)) <= Cardinality(Z) - 1
    BY <2>1, <2>2, FS_Subset
  <2>4. Cardinality(Below(k)) \in Nat
    BY <1>1
  <2> HIDE DEF Below
  <2> QED
    BY <2>3, <2>4, <1>0
<1>3. ASSUME NEW k \in E \ Z PROVE ~(Cardinality(Below(k)) < Cardinality(Z))
  <2>1. Z \subseteq Below(k)
    <3>1. ASSUME NEW g \in Z PROVE g \in Below(k)
      <4>1. g \in Nat /\ k \in Nat /\ g \in E /\ k \in E /\ g # k /\ ~(k < g)
        BY <1>0
      <4> QED
        BY <4>1
    <3> QED
      BY <3>1
  <2>2. Cardinality(Z) <= Cardinality(Below(k))
    BY <2>1, <1>1, FS_Subset
  <2>3. Cardinality(Below(k)) \in Nat
    BY <1>1
  <2> HIDE DEF Below
  <2> QED
    BY <2>2, <2>3, <1>0
<1>4. L!First(E, Cardinality(Z)) = {k \in E : Cardinality(Below(k)) < Cardinality(Z)}
  BY ListCardinality DEF L!First
<1> QED
  BY <1>2, <1>3, <1>4

LEMMA AtOffsetIs ==
    ASSUME WalkInv, NEW page, page = L!AtOffset(walk.cur)
    PROVE  /\ page \in SUBSET entries /\ page \in SUBSET Entries /\ walk.cur \in Nat
           /\ Cardinality(page) \in Nat /\ Cardinality(entries) \in Nat
           /\ walk.cur + Cardinality(page) \in {0} \cup Entries
<1>0. PICK o \in Nat, E \in SUBSET Entries, m \in Nat :
           o = walk.cur /\ E = entries /\ m = PageLimit /\ o \in {0} \cup Entries
  BY AfterIs, EntriesAre
<1>1. PICK Z, R : Z = L!First(E, o) /\ R = E \ Z
  OBVIOUS
<1>2. page = L!First(R, m)
  BY <1>0, <1>1 DEF L!AtOffset
<1>3. Z \subseteq E /\ Cardinality(Z) \in Nat /\ (Z # E => Cardinality(Z) = o)
  <2>1. Z = L!First(E, o)
    BY <1>1
  <2> QED
    BY <2>1, FirstOf
<1>4. R \in SUBSET Entries /\ page \subseteq R /\ IsFiniteSet(R) /\ IsFiniteSet(page) /\ Cardinality(page) \in Nat
  BY <1>1, <1>2, FirstOf, EntrySets
<1>5. Cardinality(page) <= Cardinality(R)
  BY <1>4, FS_Subset
<1>6. o + Cardinality(page) \in {0} \cup Entries
  <2>1. CASE Z = E
    <3>1. page = {}
      BY <2>1, <1>1, <1>4
    <3>2. Cardinality(page) = 0
      BY <3>1, FS_EmptySet
    <3> QED
      BY <3>2, <1>0
  <2>2. CASE Z # E
    <3>1. PICK n \in Nat : Entries = 1 .. n
      BY EntriesAre
    <3>2. IsFiniteSet(1 .. n) /\ Cardinality(1 .. n) = n
      BY FS_Interval
    <3>3. Cardinality(E) <= n /\ IsFiniteSet(E) /\ Cardinality(E) \in Nat
      BY <3>1, <3>2, FS_Subset, EntrySets
    <3>4. E \cap Z = Z /\ Cardinality(R) = Cardinality(E) - Cardinality(E \cap Z)
      BY <1>1, <1>3, <3>3, FS_Difference
    <3>5. Cardinality(R) = Cardinality(E) - o
      BY <3>4, <2>2, <1>3
    <3>6. PICK p \in Nat, e \in Nat, r \in Nat : p = Cardinality(page) /\ e = Cardinality(E) /\ r = Cardinality(R)
      BY <1>4, <3>3, EntrySets
    <3>7. p <= r /\ r = e - o /\ e <= n
      BY <3>6, <3>5, <3>3, <1>5
    <3>8. o + p \in 0 .. n
      BY <3>7
    <3> QED
      BY <3>1, <3>6, <3>8
  <2> QED
    BY <2>1, <2>2
<1>7. Cardinality(entries) \in Nat
  BY <1>0, EntrySets
<1> QED
  BY <1>0, <1>1, <1>4, <1>6, <1>7

\* A page by offset: as long as nothing is written, what was returned are
\* the first entries.
LEMMA OffsetPage ==
    ASSUME WalkInv, list \in L!Offset, walk.pc = "page", NEW page, page = L!AtOffset(walk.cur),
           NEW more \in BOOLEAN,
           ~more => \/ ~(Cardinality(page) >= PageLimit)
                    \/ ~(walk.cur + Cardinality(page) < Cardinality(entries)),
           L!Return(page, more, walk.cur + Cardinality(page))
    PROVE  WalkInv'
<1>0. /\ page \in SUBSET entries /\ page \in SUBSET Entries /\ walk.cur \in Nat
      /\ Cardinality(page) \in Nat /\ Cardinality(entries) \in Nat
  BY AtOffsetIs
<1>1. PICK cur \in {0} \cup Entries : cur = walk.cur + Cardinality(page)
  BY AtOffsetIs
<1>2. /\ WalkTypes'
      /\ UNCHANGED <<list, grp, entries, seen, steady, lost, writes>>
      /\ walk'.cur = cur /\ walk'.pc = (IF more THEN "page" ELSE "done")
      /\ \A k \in Entries :
            got'[k] = IF k \in page THEN (IF got[k] = 0 THEN 1 ELSE 2) ELSE got[k]
  BY <1>0, <1>1, ReturnIs
<1>3. KeyedWalk'
  BY <1>2 DEF KeyedWalk, Keyed, L!Keyset, L!RowKind, L!Offset
<1>4. OffsetWalk'
  <2>1. SUFFICES ASSUME writes = 0 PROVE OffsetWalk'
    BY <1>2 DEF OffsetWalk
  <2> DEFINE Z == {k \in Entries : got[k] = 1}
  <2>2. /\ \A k \in Entries : got[k] < 2 /\ (got[k] = 1 => k \in entries)
        /\ \A k, x \in entries : got[k] = 1 /\ x < k => got[x] = 1
        /\ Cardinality(Z) = walk.cur
    BY <2>1 DEF WalkInv, OffsetWalk
  <2>3. entries \in SUBSET Entries /\ got \in [Entries -> 0 .. 2] /\ Entries \subseteq Nat
    BY EntriesAre DEF WalkInv, WalkTypes
  <2>4. Z \in SUBSET entries /\ \A k \in Z, x \in entries : x < k => x \in Z
    BY <2>2, <2>3
  <2>5. L!First(entries, Cardinality(Z)) = Z
    <3> HIDE DEF Z
    <3> QED
      BY <2>3, <2>4, FirstAre
  <2>6. PICK R \in SUBSET Entries, m \in Nat : R = entries \ Z /\ m = PageLimit /\ page = L!First(R, m)
    <3>1. page = L!First(entries \ L!First(entries, walk.cur), PageLimit)
      BY DEF L!AtOffset
    <3>2. page = L!First(entries \ Z, PageLimit)
      BY <3>1, <2>5, <2>2
    <3>3. entries \ Z \in SUBSET Entries /\ PageLimit \in Nat
      BY <2>3, EntriesAre
    <3> HIDE DEF Z
    <3> QED
      BY <3>2, <3>3
  <2>7. page \subseteq R /\ (\A k \in page, x \in R : x < k => x \in page) /\ (page # R => Cardinality(page) = m)
    BY <2>6, FirstOf
  <2> DEFINE X == {k \in Entries : got'[k] = 1}
  <2>8. X = Z \cup page /\ \A k \in Entries : got'[k] < 2
    <3>1. ASSUME NEW k \in Entries PROVE got'[k] < 2 /\ (got'[k] = 1 <=> k \in Z \cup page)
      <4>1. got[k] \in 0 .. 2 /\ got[k] < 2
        BY <2>2, <2>3
      <4>2. k \in page => got[k] = 0
        BY <4>1, <2>6, <2>7, <2>3
      <4> QED
        BY <4>1, <4>2, <1>2
    <3> QED
      BY <3>1, <1>0
  <2>9. Cardinality(X) = cur
    <3>1. Z \cap page = {} /\ IsFiniteSet(Z) /\ IsFiniteSet(page) /\ Cardinality(Z) \in Nat
      BY <2>4, <2>6, <2>7, <2>3, <1>0, EntrySets
    <3> HIDE DEF Z, X
    <3>2. Cardinality(Z \cup page) = Cardinality(Z) + Cardinality(page) - Cardinality(Z \cap page)
      BY <3>1, FS_Union
    <3>3. Cardinality(Z \cap page) = 0
      BY <3>1, FS_EmptySet
    <3> QED
      BY <3>1, <3>2, <3>3, <2>2, <2>8, <1>0, <1>1
  <2>10. ASSUME NEW k \in entries, NEW x \in entries, got'[k] = 1, x < k PROVE got'[x] = 1
    <3>1. k \in Z \cup page
      BY <2>10, <2>8, <2>3
    <3>2. x \in Z \cup page
      BY <3>1, <2>4, <2>6, <2>7, <2>10
    <3> QED
      BY <3>2, <2>8
  <2>11. ASSUME NEW k \in entries, ~more PROVE got'[k] = 1
    <3>1. CASE ~(Cardinality(page) >= PageLimit)
      <4>1. Cardinality(page) # m
        BY <3>1, <2>6, <1>0
      <4>2. k \in Z \cup page
        BY <4>1, <2>6, <2>7
      <4> QED
        BY <4>2, <2>8
    <3>2. CASE ~(walk.cur + Cardinality(page) < Cardinality(entries))
      <4>1. X \in SUBSET entries /\ IsFiniteSet(entries) /\ IsFiniteSet(X)
        BY <2>8, <2>4, <2>3, <1>0, EntrySets
      <4> HIDE DEF X
      <4>2. Cardinality(X) <= Cardinality(entries) /\ (Cardinality(entries) = Cardinality(X) => entries = X)
        BY <4>1, FS_Subset
      <4>3. Cardinality(entries) = Cardinality(X)
        BY <4>2, <3>2, <2>9, <1>0, <1>1
      <4>4. k \in X
        BY <4>2, <4>3
      <4> QED
        BY <4>4 DEF X
    <3> QED
      BY <3>1, <3>2, <2>11
  <2>12. \A k \in Entries : got'[k] = 1 => k \in entries
    BY <2>8, <2>4, <1>0
  <2>13. walk'.pc = "done" => ~more
    BY <1>2
  <2> QED
    BY <1>2, <2>8, <2>9, <2>10, <2>11, <2>12, <2>13 DEF OffsetWalk
<1> QED
  BY <1>2, <1>3, <1>4 DEF WalkInv

LEMMA handleListRepoContentStep ==
    ASSUME WalkInv, L!handleListRepoContent
    PROVE  WalkInv'
<1>1. PICK page : page = L!AtOffset(walk.cur)
  OBVIOUS
<1>2. PICK n \in Nat, e \in Nat, c \in Nat, m \in Nat :
           n = Cardinality(page) /\ e = Cardinality(entries) /\ c = walk.cur /\ m = PageLimit
  BY <1>1, AtOffsetIs, EntriesAre
<1>3. PICK more : more = (n >= m /\ c + n < e)
  OBVIOUS
<1>4. more \in BOOLEAN /\ (~more => ~(n >= m) \/ ~(c + n < e))
  BY <1>3
<1>5. list = "content" /\ walk.pc = "page" /\ L!Return(page, more, c + n)
  BY <1>1, <1>2, <1>3, ListCardinality DEF L!handleListRepoContent, L!Page
<1>6. list \in L!Offset
  BY <1>5 DEF L!Offset
<1> QED
  BY <1>1, <1>2, <1>4, <1>5, <1>6, OffsetPage

LEMMA handleListRepoScansStep ==
    ASSUME WalkInv, L!handleListRepoScans
    PROVE  WalkInv'
<1>1. PICK page : page = L!AtOffset(walk.cur)
  OBVIOUS
<1>2. PICK n \in Nat, c \in Nat, m \in Nat : n = Cardinality(page) /\ c = walk.cur /\ m = PageLimit
  BY <1>1, AtOffsetIs, EntriesAre
<1>3. PICK more : more = (n >= m)
  OBVIOUS
<1>b. (n >= m) \in BOOLEAN
  OBVIOUS
<1>4. more \in BOOLEAN /\ (~more => ~(n >= m))
  BY <1>3, <1>b
<1>5. list = "scans" /\ walk.pc = "page" /\ L!Return(page, more, c + n)
  BY <1>1, <1>2, <1>3, ListCardinality DEF L!handleListRepoScans, L!Page
<1>6. list \in L!Offset
  BY <1>5 DEF L!Offset
<1> QED
  BY <1>1, <1>2, <1>4, <1>5, <1>6, OffsetPage

LEMMA InsertStep ==
    ASSUME WalkInv, NEW k \in Entries, L!Insert(k)
    PROVE  WalkInv'
<1>1. /\ entries' = entries \cup {k} /\ writes' = writes + 1 /\ writes < MaxWrites
      /\ UNCHANGED <<list, grp, walk, got, seen, steady, lost>>
  BY DEF L!Insert
<1>2. writes' \in 0 .. MaxWrites /\ writes' # 0
  BY <1>1, EntriesAre DEF WalkInv, WalkTypes
<1>3. WalkTypes'
  BY <1>1, <1>2 DEF WalkInv, WalkTypes
<1>4. KeyedWalk'
  BY <1>1 DEF WalkInv, KeyedWalk, Keyed, Returned
<1>5. OffsetWalk'
  BY <1>2 DEF OffsetWalk
<1> QED
  BY <1>3, <1>4, <1>5 DEF WalkInv

LEMMA RemoveStep ==
    ASSUME WalkInv, NEW k \in Entries, L!Remove(k)
    PROVE  WalkInv'
<1>1. /\ entries' = entries \ {k} /\ steady' = steady \ {k} /\ writes' = writes + 1 /\ writes < MaxWrites
      /\ lost' = IF k = walk.cur THEN "yes" ELSE lost
      /\ UNCHANGED <<list, grp, walk, got, seen>>
  BY DEF L!Remove
<1>2. writes' \in 0 .. MaxWrites /\ writes' # 0
  BY <1>1, EntriesAre DEF WalkInv, WalkTypes
<1>3. WalkTypes'
  BY <1>1, <1>2 DEF WalkInv, WalkTypes
<1>4. KeyedWalk'
  <2>1. SUFFICES ASSUME Keyed' PROVE KeyedWalk'
    BY DEF KeyedWalk
  <2>2. Keyed /\ (list \in L!RowKind /\ list \notin L!Keyset => k # walk.cur)
    BY <2>1, <1>1 DEF Keyed
  <2>3. \A x \in steady' : x \in steady /\ Returned(x)' = Returned(x)
    BY <1>1 DEF Returned
  <2>4. list \in L!RowKind => list \notin L!Keyset
    BY DEF L!RowKind, L!Keyset
  <2>5. /\ \A x \in Entries : got[x] < 2 /\ (walk.pc = "page" /\ x > walk.cur => got[x] = 0)
        /\ \A x \in steady : x <= walk.cur \/ walk.pc = "done" => Returned(x)
        /\ list \in L!RowKind /\ walk.pc = "page" => walk.cur \in entries \cup {0}
    BY <2>2 DEF WalkInv, KeyedWalk
  <2> QED
    BY <2>2, <2>3, <2>4, <2>5, <1>1 DEF KeyedWalk
<1>5. OffsetWalk'
  BY <1>2 DEF OffsetWalk
<1> QED
  BY <1>3, <1>4, <1>5 DEF WalkInv

\* What counts towards a page of keys and common prefixes.
LEMMA ItemsCounted ==
    ASSUME WalkInv, NEW S \in SUBSET Entries, NEW T \in SUBSET S
    PROVE  /\ Cardinality(L!PageItems(S)) \in Nat /\ Cardinality(L!PageItems(T)) \in Nat
           /\ Cardinality(L!PageItems(T)) <= Cardinality(L!PageItems(S))
<1> DEFINE X == {x \in S : grp[x] # 0 /\ grp[x] \notin walk.prefixes}
           V == {-grp[k] : k \in X}
           h == [k \in X |-> -grp[k]]
<1>1. IsFiniteSet({k \in S : grp[k] = 0}) /\ IsFiniteSet(X)
  BY EntrySets
<1>2. h \in Surjection(X, V)
  BY DEF Surjection
<1>3. IsFiniteSet(V)
  <2> HIDE DEF X, V, h
  <2> QED
    BY <1>1, <1>2, FS_Surjection
<1>4. L!PageItems(S) = {k \in S : grp[k] = 0} \cup V
  BY DEF L!PageItems
<1>5. IsFiniteSet(L!PageItems(S))
  <2> HIDE DEF X, V, h
  <2> QED
    BY <1>1, <1>3, <1>4, FS_Union
<1>6. L!PageItems(T) \in SUBSET L!PageItems(S)
  BY DEF L!PageItems
<1> QED
  BY <1>5, <1>6, FS_Subset, FS_CardinalityType

\* One turn of ListBucket: the keys taken are those up to the next marker, or all.
LEMMA BucketTurn ==
    ASSUME WalkInv, list = "ListBucket", walk.pc = "page", NEW taken \in SUBSET L!After(walk.cur),
           got' = [k \in Entries |-> IF k \in taken /\ grp[k] = 0
                                     THEN (IF got[k] = 0 THEN 1 ELSE 2) ELSE got[k]],
           seen' = seen \cup ({grp[k] : k \in taken} \ {0}),
           UNCHANGED <<list, grp, entries, steady, lost, writes>>,
           walk' \in WalkRecord, walk.cur <= walk'.cur,
           walk'.pc = "page" => \A k \in taken : k <= walk'.cur,
           \A k \in L!After(walk.cur) : k <= walk'.cur \/ walk'.pc = "done" => k \in taken
    PROVE  WalkInv'
<1>t. WalkTypes
  BY DEF WalkInv
<1>0. /\ entries \subseteq Entries /\ steady \subseteq entries /\ Entries \subseteq Nat
      /\ walk.cur \in Nat /\ walk'.cur \in Nat /\ taken \in SUBSET Entries
      /\ grp \in [Entries -> Nat] /\ got \in [Entries -> 0 .. 2]
  BY <1>t, EntriesAre, AfterIs DEF WalkTypes, WalkRecord
<1>1. WalkTypes'
  <2>1. got' \in [Entries -> 0 .. 2]
    BY <1>0
  <2>2. seen' \subseteq Nat
    <3>1. seen \subseteq Nat
      BY <1>t DEF WalkTypes
    <3>2. \A k \in taken : grp[k] \in Nat
      BY <1>0
    <3> QED
      BY <3>1, <3>2
  <2> QED
    BY <2>1, <2>2, <1>t DEF WalkTypes, WalkRecord
<1>2. Keyed
  BY DEF Keyed, L!Keyset
<1>3. /\ \A k \in Entries : got[k] < 2 /\ (k > walk.cur => got[k] = 0)
      /\ \A k \in steady : k <= walk.cur => Returned(k)
  BY <1>2 DEF WalkInv, KeyedWalk
<1>4. \A k \in Entries : got'[k] = IF k \in taken /\ grp[k] = 0 THEN (IF got[k] = 0 THEN 1 ELSE 2) ELSE got[k]
  OBVIOUS
<1>5. \A k \in taken : k > walk.cur /\ k \in Entries /\ got[k] = 0
  <2>1. \A k \in taken : k > walk.cur /\ k \in Entries
    BY <1>0 DEF L!After
  <2> QED
    BY <2>1, <1>3
<1>6. ASSUME NEW k \in Entries PROVE got'[k] < 2 /\ (walk'.pc = "page" /\ k > walk'.cur => got'[k] = 0)
  <2>0. k \in Nat /\ got[k] \in 0 .. 2
    BY <1>0
  <2>1. CASE k \in taken
    <3>1. walk'.pc = "page" => ~(k > walk'.cur)
      BY <2>1, <2>0, <1>0
    <3>2. got'[k] \in {0, 1}
      BY <2>1, <1>4, <1>5
    <3> QED
      BY <3>1, <3>2
  <2>2. CASE k \notin taken
    <3>1. got'[k] = got[k]
      BY <2>2, <1>4
    <3>2. k > walk'.cur => k > walk.cur
      BY <2>0, <1>0
    <3> QED
      BY <3>1, <3>2, <1>3
  <2> QED
    BY <2>1, <2>2
<1>7. ASSUME NEW k \in steady, k <= walk'.cur \/ walk'.pc = "done" PROVE Returned(k)'
  <2>0. k \in Nat /\ k \in entries /\ k \in Entries
    BY <1>0
  <2>r. Returned(k) <=> IF grp[k] # 0 THEN grp[k] \in seen ELSE got[k] = 1
    BY DEF Returned
  <2>s. Returned(k)' <=> IF grp[k] # 0 THEN grp[k] \in seen' ELSE got'[k] = 1
    BY DEF Returned
  <2>1. CASE k <= walk.cur
    <3>1. k \notin taken
      BY <2>1, <1>5, <1>0, <2>0
    <3>2. Returned(k)
      BY <2>1, <1>3
    <3> QED
      BY <3>1, <3>2, <1>4, <2>0, <2>r, <2>s
  <2>2. CASE ~(k <= walk.cur)
    <3>1. k \in L!After(walk.cur)
      BY <2>2, <2>0, <1>0 DEF L!After
    <3>2. k \in taken
      BY <3>1, <1>7
    <3>3. grp[k] # 0 => grp[k] \in seen'
      BY <3>2
    <3>4. grp[k] = 0 => got'[k] = 1
      BY <3>2, <1>4, <1>5
    <3> QED
      BY <3>3, <3>4, <2>s
  <2> QED
    BY <2>1, <2>2
<1>8. KeyedWalk'
  BY <1>6, <1>7 DEF KeyedWalk, L!RowKind
<1>9. OffsetWalk'
  BY DEF OffsetWalk, L!Offset
<1> QED
  BY <1>1, <1>8, <1>9 DEF WalkInv

LEMMA ListBucketStep ==
    ASSUME WalkInv, L!ListBucket
    PROVE  WalkInv'
<1> DEFINE p == L!ListByBucket(walk.cur, PageLimit + 1)
           taken == {k \in p.objects :
                       walk.added + L!Cardinality(L!PageItems({x \in p.objects : x < k})) < PageLimit}
           added == walk.added + L!Cardinality(L!PageItems(taken))
           full == added >= PageLimit
           more == p.truncated \/ \E k \in p.objects : k > L!LastOf(taken, 0)
<1>1. /\ list = "ListBucket" /\ walk.pc = "page"
      /\ got' = [k \in Entries |-> IF k \in taken /\ grp[k] = 0
                                   THEN (IF got[k] = 0 THEN 1 ELSE 2) ELSE got[k]]
      /\ seen' = seen \cup ({grp[k] : k \in taken} \ {0})
      /\ walk' = IF full /\ more
                 THEN [pc |-> "page", cur |-> L!NextMarker(p.objects, taken), added |-> 0, prefixes |-> {}]
                 ELSE IF ~full /\ p.truncated
                 THEN [pc |-> "page", cur |-> L!Max(p.objects), added |-> added,
                       prefixes |-> walk.prefixes \cup ({grp[k] : k \in taken} \ {0})]
                 ELSE [walk EXCEPT !.pc = "done"]
      /\ UNCHANGED <<list, grp, entries, steady, lost, writes>>
  BY DEF L!ListBucket, L!Page
<1>2. PICK S \in SUBSET Entries : S = L!After(walk.cur)
  BY AfterIs
<1>3. PICK O, n : n \in Nat /\ O = p.objects /\ n = PageLimit + 1 /\ O = L!First(S, n)
  BY <1>2, EntriesAre DEF L!ListByBucket
<1>4. PICK tr : tr = p.truncated /\ tr = (Cardinality(S) > n)
  BY <1>2, <1>3, ListCardinality DEF L!ListByBucket
<1>5. /\ O \subseteq S /\ O \in SUBSET Entries /\ (\A k \in O, x \in S : x < k => x \in O)
      /\ O # S => Cardinality(O) = n
      /\ Cardinality(S) <= n => O = S
  <2>1. /\ O \subseteq S /\ (\A k \in O, x \in S : x < k => x \in O)
        /\ O # S => Cardinality(O) = n
        /\ Cardinality(S) <= n => O = S
    BY <1>3, FirstOf
  <2> QED
    BY <2>1
<1>6. Cardinality(S) \in Nat /\ (~tr => O = S) /\ (tr => O # {}) /\ n \in Nat
  <2>1. Cardinality(S) \in Nat
    BY EntrySets
  <2>2. ~tr => O = S
    <3>1. PICK s \in Nat : s = Cardinality(S)
      BY <2>1
    <3>2. tr = (s > n) /\ (s <= n => O = S)
      BY <3>1, <1>4, <1>5
    <3>3. ~(s > n) => s <= n
      BY <1>3
    <3> QED
      BY <3>2, <3>3
  <2>3. ASSUME tr, O = {} PROVE FALSE
    <3>1. Cardinality(O) = 0
      BY <2>3, FS_EmptySet
    <3>2. n > 0
      BY <1>3, EntriesAre
    <3>3. O = S
      BY <3>1, <3>2, <1>5, <1>3
    <3>4. Cardinality(S) > n
      BY <2>3, <1>4
    <3> QED
      BY <3>1, <3>2, <3>3, <3>4, <1>3
  <2> QED
    BY <2>1, <2>2, <2>3, <1>3
<1>7. PICK T : T = taken
  OBVIOUS
<1>a. walk.added \in 0 .. PageLimit /\ PageLimit \in Nat /\ walk.cur \in Nat /\ walk.cur \in {0} \cup Entries
  BY EntriesAre, AfterIs DEF WalkInv, WalkTypes
<1>8. T = {k \in O : walk.added + Cardinality(L!PageItems({x \in O : x < k})) < PageLimit}
  BY <1>3, <1>7, ListCardinality
<1>9. PICK A : A = walk.added + Cardinality(L!PageItems(T)) /\ A = added
  BY <1>7, ListCardinality
<1>10. PICK fl : fl = full
  OBVIOUS
<1>11. PICK mo : mo = more
  OBVIOUS
<1>12. T \subseteq O /\ T \in SUBSET Entries /\ \A k \in T, x \in S : x < k => x \in T
  <2>1. T \subseteq O /\ T \in SUBSET Entries
    BY <1>8, <1>5
  <2>2. ASSUME NEW k \in T, NEW x \in S, x < k PROVE x \in T
    <3>1. k \in O /\ x \in O /\ O \subseteq Nat
      BY <2>1, <2>2, <1>5, EntriesAre
    <3>2. PICK X, Z : X \in SUBSET Entries /\ Z \in SUBSET X /\ X = {y \in O : y < k} /\ Z = {y \in O : y < x}
      <4>1. {y \in O : y < k} \in SUBSET Entries
        BY <1>5
      <4>2. ASSUME NEW y \in O, y < x PROVE y < k
        BY <4>2, <3>1, <2>2
      <4> QED
        BY <4>1, <4>2
    <3>3. PICK u \in Nat, v \in Nat : /\ u = Cardinality(L!PageItems(X))
                                      /\ v = Cardinality(L!PageItems(Z)) /\ v <= u
      BY <3>2, ItemsCounted
    <3>4. walk.added + u < PageLimit
      BY <3>2, <3>3, <1>8
    <3>5. walk.added + v < PageLimit
      BY <3>3, <3>4, <1>a
    <3> QED
      BY <3>1, <3>2, <3>3, <3>5, <1>8
  <2> QED
    BY <2>1, <2>2
<1>13. A \in Nat /\ (fl <=> A >= PageLimit)
  <2>1. Cardinality(L!PageItems(T)) \in Nat
    BY <1>12, ItemsCounted
  <2>2. A \in Nat
    BY <2>1, <1>9, <1>a
  <2> QED
    BY <2>2, <1>9, <1>10
<1>14. ~fl => T = O
  <2>1. SUFFICES ASSUME ~fl, T # O PROVE FALSE
    OBVIOUS
  <2>2. O \ T \in SUBSET Nat /\ O \ T # {} /\ O \subseteq Nat
    BY <2>1, <1>12, <1>5, EntriesAre
  <2>3. PICK k \in O \ T : \A y \in O \ T : k <= y
    BY <2>2, LowestOf
  <2>4. {x \in O : x < k} = T
    <3>1. ASSUME NEW x \in O, x < k PROVE x \in T
      <4>1. x \in Nat /\ k \in Nat /\ ~(k <= x)
        BY <3>1, <2>2
      <4> QED
        BY <4>1, <2>3
    <3>2. ASSUME NEW x \in T PROVE x \in O /\ x < k
      <4>1. x \in Nat /\ k \in Nat /\ k \in S /\ x # k /\ x \in O
        BY <2>2, <1>12, <1>5
      <4>2. ~(k < x)
        BY <4>1, <1>12
      <4> QED
        BY <4>1, <4>2
    <3> QED
      BY <3>1, <3>2
  <2>5. ~(A < PageLimit)
    BY <2>3, <2>4, <1>8, <1>9
  <2> QED
    BY <2>1, <2>5, <1>13, <1>a
<1>15. /\ walk' = IF fl /\ mo
                  THEN [pc |-> "page", cur |-> L!NextMarker(O, T), added |-> 0, prefixes |-> {}]
                  ELSE IF ~fl /\ tr
                  THEN [pc |-> "page", cur |-> L!Max(O), added |-> A,
                        prefixes |-> walk.prefixes \cup ({grp[k] : k \in T} \ {0})]
                  ELSE [walk EXCEPT !.pc = "done"]
       /\ mo <=> tr \/ \E k \in O : k > L!LastOf(T, 0)
       /\ got' = [k \in Entries |-> IF k \in T /\ grp[k] = 0
                                     THEN (IF got[k] = 0 THEN 1 ELSE 2) ELSE got[k]]
       /\ seen' = seen \cup ({grp[k] : k \in T} \ {0})
  BY <1>1, <1>3, <1>4, <1>7, <1>9, <1>10, <1>11
<1>16. T \in SUBSET L!After(walk.cur) /\ \A k \in L!After(walk.cur) : k > walk.cur /\ k \in Nat
  BY <1>2, <1>5, <1>12, EntriesAre DEF L!After
<1> HIDE DEF p, taken, added, full, more
<1>17. CASE fl /\ mo
  <2>1. PICK c : c = L!LastOf(T, walk.cur)
    OBVIOUS
  <2>2. c \in {0} \cup Entries /\ c \in Nat /\ (T = {} => c = walk.cur) /\ (T # {} => c \in T) /\ \A k \in T : k <= c
    BY <2>1, <1>12, <1>a, LastIs
  <2>3. walk' = [pc |-> "page", cur |-> c, added |-> 0, prefixes |-> {}]
    BY <2>1, <1>15, <1>17 DEF L!NextMarker
  <2>4. walk' \in WalkRecord /\ walk'.cur = c /\ walk'.pc = "page"
    BY <2>2, <2>3, <1>a DEF WalkRecord
  <2>5. walk.cur <= c
    BY <2>2, <1>16, <1>a
  <2>6. ASSUME NEW k \in L!After(walk.cur), k <= c PROVE k \in T
    <3>1. k \in Nat /\ k > walk.cur
      BY <1>16
    <3>2. T # {}
      BY <3>1, <2>2, <2>6, <1>a
    <3> QED
      BY <3>1, <3>2, <2>2, <2>6, <1>12, <1>2
  <2> QED
    BY <2>2, <2>4, <2>5, <2>6, <1>1, <1>15, <1>16, BucketTurn
<1>18. CASE ~fl /\ tr
  <2>1. PICK c : c = L!Max(O)
    OBVIOUS
  <2>2. c \in O /\ c \in Nat /\ \A k \in O : k <= c
    BY <2>1, <1>5, <1>6, <1>18, HighestOf, EntriesAre
  <2>3. walk' = [pc |-> "page", cur |-> c, added |-> A,
                 prefixes |-> walk.prefixes \cup ({grp[k] : k \in T} \ {0})]
    BY <2>1, <1>15, <1>18
  <2>p. walk.prefixes \cup ({grp[k] : k \in T} \ {0}) \in SUBSET Nat /\ A \in 0 .. PageLimit
    <3>1. walk.prefixes \in SUBSET Nat /\ grp \in [Entries -> Nat]
      BY EntriesAre DEF WalkInv, WalkTypes
    <3> QED
      BY <3>1, <1>12, <1>13, <1>18, <1>a
  <2>4. walk' \in WalkRecord /\ walk'.cur = c /\ walk'.pc = "page"
    BY <2>2, <2>3, <2>p, <1>5 DEF WalkRecord
  <2>5. walk.cur <= c
    BY <2>2, <1>16, <1>a, <1>5, <1>2
  <2>6. ASSUME NEW k \in L!After(walk.cur), k <= c PROVE k \in T
    <3>1. k \in Nat /\ k \in S
      BY <1>16, <1>2
    <3>2. k \in O
      BY <3>1, <2>2, <2>6, <1>5
    <3> QED
      BY <3>2, <1>14, <1>18
  <2>7. \A k \in T : k <= c
    BY <2>2, <1>12
  <2> QED
    BY <2>4, <2>5, <2>6, <2>7, <1>1, <1>15, <1>16, BucketTurn
<1>19. CASE ~(fl /\ mo) /\ ~(~fl /\ tr)
  <2>1. PICK w \in WalkRecord : w = walk
    BY DEF WalkInv, WalkTypes, WalkRecord
  <2>2. PICK v : v = [w EXCEPT !.pc = "done"]
    OBVIOUS
  <2>3. v \in WalkRecord /\ v.pc = "done" /\ v.cur = w.cur
    BY <2>2 DEF WalkRecord
  <2>4. walk' = v
    BY <2>1, <2>2, <1>15, <1>19
  <2>5. ASSUME NEW k \in L!After(walk.cur) PROVE k \in T
    <3>1. CASE ~fl
      BY <3>1, <1>14, <1>19, <1>6, <1>2
    <3>2. CASE fl
      <4>1. ~tr /\ ~\E y \in O : y > L!LastOf(T, 0)
        BY <3>2, <1>15, <1>19
      <4>2. k \in O /\ k \in Nat /\ k > 0 /\ k \in S
        BY <4>1, <1>6, <1>2, <1>16, <1>a, EntriesAre
      <4>3. PICK c : c = L!LastOf(T, 0)
        OBVIOUS
      <4>4. c \in Nat /\ (T = {} => c = 0) /\ (T # {} => c \in T)
        BY <4>3, <1>12, LastIs
      <4>5. k <= c
        BY <4>1, <4>2, <4>3, <4>4
      <4>6. c \in T
        BY <4>2, <4>4, <4>5
      <4> QED
        BY <4>2, <4>4, <4>5, <4>6, <1>12
    <3> QED
      BY <3>1, <3>2
  <2>6. walk.cur <= walk'.cur
    BY <2>1, <2>3, <2>4, <1>a
  <2> QED
    BY <2>3, <2>4, <2>5, <2>6, <1>1, <1>15, <1>16, BucketTurn
<1> QED
  BY <1>17, <1>18, <1>19

LEMMA WalkStep ==
    ASSUME WalkInv, L!LNext \/ UNCHANGED lvars
    PROVE  WalkInv'
<1>1. CASE L!LNext
  BY <1>1, ListBucketStep, handleListS3ObjectsStep, ListMultipartUploadsStep, handleListAuditStep, tagsListStep,
     handleListUsersStep, handleListProjectsFullStep, handleListRepoContentStep, handleListRepoScansStep,
     handleGitCommitsStep, InsertStep, RemoveStep
     DEF L!LNext
<1>2. CASE UNCHANGED lvars
  BY <1>2 DEF lvars, WalkInv, WalkTypes, KeyedWalk, OffsetWalk, Keyed, Returned
<1> QED
  BY <1>1, <1>2

LEMMA WalkInit ==
    ASSUME L!LInit
    PROVE  WalkInv
<1>1. PICK w : w = walk
  OBVIOUS
<1>2. w = [pc |-> "page", cur |-> 0, added |-> 0, prefixes |-> {}]
  BY <1>1 DEF L!LInit
<1>3. w \in WalkRecord /\ w.pc = "page" /\ w.cur = 0
  BY <1>2, EntriesAre DEF WalkRecord
<1>4. WalkTypes
  BY <1>1, <1>3, EntriesAre DEF L!LInit, WalkTypes, WalkRecord
<1>5. KeyedWalk
  BY <1>1, <1>3, <1>4, EntriesAre DEF L!LInit, KeyedWalk, WalkTypes
<1>6. OffsetWalk
  <2>1. {k \in Entries : got[k] = 1} = {}
    BY DEF L!LInit
  <2>2. Cardinality({k \in Entries : got[k] = 1}) = 0
    BY <2>1, FS_EmptySet
  <2> QED
    BY <2>2, <1>1, <1>3 DEF L!LInit, OffsetWalk
<1> QED
  BY <1>4, <1>5, <1>6 DEF WalkInv

LEMMA WalkShows ==
    ASSUME WalkInv
    PROVE  L!LTypeOK /\ L!WalkComplete
<1>1. L!LTypeOK
  BY DEF WalkInv, WalkTypes, L!LTypeOK
<1>2. list \in L!Keyset \/ list \in L!RowKind \/ list \in L!Offset \/ list = "commits"
  BY DEF WalkInv, WalkTypes, L!Lists
<1>3. CASE Keyed
  <2>1. L!Complete
    BY <1>3 DEF WalkInv, KeyedWalk, Returned, L!Complete
  <2>2. \A k \in Entries : got[k] < 2
    BY <1>3 DEF WalkInv, KeyedWalk
  <2> QED
    BY <1>1, <2>1, <2>2 DEF L!WalkComplete
<1>4. CASE list \in L!RowKind /\ ~Keyed
  BY <1>1, <1>4 DEF WalkInv, WalkTypes, Keyed, L!WalkComplete
<1>5. CASE list \in L!Offset
  <2>1. CASE writes = 0
    <3>1. list # "ListBucket" /\ steady \subseteq entries
      BY <1>5 DEF L!Offset, WalkInv, WalkTypes
    <3>2. L!Complete
      BY <1>5, <2>1, <3>1 DEF WalkInv, OffsetWalk, L!Complete
    <3>3. \A k \in Entries : got[k] < 2
      BY <1>5, <2>1 DEF WalkInv, OffsetWalk
    <3> QED
      BY <1>1, <3>2, <3>3 DEF L!WalkComplete
  <2>2. CASE writes # 0
    BY <1>1, <1>5, <2>2 DEF WalkInv, WalkTypes, L!WalkComplete
  <2> QED
    BY <2>1, <2>2
<1>6. CASE list = "commits"
  BY <1>1, <1>6 DEF L!WalkComplete
<1> QED
  BY <1>2, <1>3, <1>4, <1>5, <1>6 DEF Keyed

(* Listings: a client that walks a list keyed by the last entry gets every *)
(* entry that was there throughout exactly once (a rolled-up S3 key: its   *)
(* prefix) and none twice, whatever is inserted or removed between its     *)
(* pages; for users and projects as long as the row of the cursor stays,   *)
(* for offsets as long as nothing changes.  For any number of entries, any *)
(* page size and any grouping of the keys (list.go:62,                     *)
(* repo_content.go:139, admin_users_full.go:45).                           *)
THEOREM WalksAreComplete == Spec => []WalkComplete
<1>1. Init => (part = "lists" => WalkInv)
  BY WalkInit DEF Init
<1>2. (part = "lists" => WalkInv) /\ [Next]_vars => (part = "lists" => WalkInv)'
  BY RepositorySteps, WalkStep
<1>3. (part = "lists" => WalkInv) => WalkComplete
  BY WalkShows DEF WalkComplete
<1> QED
  BY <1>1, <1>2, <1>3, PTL DEF Spec

-----------------------------------------------------------------------------
(* Publication of Debian, PyPI and Helm indexes.                           *)

PContent == P!Listing \cup {P!Absent}
FileSet == [P!Files -> PContent]
WriteRecord ==
    [pc : {"idle", "file", "move", "kick"}, pg : Pages \cup {0}, t : Parts \cup {0},
     old : 0 .. MaxPublished]
LoopRecord ==
    [pc : {"idle", "list", "top", "read", "write", "away", "in"}, pg : Pages \cup {0},
     parts : SUBSET Parts, file : P!Files \cup {"none"}]
DirsRecord == [new : FileSet, old : FileSet]
SuiteFiles == {"Packages", "Release", "InRelease", "Release.gpg"}

PubTypes ==
    /\ form \in P!Forms /\ src \in [Pages -> P!Listing] /\ declared \in SUBSET Pages
    /\ state \in {"clean", "dirty", "regenerating"} /\ kick \in 0 .. 1
    /\ writer \in [Clients -> WriteRecord]
    /\ loop \in LoopRecord /\ todo \in SUBSET Pages /\ snap \in P!Listing
    /\ ptmp \in DirsRecord /\ pub \in [Pages -> FileSet]
    /\ top \in [{"html", "json"} -> SUBSET Pages] /\ listed \in SUBSET Pages
    /\ born \in SUBSET Pages /\ missing \in SUBSET Pages
    /\ pwrites \in 0 .. MaxPublished /\ past \in SUBSET {"fault", "restart"}

RestAt(pc) == [P!Resting EXCEPT !.pc = pc]
FormFiles ==
    IF form = "deb" THEN SuiteFiles ELSE IF form = "pypi" THEN {"html", "json"} ELSE {"index"}

\* A chart that is being put or deleted has its name.
ChartsKnown ==
    \A w \in Clients : writer[w].pc \in {"file", "move"} =>
        writer[w].pg \in Pages /\ writer[w].t \in Parts

\* Where the regeneration can be, by the kind of repository.
LoopShape ==
    /\ loop.pc \in {"idle", "list"} => loop = RestAt(loop.pc)
    /\ loop.pc = "top" => form = "pypi" /\ loop.pg = 0 /\ loop.file \in {"html", "json"}
    /\ loop.pc = "read" => loop.pg \in Pages /\ loop.file = "none"
    /\ loop.pc = "write" /\ loop.file = "none" => loop = RestAt("write")
    /\ loop.pc = "write" /\ loop.file # "none" => loop.pg \in Pages /\ loop.file \in FormFiles
    /\ loop.pc \in {"away", "in"} => form = "deb" /\ loop.pg \in Pages

\* The files of a suite are of one regeneration.
Whole(d) == \A n, m \in SuiteFiles : d[n] = d[m]

\* The files of the new suite that are written already.
Written ==
    IF loop.pc \in {"away", "in"} THEN SuiteFiles
    ELSE IF loop.pc # "write" THEN {}
    ELSE IF loop.file = "Release" THEN {"Packages"}
    ELSE IF loop.file = "InRelease" THEN {"Packages", "Release"}
    ELSE IF loop.file = "Release.gpg" THEN {"Packages", "Release", "InRelease"} ELSE {}

Gone(s) == s \in missing \/ (loop.pc = "in" /\ loop.pg = s)

\* A suite is whole where it is served, where it was moved away and, as far
\* as it is written, where it is built; one that was published is served,
\* or away, or noted as missing.
SuitesInv ==
    form = "deb" =>
        /\ \A s \in Pages : Whole(pub[s]) /\ (s \in born /\ pub[s]["Release"] = P!Absent => Gone(s))
        /\ \A n \in Written : ptmp.new[n] = snap
        /\ loop.pc = "in" =>
              /\ Whole(ptmp.old)
              /\ loop.pg \in born /\ ptmp.old["Release"] = P!Absent => loop.pg \in missing

\* Nothing was written or failed since the last regeneration began.
Settled == past = {} /\ kick = 0 /\ \A w \in Clients : writer[w] = P!NoWrite

Uptodate(s) ==
    /\ form = "deb" => pub[s]["Packages"] = src[s]
    /\ form = "pypi" => P!OrEmpty(pub[s]["html"]) = src[s] /\ P!OrEmpty(pub[s]["json"]) = src[s]
    /\ form = "helm" => P!OrEmpty(pub[s]["index"]) = src[s]

PypiPages == {pg \in Pages : src[pg] # P!Empty}

\* What is published when a regeneration is over.
IdleFresh ==
    loop.pc = "idle" =>
        /\ state = "clean"
        /\ form = "deb" => \A s \in listed : Uptodate(s)
        /\ form = "helm" => Uptodate(P!Min(Pages))
        /\ form = "pypi" => /\ top["html"] = PypiPages /\ top["json"] = PypiPages
                            /\ \A s \in PypiPages : Uptodate(s)

\* How far a regeneration is: what it listed, and the pages it has done.
LoopFresh ==
    loop.pc \notin {"idle", "list"} =>
        /\ form = "pypi" => listed = PypiPages
        /\ form = "helm" => listed = {P!Min(Pages)}
        /\ loop.pc = "top" /\ loop.file = "json" => top["html"] = listed
        /\ loop.pc = "top" => todo = listed
        /\ loop.pc # "top" /\ form = "pypi" => top["html"] = listed /\ top["json"] = listed
        /\ \A s \in listed \ todo : s # loop.pg => Uptodate(s)
        /\ loop.pc = "read" => \A x \in Parts \ loop.parts : snap[x] = src[loop.pg][x]
        /\ loop.pc \in {"away", "in"} \/ (loop.pc = "write" /\ loop.file # "none") =>
              snap = src[loop.pg]
        /\ loop.pc = "write" /\ loop.file = "json" => pub[loop.pg]["html"] = snap

PubInv == PubTypes /\ ChartsKnown /\ LoopShape /\ SuitesInv /\ (Settled => IdleFresh /\ LoopFresh)

LEMMA PagesAre ==
    Pages \subseteq Nat /\ 0 \notin Pages /\ Pages # {} /\ Parts # {} /\ MaxPublished \in Nat
  BY PublishAssumption

LEMMA LowestPage ==
    ASSUME NEW S \in SUBSET Pages, S # {}
    PROVE  P!Min(S) \in S
<1>1. \E x \in S : \A y \in S : x <= y
  BY PagesAre, LowestOf
<1> QED
  BY <1>1 DEF P!Min

LEMMA ListingFacts ==
    /\ P!Empty \in P!Listing
    /\ \A x \in P!Listing : x # P!Absent /\ P!OrEmpty(x) = x
    /\ P!OrEmpty(P!Absent) = P!Empty
    /\ P!NoFiles \in FileSet /\ \A n \in P!Files : P!NoFiles[n] = P!Absent
<1>1. P!Empty \in P!Listing
  BY PagesAre DEF P!Empty, P!Listing
<1>2. ASSUME NEW x \in P!Listing PROVE x # P!Absent
  <2>1. PICK t \in Parts : TRUE
    BY PagesAre
  <2>2. x[t] \in 0 .. MaxPublished /\ P!Absent[t] = -1
    BY DEF P!Listing, P!Absent
  <2>3. x[t] # -1
    BY <2>2, PagesAre
  <2> QED
    BY <2>2, <2>3
<1>3. P!NoFiles \in FileSet /\ \A n \in P!Files : P!NoFiles[n] = P!Absent
  <2>1. P!Absent \in PContent
    BY DEF PContent
  <2> HIDE DEF P!Absent
  <2> QED
    BY <2>1 DEF P!NoFiles, FileSet
<1> QED
  BY <1>1, <1>2, <1>3 DEF P!OrEmpty

LEMMA RecordFacts ==
    /\ P!NoWrite \in WriteRecord /\ P!NoDirs \in DirsRecord
    /\ P!NoDirs.old = P!NoFiles /\ P!NoDirs.new = P!NoFiles
    /\ P!Resting = RestAt("idle")
    /\ \A pc \in {"idle", "list", "top", "read", "write", "away", "in"} :
          /\ RestAt(pc) \in LoopRecord /\ RestAt(pc).pc = pc /\ RestAt(pc).pg = 0
          /\ RestAt(pc).parts = {} /\ RestAt(pc).file = "none"
<1>1. P!NoWrite \in WriteRecord
  BY PagesAre DEF P!NoWrite, WriteRecord
<1>2. P!NoDirs \in DirsRecord /\ P!NoDirs.old = P!NoFiles /\ P!NoDirs.new = P!NoFiles
  BY ListingFacts DEF P!NoDirs, DirsRecord
<1>3. P!Resting = RestAt("idle")
  BY DEF P!Resting, RestAt
<1>4. ASSUME NEW pc \in {"idle", "list", "top", "read", "write", "away", "in"}
      PROVE  /\ RestAt(pc) \in LoopRecord /\ RestAt(pc).pc = pc /\ RestAt(pc).pg = 0
             /\ RestAt(pc).parts = {} /\ RestAt(pc).file = "none"
  BY DEF RestAt, P!Resting, LoopRecord
<1> QED
  BY <1>1, <1>2, <1>3, <1>4

LEMMA PubInit == ASSUME P!PInit PROVE PubInv
<1>1. /\ src = [pg \in Pages |-> P!Empty] /\ writer = [w \in Clients |-> P!NoWrite]
      /\ loop = RestAt("idle") /\ pub = [pg \in Pages |-> P!NoFiles] /\ ptmp = P!NoDirs
      /\ top = [n \in {"html", "json"} |-> {}] /\ listed = {} /\ state = "clean" /\ born = {}
      /\ snap = P!Empty
  BY RecordFacts DEF P!PInit
<1>2. P!Min(Pages) \in Pages
  BY PagesAre, LowestPage
<1>3. PubTypes
  <2>1. src \in [Pages -> P!Listing] /\ pub \in [Pages -> FileSet]
        /\ top \in [{"html", "json"} -> SUBSET Pages]
    BY <1>1, ListingFacts
  <2>2. writer \in [Clients -> WriteRecord] /\ loop \in LoopRecord /\ ptmp \in DirsRecord
        /\ snap \in P!Listing
    BY <1>1, RecordFacts, ListingFacts
  <2> QED
    BY <2>1, <2>2, <1>2, PagesAre DEF P!PInit, PubTypes
<1>4. ChartsKnown
  BY <1>1 DEF ChartsKnown, P!NoWrite
<1>5. loop.pc = "idle"
  BY <1>1, RecordFacts
<1>6. LoopShape
  BY <1>1, <1>5 DEF LoopShape
<1>7. SuitesInv
  BY <1>1, <1>5, ListingFacts DEF SuitesInv, Whole, SuiteFiles, Written, P!Files
<1>8. ASSUME NEW s \in Pages PROVE Uptodate(s) \/ form = "deb"
  <2>1. pub[s]["html"] = P!Absent /\ pub[s]["json"] = P!Absent /\ pub[s]["index"] = P!Absent
    BY <1>1, ListingFacts DEF P!Files
  <2>2. src[s] = P!Empty
    BY <1>1
  <2> QED
    BY <2>1, <2>2, ListingFacts DEF Uptodate
<1>9. IdleFresh
  <2>1. PypiPages = {}
    BY <1>1 DEF PypiPages
  <2> QED
    BY <2>1, <1>1, <1>2, <1>8 DEF IdleFresh
<1> QED
  BY <1>3, <1>4, <1>5, <1>6, <1>7, <1>9 DEF PubInv, LoopFresh

\* What uploads and deletes leave alone.
LEMMA WritersKeep ==
    ASSUME PubInv, UNCHANGED <<form, loop, todo, snap, ptmp, pub, top, listed, born, missing>>,
           src' \in [Pages -> P!Listing], declared' \in SUBSET Pages,
           state' \in {"clean", "dirty", "regenerating"}, kick' \in 0 .. 1,
           writer' \in [Clients -> WriteRecord], pwrites' \in 0 .. MaxPublished,
           past' \in SUBSET {"fault", "restart"}, ChartsKnown',
           Settled' => Settled /\ src' = src /\ state' = state
    PROVE  PubInv'
<1>1. PubTypes'
  BY DEF PubInv, PubTypes
<1>2. LoopShape'
  BY DEF PubInv, LoopShape, FormFiles, RestAt
<1>3. SuitesInv'
  BY DEF PubInv, SuitesInv, Whole, Written, Gone
<1>4. ASSUME Settled' PROVE IdleFresh' /\ LoopFresh'
  <2>1. Settled /\ src' = src /\ state' = state /\ IdleFresh /\ LoopFresh
    BY <1>4 DEF PubInv
  <2>2. PypiPages' = PypiPages /\ \A s : Uptodate(s)' <=> Uptodate(s)
    BY <2>1 DEF PypiPages, Uptodate
  <2>3. IdleFresh'
    BY <2>1, <2>2 DEF IdleFresh
  <2> QED
    BY <2>1, <2>2, <2>3 DEF LoopFresh
<1> QED
  BY <1>1, <1>2, <1>3, <1>4 DEF PubInv

LEMMA OneWriter ==
    ASSUME PubInv, NEW w \in Clients, NEW r \in WriteRecord,
           r.pc \in {"file", "move"} => r.pg \in Pages /\ r.t \in Parts,
           writer' = [writer EXCEPT ![w] = r]
    PROVE  /\ writer' \in [Clients -> WriteRecord] /\ ChartsKnown'
           /\ r.pc # "idle" => ~Settled'
<1>1. writer \in [Clients -> WriteRecord] /\ ChartsKnown
  BY DEF PubInv, PubTypes
<1>2. writer' \in [Clients -> WriteRecord] /\ writer'[w] = r
      /\ \A o \in Clients : o # w => writer'[o] = writer[o]
  BY <1>1
<1>3. ChartsKnown'
  BY <1>1, <1>2 DEF ChartsKnown
<1>4. P!NoWrite.pc = "idle"
  BY DEF P!NoWrite
<1> QED
  BY <1>2, <1>3, <1>4 DEF Settled

LEMMA SourceTyped ==
    ASSUME PubInv, NEW pg \in Pages, NEW t \in Parts, NEW n \in 0 .. MaxPublished,
           P!Source(pg, t, n)
    PROVE  src' \in [Pages -> P!Listing]
<1>1. src \in [Pages -> P!Listing] /\ src[pg] \in P!Listing
  BY DEF PubInv, PubTypes
<1>2. PICK l : l = [src[pg] EXCEPT ![t] = n]
  OBVIOUS
<1>3. l \in P!Listing
  BY <1>1, <1>2 DEF P!Listing
<1>4. src' = [src EXCEPT ![pg] = l]
  BY <1>2 DEF P!Source
<1> QED
  BY <1>1, <1>3, <1>4

LEMMA KickRecord ==
    ASSUME NEW r, r = [P!NoWrite EXCEPT !.pc = "kick"]
    PROVE  r \in WriteRecord /\ r.pc = "kick"
  BY PagesAre DEF P!NoWrite, WriteRecord

LEMMA PutKeeps ==
    ASSUME PubInv, NEW w \in Clients, NEW pg \in Pages, NEW t \in Parts,
           P!Put(w, pg, t) \/ P!Delete(w, pg, t)
    PROVE  PubInv'
<1>1. PICK r : r = [P!NoWrite EXCEPT !.pc = "kick"]
  OBVIOUS
<1>2. r \in WriteRecord /\ r.pc = "kick" /\ writer' = [writer EXCEPT ![w] = r]
  BY <1>1, KickRecord DEF P!Put, P!Delete
<1>3. writer' \in [Clients -> WriteRecord] /\ ChartsKnown' /\ ~Settled'
  BY <1>2, OneWriter
<1>4. PubTypes
  BY DEF PubInv
<1>5. pwrites' \in 0 .. MaxPublished
      /\ \E n \in 0 .. MaxPublished : P!Source(pg, t, n)
  <2>1. CASE P!Put(w, pg, t)
    <3>1. pwrites \in 0 .. MaxPublished /\ pwrites < MaxPublished /\ pwrites' = pwrites + 1
      BY <2>1, <1>4 DEF P!Put, PubTypes
    <3>2. PICK n \in 0 .. MaxPublished : n = pwrites + 1
      BY <3>1, PagesAre
    <3>3. P!Source(pg, t, n)
      BY <3>2, <2>1 DEF P!Put
    <3> QED
      BY <3>1, <3>2, <3>3
  <2>2. CASE P!Delete(w, pg, t)
    BY <2>2, <1>4, PagesAre DEF P!Delete, PubTypes
  <2> QED
    BY <2>1, <2>2
<1>6. src' \in [Pages -> P!Listing]
  BY <1>5, SourceTyped
<1>7. UNCHANGED <<form, declared, kick, loop, todo, snap, ptmp, pub, top, listed, born,
                  missing, past>>
      /\ state' = "dirty"
  BY DEF P!Put, P!Delete, P!regen, P!published
<1>8. declared' \in SUBSET Pages /\ kick' \in 0 .. 1 /\ past' \in SUBSET {"fault", "restart"}
      /\ state' \in {"clean", "dirty", "regenerating"}
  BY <1>4, <1>7 DEF PubTypes
<1> QED
  BY <1>3, <1>5, <1>6, <1>7, <1>8, WritersKeep

LEMMA PutChartKeeps ==
    ASSUME PubInv, NEW w \in Clients, NEW t \in Parts,
           P!PutChart(w, t) \/ P!DeleteChart(w, t)
    PROVE  PubInv'
<1>0. PICK pg \in Pages : pg = P!Min(Pages)
  BY PagesAre, LowestPage
<1>1. PubTypes
  BY DEF PubInv
<1>2. src[pg][t] \in 0 .. MaxPublished
  BY <1>1 DEF PubTypes, P!Listing
<1>3. PICK q, d : q = [pc |-> "file", pg |-> pg, t |-> t, old |-> src[pg][t]]
                  /\ d = [P!NoWrite EXCEPT !.pc = "move", !.pg = pg, !.t = t]
  OBVIOUS
<1>4. q \in WriteRecord /\ d \in WriteRecord /\ q.pc = "file" /\ d.pc = "move"
      /\ q.pg = pg /\ d.pg = pg /\ q.t = t /\ d.t = t
  <2>1. q \in WriteRecord /\ q.pc = "file" /\ q.pg = pg /\ q.t = t
    BY <1>2, <1>3 DEF WriteRecord
  <2>2. d \in WriteRecord /\ d.pc = "move" /\ d.pg = pg /\ d.t = t
    <3>1. d = [pc |-> "move", pg |-> pg, t |-> t, old |-> 0]
      BY <1>3 DEF P!NoWrite
    <3> QED
      BY <3>1, PagesAre DEF WriteRecord
  <2> QED
    BY <2>1, <2>2
<1>5. writer' = [writer EXCEPT ![w] = q] \/ writer' = [writer EXCEPT ![w] = d]
  BY <1>0, <1>3 DEF P!PutChart, P!DeleteChart
<1>6. writer' \in [Clients -> WriteRecord] /\ ChartsKnown' /\ ~Settled'
  BY <1>4, <1>5, OneWriter
<1>7. pwrites' \in 0 .. MaxPublished /\ src' \in [Pages -> P!Listing]
      /\ state' \in {"clean", "dirty", "regenerating"}
  <2>1. CASE P!PutChart(w, t)
    <3>1. pwrites \in 0 .. MaxPublished /\ pwrites < MaxPublished /\ pwrites' = pwrites + 1
      BY <2>1, <1>1 DEF P!PutChart, PubTypes
    <3>2. PICK n \in 0 .. MaxPublished : n = pwrites + 1
      BY <3>1, PagesAre
    <3>3. P!Source(pg, t, n)
      BY <3>2, <2>1, <1>0 DEF P!PutChart
    <3>4. src' \in [Pages -> P!Listing]
      BY <3>3, SourceTyped
    <3> QED
      BY <3>1, <3>2, <3>4, <2>1, <1>1 DEF P!PutChart, PubTypes
  <2>2. CASE P!DeleteChart(w, t)
    BY <2>2, <1>1 DEF P!DeleteChart, PubTypes
  <2> QED
    BY <2>1, <2>2
<1>8. UNCHANGED <<form, declared, kick, loop, todo, snap, ptmp, pub, top, listed, born,
                  missing, past>>
  BY DEF P!PutChart, P!DeleteChart, P!regen, P!published
<1>9. declared' \in SUBSET Pages /\ kick' \in 0 .. 1 /\ past' \in SUBSET {"fault", "restart"}
  BY <1>1, <1>8 DEF PubTypes
<1> QED
  BY <1>6, <1>7, <1>8, <1>9, WritersKeep

LEMMA ChartEnds ==
    ASSUME PubInv, NEW w \in Clients, P!CommitChart(w) \/ P!MoveChart(w)
    PROVE  PubInv'
<1>1. PubTypes
  BY DEF PubInv
<1>2. writer[w] \in WriteRecord /\ writer[w].pg \in Pages /\ writer[w].t \in Parts
  BY <1>1 DEF PubInv, PubTypes, ChartsKnown, P!CommitChart, P!MoveChart
<1>3. writer[w].old \in 0 .. MaxPublished /\ 0 \in 0 .. MaxPublished
  BY <1>2, PagesAre DEF WriteRecord
<1>4. src' \in [Pages -> P!Listing]
  <2>1. CASE P!Source(writer[w].pg, writer[w].t, writer[w].old)
    BY <2>1, <1>2, <1>3, SourceTyped
  <2>2. CASE P!Source(writer[w].pg, writer[w].t, 0)
    BY <2>2, <1>2, <1>3, SourceTyped
  <2>3. CASE src' = src
    BY <2>3, <1>1 DEF PubTypes
  <2> QED
    BY <2>1, <2>2, <2>3 DEF P!CommitChart, P!MoveChart
<1>5. PICK r : r = [writer[w] EXCEPT !.pc = "kick"]
  OBVIOUS
<1>6. r \in WriteRecord /\ r.pc = "kick"
  BY <1>2, <1>5 DEF WriteRecord
<1>7. P!NoWrite \in WriteRecord /\ P!NoWrite.pc = "idle"
  BY RecordFacts DEF P!NoWrite
<1>8. \/ writer' = [writer EXCEPT ![w] = r] /\ past' = past
      \/ writer' = [writer EXCEPT ![w] = P!NoWrite] /\ past' = past \cup {"fault"}
  BY <1>5 DEF P!CommitChart, P!MoveChart, P!Goto
<1>9. writer' \in [Clients -> WriteRecord] /\ ChartsKnown' /\ ~Settled'
  <2>1. CASE writer' = [writer EXCEPT ![w] = r]
    BY <2>1, <1>6, OneWriter
  <2>2. CASE writer' = [writer EXCEPT ![w] = P!NoWrite] /\ past' = past \cup {"fault"}
    <3>1. writer' \in [Clients -> WriteRecord] /\ ChartsKnown'
      BY <2>2, <1>7, OneWriter
    <3> QED
      BY <3>1, <2>2 DEF Settled
  <2> QED
    BY <1>8, <2>1, <2>2
<1>10. UNCHANGED <<form, declared, kick, loop, todo, snap, ptmp, pub, top, listed, born,
                   missing, pwrites>>
  BY DEF P!CommitChart, P!MoveChart, P!regen, P!published
<1>11. state' \in {"clean", "dirty", "regenerating"} /\ past' \in SUBSET {"fault", "restart"}
  BY <1>1, <1>8 DEF PubTypes, P!CommitChart, P!MoveChart
<1>12. declared' \in SUBSET Pages /\ kick' \in 0 .. 1 /\ pwrites' \in 0 .. MaxPublished
  BY <1>1, <1>10 DEF PubTypes
<1> QED
  BY <1>4, <1>9, <1>10, <1>11, <1>12, WritersKeep

LEMMA KickKeeps == ASSUME PubInv, NEW w \in Clients, P!Kick(w) PROVE PubInv'
<1>1. PubTypes
  BY DEF PubInv
<1>2. P!NoWrite \in WriteRecord /\ P!NoWrite.pc = "idle"
  BY RecordFacts DEF P!NoWrite
<1>3. writer' \in [Clients -> WriteRecord] /\ ChartsKnown'
  BY <1>2, OneWriter DEF P!Kick
<1>4. UNCHANGED <<form, src, declared, state, loop, todo, snap, ptmp, pub, top, listed,
                  born, missing, pwrites, past>>
      /\ kick' = 1
  BY DEF P!Kick, P!regen, P!published
<1>5. ~Settled'
  BY <1>4 DEF Settled
<1> QED
  BY <1>1, <1>3, <1>4, <1>5, WritersKeep DEF PubTypes

LEMMA SuitesKeep == ASSUME PubInv, NEW pg \in Pages, P!patchSuites(pg) PROVE PubInv'
<1>1. PubTypes /\ ChartsKnown
  BY DEF PubInv
<1>2. UNCHANGED <<form, src, state, kick, writer, loop, todo, snap, ptmp, pub, top,
                  listed, born, missing, pwrites, past>>
      /\ declared' = declared \cup {pg}
  BY DEF P!patchSuites, P!regen, P!published
<1>3. Settled' => Settled
  BY <1>2 DEF Settled
<1>4. ChartsKnown'
  BY <1>1, <1>2 DEF ChartsKnown
<1> QED
  BY <1>1, <1>2, <1>3, <1>4, WritersKeep DEF PubTypes

\* What every step of a regeneration leaves alone.
LEMMA RegenFrame ==
    ASSUME PubInv, UNCHANGED <<form, src, declared, writer, pwrites, kick, past>>,
           state' \in {"clean", "dirty", "regenerating"}, loop' \in LoopRecord,
           todo' \in SUBSET Pages, snap' \in P!Listing, ptmp' \in DirsRecord,
           pub' \in [Pages -> FileSet], top' \in [{"html", "json"} -> SUBSET Pages],
           listed' \in SUBSET Pages, born' \in SUBSET Pages, missing' \in SUBSET Pages
    PROVE  /\ PubTypes' /\ ChartsKnown' /\ (Settled' => Settled /\ IdleFresh /\ LoopFresh)
           /\ PypiPages' = PypiPages /\ FormFiles' = FormFiles
           /\ \A s : pub'[s] = pub[s] => (Uptodate(s)' <=> Uptodate(s))
<1>1. PubTypes' /\ ChartsKnown'
  BY DEF PubInv, PubTypes, ChartsKnown
<1>2. Settled' => Settled /\ IdleFresh /\ LoopFresh
  BY DEF PubInv, Settled
<1> QED
  BY <1>1, <1>2 DEF PypiPages, FormFiles, Uptodate

LEMMA StartKeeps == ASSUME PubInv, NEW k, P!Start(k) PROVE PubInv'
<1>1. UNCHANGED <<form, src, declared, writer, todo, snap, ptmp, pub, top, listed, born,
                  missing, pwrites>>
      /\ kick' = 0 /\ past' = {} /\ state' = "regenerating" /\ loop.pc = "idle"
      /\ loop' = RestAt("list")
  BY DEF P!Start, P!published, RestAt
<1>2. loop' \in LoopRecord /\ loop'.pc = "list"
  BY <1>1, RecordFacts
<1>3. PubTypes'
  BY <1>1, <1>2 DEF PubInv, PubTypes
<1>4. ChartsKnown' /\ LoopShape'
  BY <1>1, <1>2 DEF PubInv, ChartsKnown, LoopShape
<1>5. SuitesInv'
  <2>1. Written' = {} /\ \A s : Gone(s) => Gone(s)'
    BY <1>1, <1>2 DEF Written, Gone
  <2> QED
    BY <2>1, <1>1, <1>2 DEF PubInv, SuitesInv, Whole
<1> QED
  BY <1>2, <1>3, <1>4, <1>5 DEF PubInv, IdleFresh, LoopFresh

LEMMA ListKeeps ==
    ASSUME PubInv, NEW k, NEW pages \in SUBSET Pages, NEW pc, NEW fl,
           P!ListPages(k, pages, pc, fl),
           \/ pc = "write" /\ fl = "none" /\ form # "pypi"
           \/ pc = "top" /\ fl = "html" /\ form = "pypi" /\ pages = PypiPages,
           form = "helm" => pages = {P!Min(Pages)}
    PROVE  PubInv'
<1>1. UNCHANGED <<form, src, declared, state, kick, writer, snap, ptmp, pub, top, born,
                  missing, pwrites, past>>
      /\ loop.pc = "list" /\ todo' = pages /\ listed' = pages
      /\ loop' = [loop EXCEPT !.pc = pc, !.file = fl]
  BY DEF P!ListPages
<1>2. loop = RestAt("list")
  BY <1>1 DEF PubInv, LoopShape
<1>3. loop' \in LoopRecord /\ loop'.pc = pc /\ loop'.file = fl /\ loop'.pg = 0
      /\ (pc = "write" => loop' = RestAt("write"))
  <2>1. loop = [pc |-> "list", pg |-> 0, parts |-> {}, file |-> "none"]
        /\ RestAt("write") = [pc |-> "write", pg |-> 0, parts |-> {}, file |-> "none"]
    BY <1>2 DEF RestAt, P!Resting
  <2>2. loop' = [pc |-> pc, pg |-> 0, parts |-> {}, file |-> fl]
    BY <1>1, <2>1
  <2> QED
    BY <2>1, <2>2 DEF LoopRecord, P!Files
<1>4. PubTypes
  BY DEF PubInv
<1>5. /\ PubTypes' /\ ChartsKnown' /\ (Settled' => Settled /\ IdleFresh /\ LoopFresh)
      /\ PypiPages' = PypiPages /\ \A s : pub'[s] = pub[s] => (Uptodate(s)' <=> Uptodate(s))
  BY <1>1, <1>3, <1>4, RegenFrame DEF PubTypes
<1>6. LoopShape'
  BY <1>1, <1>3 DEF LoopShape
<1>7. SuitesInv'
  <2>1. Written' = {} /\ \A s : Gone(s) => Gone(s)'
    BY <1>1, <1>3 DEF Written, Gone
  <2> QED
    BY <2>1, <1>1, <1>3 DEF PubInv, SuitesInv, Whole
<1>8. IdleFresh' /\ LoopFresh'
  BY <1>1, <1>3, <1>5 DEF IdleFresh, LoopFresh
<1> QED
  BY <1>5, <1>6, <1>7, <1>8 DEF PubInv

LEMMA ListsKeep ==
    ASSUME PubInv, P!ListSuites \/ P!ListProjects \/ P!ListCharts
    PROVE  PubInv'
<1>1. PubTypes /\ P!Min(Pages) \in Pages
  BY PagesAre, LowestPage DEF PubInv
<1>2. CASE P!ListSuites
  <2>1. form = "deb" /\ declared \in SUBSET Pages /\ P!ListPages("deb", declared, "write", "none")
    BY <1>1, <1>2 DEF PubTypes, P!ListSuites, P!ListPages
  <2> QED
    BY <2>1, ListKeeps
<1>3. CASE P!ListProjects
  <2>1. form = "pypi" /\ PypiPages \in SUBSET Pages /\ P!ListPages("pypi", PypiPages, "top", "html")
    BY <1>3 DEF P!ListProjects, P!ListPages, PypiPages
  <2> QED
    BY <2>1, ListKeeps
<1>4. CASE P!ListCharts
  <2>1. PICK pages \in SUBSET Pages : pages = {P!Min(Pages)}
    BY <1>1
  <2>2. form = "helm" /\ P!ListPages("helm", pages, "write", "none")
    BY <2>1, <1>4 DEF P!ListCharts, P!ListPages
  <2> QED
    BY <2>1, <2>2, ListKeeps
<1> QED
  BY <1>2, <1>3, <1>4

LEMMA TopKeeps == ASSUME PubInv, P!WriteTop PROVE PubInv'
<1>1. UNCHANGED <<form, src, declared, state, kick, writer, todo, snap, ptmp, pub,
                  listed, born, missing, pwrites, past>>
      /\ loop.pc = "top" /\ top' = [top EXCEPT ![loop.file] = listed]
      /\ loop' = IF loop.file = "html" THEN [loop EXCEPT !.file = "json"] ELSE RestAt("write")
  BY DEF P!WriteTop, RestAt
<1>2. PubTypes /\ form = "pypi" /\ loop.pg = 0 /\ loop.file \in {"html", "json"} /\ loop \in LoopRecord
  BY <1>1 DEF PubInv, PubTypes, LoopShape
<1>3. loop' \in LoopRecord /\ loop'.pg = 0
      /\ \/ loop.file = "html" /\ loop'.pc = "top" /\ loop'.file = "json"
         \/ loop.file = "json" /\ loop' = RestAt("write") /\ loop'.pc = "write" /\ loop'.file = "none"
  <2>1. CASE loop.file = "html"
    BY <2>1, <1>1, <1>2 DEF LoopRecord, P!Files
  <2>2. CASE loop.file = "json"
    BY <2>2, <1>1, RecordFacts
  <2> QED
    BY <1>2, <2>1, <2>2
<1>4. top \in [{"html", "json"} -> SUBSET Pages] /\ listed \in SUBSET Pages
  BY <1>2 DEF PubTypes
<1>5. top' \in [{"html", "json"} -> SUBSET Pages]
      /\ (loop.file = "html" => top'["html"] = listed)
      /\ (loop.file = "json" => top'["json"] = listed /\ top'["html"] = top["html"])
  BY <1>1, <1>2, <1>4
<1>6. /\ PubTypes' /\ ChartsKnown' /\ (Settled' => Settled /\ IdleFresh /\ LoopFresh)
      /\ PypiPages' = PypiPages /\ \A s : pub'[s] = pub[s] => (Uptodate(s)' <=> Uptodate(s))
  BY <1>1, <1>2, <1>3, <1>5, RegenFrame DEF PubTypes
<1>7. LoopShape'
  BY <1>1, <1>2, <1>3 DEF LoopShape
<1>8. SuitesInv'
  BY <1>1, <1>2 DEF SuitesInv
<1>9. ASSUME Settled' PROVE IdleFresh' /\ LoopFresh'
  <2>1. LoopFresh
    BY <1>6, <1>9
  <2>2. listed = PypiPages /\ todo = listed /\ (loop.file = "json" => top["html"] = listed)
    BY <2>1, <1>1, <1>2 DEF LoopFresh
  <2>3. IdleFresh'
    BY <1>3 DEF IdleFresh
  <2> QED
    BY <2>2, <2>3, <1>1, <1>2, <1>3, <1>5, <1>6 DEF LoopFresh
<1> QED
  BY <1>6, <1>7, <1>8, <1>9 DEF PubInv

LEMMA NextPageKeeps == ASSUME PubInv, P!NextPage PROVE PubInv'
<1>1. PubTypes
  BY DEF PubInv
<1>2. PICK pg \in todo : pg = P!Min(todo)
  BY <1>1, LowestPage DEF PubTypes, P!NextPage
<1>3. UNCHANGED <<form, src, declared, state, kick, writer, pub, top, listed, born,
                  missing, pwrites, past>>
      /\ loop.pc = "write" /\ loop.file = "none" /\ todo' = todo \ {pg} /\ snap' = P!Empty
      /\ ptmp' = P!NoDirs
      /\ loop' = [pc |-> "read", pg |-> pg, parts |-> Parts, file |-> "none"]
  BY <1>2 DEF P!NextPage, P!published
<1>4. loop = RestAt("write") /\ loop.pg = 0 /\ pg \in Pages
  BY <1>1, <1>2, <1>3, RecordFacts DEF PubInv, LoopShape, PubTypes
<1>5. loop' \in LoopRecord /\ loop'.pc = "read" /\ loop'.pg = pg /\ loop'.parts = Parts
      /\ loop'.file = "none"
  BY <1>3, <1>4 DEF LoopRecord
<1>6. /\ PubTypes' /\ ChartsKnown' /\ (Settled' => Settled /\ IdleFresh /\ LoopFresh)
      /\ PypiPages' = PypiPages /\ \A s : pub'[s] = pub[s] => (Uptodate(s)' <=> Uptodate(s))
  BY <1>1, <1>3, <1>5, ListingFacts, RecordFacts, RegenFrame DEF PubTypes
<1>7. LoopShape'
  BY <1>4, <1>5 DEF LoopShape
<1>8. SuitesInv'
  <2>1. Written' = {} /\ \A s : Gone(s) => Gone(s)'
    BY <1>3, <1>5 DEF Written, Gone
  <2> QED
    BY <2>1, <1>3, <1>5 DEF PubInv, SuitesInv, Whole
<1>9. ASSUME Settled' PROVE IdleFresh' /\ LoopFresh'
  <2>1. LoopFresh
    BY <1>6, <1>9
  <2>2. ASSUME NEW s \in listed \ todo', s # pg PROVE Uptodate(s)'
    <3>1. s \in listed \ todo /\ s # loop.pg
      BY <2>2, <1>1, <1>3, <1>4, PagesAre DEF PubTypes
    <3> QED
      BY <3>1, <2>1, <1>3, <1>6 DEF LoopFresh
  <2>3. IdleFresh'
    BY <1>5 DEF IdleFresh
  <2> QED
    BY <2>1, <2>2, <2>3, <1>3, <1>5, <1>6 DEF LoopFresh
<1> QED
  BY <1>6, <1>7, <1>8, <1>9 DEF PubInv

LEMMA ReadKeeps ==
    ASSUME PubInv, NEW k, NEW now \in SUBSET Parts, P!Read(k, now)
    PROVE  PubInv'
<1>1. PubTypes /\ loop \in LoopRecord
  BY DEF PubInv, PubTypes
<1>2. UNCHANGED <<form, src, declared, state, kick, writer, todo, ptmp, pub, top, listed,
                  born, missing, pwrites, past>>
      /\ loop.pc = "read"
      /\ snap' = [x \in Parts |-> IF x \in now THEN src[loop.pg][x] ELSE snap[x]]
      /\ loop' = IF loop.parts \ now # {} THEN [loop EXCEPT !.parts = loop.parts \ now]
                 ELSE [loop EXCEPT !.pc = "write", !.parts = {}, !.file = P!FirstFile]
  BY DEF P!Read, P!published
<1>3. loop.pg \in Pages /\ loop.file = "none"
  BY <1>2 DEF PubInv, LoopShape
<1>4. P!FirstFile \in P!Files /\ P!FirstFile \in FormFiles /\ P!FirstFile # "none" /\ P!FirstFile # "json"
      /\ P!FirstFile \notin {"Release", "InRelease", "Release.gpg"}
  BY DEF P!FirstFile, P!Files, FormFiles, SuiteFiles
<1>5. loop' \in LoopRecord /\ loop'.pg = loop.pg
      /\ \/ loop'.pc = "read" /\ loop'.parts = loop.parts \ now /\ loop'.file = "none"
         \/ loop'.pc = "write" /\ loop.parts \ now = {} /\ loop'.file = P!FirstFile
  <2>1. CASE loop.parts \ now # {}
    BY <2>1, <1>1, <1>2, <1>3 DEF LoopRecord
  <2>2. CASE loop.parts \ now = {}
    <3> HIDE DEF P!FirstFile
    <3> QED
      BY <2>2, <1>1, <1>2, <1>4 DEF LoopRecord
  <2> QED
    BY <2>1, <2>2
<1>6. snap' \in P!Listing /\ \A x \in Parts : snap'[x] = IF x \in now THEN src[loop.pg][x] ELSE snap[x]
  BY <1>1, <1>2, <1>3 DEF PubTypes, P!Listing
<1>7. /\ PubTypes' /\ ChartsKnown' /\ (Settled' => Settled /\ IdleFresh /\ LoopFresh)
      /\ PypiPages' = PypiPages /\ FormFiles' = FormFiles
      /\ \A s : pub'[s] = pub[s] => (Uptodate(s)' <=> Uptodate(s))
  BY <1>1, <1>2, <1>5, <1>6, RegenFrame DEF PubTypes
<1>8. LoopShape'
  BY <1>3, <1>4, <1>5, <1>7 DEF LoopShape
<1>9. SuitesInv'
  <2>1. Written' = {} /\ \A s : Gone(s) => Gone(s)'
    BY <1>2, <1>4, <1>5 DEF Written, Gone
  <2> QED
    BY <2>1, <1>2, <1>5 DEF PubInv, SuitesInv, Whole
<1>10. ASSUME Settled' PROVE IdleFresh' /\ LoopFresh'
  <2>1. LoopFresh
    BY <1>7, <1>10
  <2>2. ASSUME NEW x \in Parts, x \notin loop.parts \ now PROVE snap'[x] = src[loop.pg][x]
    BY <2>1, <2>2, <1>2, <1>6 DEF LoopFresh
  <2>3. ASSUME loop'.pc = "write" PROVE snap' = src[loop.pg]
    <3>1. \A x \in Parts : snap'[x] = src[loop.pg][x]
      BY <2>2, <2>3, <1>5
    <3>2. src[loop.pg] \in P!Listing
      BY <1>1, <1>3 DEF PubTypes
    <3> QED
      BY <3>1, <3>2, <1>6 DEF P!Listing
  <2>4. IdleFresh'
    BY <1>5 DEF IdleFresh
  <2>5. \A s \in listed' \ todo' : s # loop'.pg => Uptodate(s)'
    BY <2>1, <1>2, <1>5, <1>7 DEF LoopFresh
  <2>6. loop'.pc # "top" /\ loop'.file # "json"
    BY <1>4, <1>5
  <2> QED
    BY <2>1, <2>2, <2>3, <2>4, <2>5, <2>6, <1>2, <1>5, <1>7 DEF LoopFresh
<1> QED
  BY <1>7, <1>8, <1>9, <1>10 DEF PubInv

LEMMA ReadsKeep ==
    ASSUME PubInv, P!ListByProject \/ \E t \in Parts : P!ReadEntry(t) \/ P!ReadChart(t)
    PROVE  PubInv'
<1>1. CASE P!ListByProject
  BY <1>1, ReadKeeps DEF P!ListByProject
<1>2. ASSUME NEW t \in Parts, P!ReadEntry(t) \/ P!ReadChart(t) PROVE PubInv'
  <2>1. PICK now \in SUBSET Parts : now = {t}
    OBVIOUS
  <2>2. P!Read("deb", now) \/ P!Read("helm", now)
    BY <2>1, <1>2 DEF P!ReadEntry, P!ReadChart
  <2> QED
    BY <2>2, ReadKeeps
<1> QED
  BY <1>1, <1>2

LEMMA SuiteFileKeeps == ASSUME PubInv, P!WriteSuiteFile PROVE PubInv'
<1>1. PubTypes /\ loop \in LoopRecord /\ ptmp \in DirsRecord /\ snap \in P!Listing
  BY DEF PubInv, PubTypes
<1>2. UNCHANGED <<form, src, declared, state, kick, writer, todo, snap, pub, top, listed,
                  born, missing, pwrites, past>>
      /\ form = "deb" /\ loop.pc = "write" /\ loop.file # "none"
      /\ ptmp' = [ptmp EXCEPT !.new = [@ EXCEPT ![loop.file] = snap]]
      /\ loop' = IF P!Last THEN [loop EXCEPT !.pc = "away"]
                 ELSE [loop EXCEPT !.file = P!NextFile(loop.file)]
  BY DEF P!WriteSuiteFile, P!published
<1>3. loop.pg \in Pages /\ loop.file \in SuiteFiles
  BY <1>2 DEF PubInv, LoopShape, FormFiles
<1>4. PICK d : d = [ptmp.new EXCEPT ![loop.file] = snap]
  OBVIOUS
<1>5. ptmp.new \in FileSet /\ ptmp.old \in FileSet
  BY <1>1 DEF DirsRecord
<1>6. d \in FileSet /\ d[loop.file] = snap /\ \A n \in P!Files : n # loop.file => d[n] = ptmp.new[n]
  <2>1. snap \in PContent
    BY <1>1 DEF PContent
  <2>2. loop.file \in P!Files
    BY <1>3 DEF SuiteFiles, P!Files
  <2> QED
    BY <2>1, <2>2, <1>4, <1>5 DEF FileSet
<1>7. ptmp' \in DirsRecord /\ ptmp'.new = d /\ ptmp'.old = ptmp.old
  BY <1>1, <1>2, <1>4, <1>5, <1>6 DEF DirsRecord
<1>8. loop' \in LoopRecord /\ loop'.pg = loop.pg
      /\ \/ loop.file = "Release.gpg" /\ loop'.pc = "away" /\ loop'.file = loop.file
         \/ /\ loop.file # "Release.gpg" /\ loop'.pc = "write"
            /\ loop'.file = P!NextFile(loop.file)
  <2>1. CASE loop.file = "Release.gpg"
    BY <2>1, <1>1, <1>2 DEF LoopRecord, P!Last
  <2>2. CASE loop.file # "Release.gpg"
    <3>1. P!NextFile(loop.file) \in P!Files /\ ~P!Last
      BY <2>2, <1>3 DEF SuiteFiles, P!NextFile, P!Files, P!Last
    <3> HIDE DEF P!NextFile
    <3> QED
      BY <3>1, <2>2, <1>1, <1>2 DEF LoopRecord
  <2> QED
    BY <2>1, <2>2
<1>9. P!NextFile(loop.file) # "none"
      /\ (loop.file # "Release.gpg" => P!NextFile(loop.file) \in SuiteFiles /\ P!NextFile(loop.file) # "json")
  BY <1>3 DEF SuiteFiles, P!NextFile
<1>10. /\ PubTypes' /\ ChartsKnown' /\ (Settled' => Settled /\ IdleFresh /\ LoopFresh)
       /\ PypiPages' = PypiPages /\ FormFiles' = FormFiles
       /\ \A s : pub'[s] = pub[s] => (Uptodate(s)' <=> Uptodate(s))
  BY <1>1, <1>2, <1>7, <1>8, RegenFrame DEF PubTypes
<1>11. LoopShape'
  BY <1>2, <1>3, <1>8, <1>9 DEF LoopShape, FormFiles
<1>12. SuitesInv'
  <2>1. \A s : Gone(s) => Gone(s)'
    BY <1>2 DEF Gone
  <2>2. SuitesInv /\ \A n \in Written : ptmp.new[n] = snap
    BY <1>2 DEF PubInv, SuitesInv
  <2>3. Written \subseteq P!Files /\ Written' = Written \cup {loop.file}
    BY <1>2, <1>3, <1>8 DEF Written, SuiteFiles, P!NextFile, P!Files
  <2>4. ASSUME NEW n \in Written' PROVE ptmp'.new[n] = snap
    BY <2>2, <2>3, <2>4, <1>6, <1>7
  <2>5. loop'.pc # "in"
    BY <1>8
  <2> QED
    BY <2>1, <2>2, <2>4, <2>5, <1>2 DEF SuitesInv, Whole
<1>13. ASSUME Settled' PROVE IdleFresh' /\ LoopFresh'
  <2>1. LoopFresh
    BY <1>10, <1>13
  <2>2. IdleFresh'
    BY <1>8 DEF IdleFresh
  <2>3. \A s \in listed' \ todo' : s # loop'.pg => Uptodate(s)'
    BY <2>1, <1>2, <1>8, <1>10 DEF LoopFresh
  <2>4. loop'.pc \in {"write", "away"} /\ loop'.file # "json"
    BY <1>3, <1>8, <1>9 DEF SuiteFiles
  <2> QED
    BY <2>1, <2>2, <2>3, <2>4, <1>2, <1>8 DEF LoopFresh
<1> QED
  BY <1>10, <1>11, <1>12, <1>13 DEF PubInv

\* Only the page of the regeneration changes.
LEMMA OnePage ==
    ASSUME PubInv, NEW d \in FileSet, loop.pg \in Pages, pub' = [pub EXCEPT ![loop.pg] = d]
    PROVE  /\ pub' \in [Pages -> FileSet] /\ pub'[loop.pg] = d
           /\ \A s \in Pages : s # loop.pg => pub'[s] = pub[s]
  BY DEF PubInv, PubTypes

LEMMA ReplaceKeeps ==
    ASSUME PubInv, P!Replace("pypi") \/ P!Replace("helm")
    PROVE  PubInv'
<1>1. PubTypes /\ loop \in LoopRecord /\ snap \in P!Listing
  BY DEF PubInv, PubTypes
<1>2. UNCHANGED <<form, src, declared, state, kick, writer, todo, snap, ptmp, top,
                  listed, born, missing, pwrites, past>>
      /\ form \in {"pypi", "helm"} /\ loop.pc = "write" /\ loop.file # "none"
      /\ pub' = [pub EXCEPT ![loop.pg] = [@ EXCEPT ![loop.file] = snap]]
      /\ loop' = IF P!Last THEN RestAt("write") ELSE [loop EXCEPT !.file = P!NextFile(loop.file)]
  BY DEF P!Replace, RestAt
<1>3. loop.pg \in Pages /\ loop.file \in FormFiles
  BY <1>2 DEF PubInv, LoopShape
<1>4. loop.file \in P!Files
      /\ (form = "pypi" => loop.file \in {"html", "json"}) /\ (form = "helm" => loop.file = "index")
  BY <1>2, <1>3 DEF FormFiles, P!Files
<1>5. PICK d : d = [pub[loop.pg] EXCEPT ![loop.file] = snap]
  OBVIOUS
<1>6. d \in FileSet /\ d[loop.file] = snap
      /\ \A n \in P!Files : n # loop.file => d[n] = pub[loop.pg][n]
  <2>1. snap \in PContent /\ pub[loop.pg] \in FileSet
    BY <1>1, <1>3 DEF PContent, PubTypes
  <2> QED
    BY <2>1, <1>4, <1>5 DEF FileSet
<1>7. pub' \in [Pages -> FileSet] /\ pub'[loop.pg] = d /\ \A s \in Pages : s # loop.pg => pub'[s] = pub[s]
  <2>1. pub' = [pub EXCEPT ![loop.pg] = d]
    BY <1>2, <1>5
  <2> QED
    BY <2>1, <1>3, <1>6, OnePage
<1>8. loop' \in LoopRecord /\ loop'.pc = "write"
      /\ \/ loop.file = "html" /\ loop'.file = "json" /\ loop'.pg = loop.pg
         \/ loop.file # "html" /\ loop' = RestAt("write") /\ loop'.pg = 0 /\ loop'.file = "none"
  <2>1. CASE loop.file = "html"
    BY <2>1, <1>1, <1>2 DEF LoopRecord, P!Last, P!NextFile, P!Files
  <2>2. CASE loop.file # "html"
    <3>1. P!Last
      BY <2>2, <1>2, <1>4 DEF P!Last
    <3> QED
      BY <3>1, <2>2, <1>2, RecordFacts
  <2> QED
    BY <2>1, <2>2
<1>9. /\ PubTypes' /\ ChartsKnown' /\ (Settled' => Settled /\ IdleFresh /\ LoopFresh)
      /\ PypiPages' = PypiPages /\ FormFiles' = FormFiles
      /\ \A s : pub'[s] = pub[s] => (Uptodate(s)' <=> Uptodate(s))
  BY <1>1, <1>2, <1>7, <1>8, RegenFrame DEF PubTypes
<1>10. LoopShape'
  BY <1>2, <1>3, <1>4, <1>8, <1>9 DEF LoopShape, FormFiles
<1>11. SuitesInv'
  BY <1>2 DEF SuitesInv
<1>12. ASSUME Settled' PROVE IdleFresh' /\ LoopFresh'
  <2>1. LoopFresh /\ snap = src[loop.pg] /\ (loop.file = "json" => pub[loop.pg]["html"] = snap)
    BY <1>2, <1>9, <1>12 DEF LoopFresh
  <2>2. IdleFresh'
    BY <1>8 DEF IdleFresh
  <2>3. ASSUME NEW s \in listed' \ todo', s # loop'.pg PROVE Uptodate(s)'
    <3>1. CASE s = loop.pg
      <4>1. loop.file # "html" /\ P!OrEmpty(snap) = snap
        BY <3>1, <2>3, <1>1, <1>8, ListingFacts
      <4>2. form = "pypi" => pub'[s]["html"] = snap /\ pub'[s]["json"] = snap
        BY <3>1, <4>1, <2>1, <1>4, <1>6, <1>7 DEF P!Files
      <4>3. form = "helm" => pub'[s]["index"] = snap
        BY <3>1, <1>4, <1>6, <1>7
      <4> QED
        BY <3>1, <4>1, <4>2, <4>3, <2>1, <1>2 DEF Uptodate
    <3>2. CASE s # loop.pg
      <4>1. s \in Pages /\ s \in listed \ todo
        BY <2>3, <1>1, <1>2 DEF PubTypes
      <4> QED
        BY <4>1, <3>2, <2>1, <1>2, <1>7, <1>9 DEF LoopFresh
    <3> QED
      BY <3>1, <3>2
  <2>4. loop'.file = "json" => pub'[loop'.pg]["html"] = snap'
    BY <1>2, <1>6, <1>7, <1>8
  <2> QED
    BY <2>1, <2>2, <2>3, <2>4, <1>2, <1>8, <1>9 DEF LoopFresh
<1> QED
  BY <1>9, <1>10, <1>11, <1>12 DEF PubInv

LEMMA AwayKeeps == ASSUME PubInv, P!MoveAway PROVE PubInv'
<1>1. PubTypes /\ loop \in LoopRecord /\ ptmp \in DirsRecord
  BY DEF PubInv, PubTypes
<1>2. UNCHANGED <<form, src, declared, state, kick, writer, todo, snap, top, listed,
                  born, missing, pwrites, past>>
      /\ loop.pc = "away" /\ ptmp' = [ptmp EXCEPT !.old = pub[loop.pg]]
      /\ pub' = [pub EXCEPT ![loop.pg] = P!NoFiles] /\ loop' = [loop EXCEPT !.pc = "in"]
  BY DEF P!MoveAway
<1>3. form = "deb" /\ loop.pg \in Pages /\ pub[loop.pg] \in FileSet
  BY <1>1, <1>2 DEF PubInv, LoopShape, PubTypes
<1>4. ptmp' \in DirsRecord /\ ptmp'.new = ptmp.new /\ ptmp'.old = pub[loop.pg]
  BY <1>1, <1>2, <1>3 DEF DirsRecord
<1>5. loop' \in LoopRecord /\ loop'.pc = "in" /\ loop'.pg = loop.pg /\ loop'.file = loop.file
  BY <1>1, <1>2 DEF LoopRecord
<1>6. pub' \in [Pages -> FileSet] /\ pub'[loop.pg] = P!NoFiles
      /\ \A s \in Pages : s # loop.pg => pub'[s] = pub[s]
  BY <1>2, <1>3, ListingFacts, OnePage
<1>7. /\ PubTypes' /\ ChartsKnown' /\ (Settled' => Settled /\ IdleFresh /\ LoopFresh)
      /\ PypiPages' = PypiPages /\ \A s : pub'[s] = pub[s] => (Uptodate(s)' <=> Uptodate(s))
  BY <1>1, <1>2, <1>4, <1>5, <1>6, RegenFrame DEF PubTypes
<1>8. LoopShape'
  BY <1>2, <1>3, <1>5 DEF LoopShape
<1>9. SuitesInv'
  <2>1. Written' = Written
    BY <1>2, <1>5 DEF Written
  <2>2. SuitesInv
    BY DEF PubInv
  <2>3. Whole(pub[loop.pg]) /\ Whole(P!NoFiles)
    BY <2>2, <1>3, ListingFacts DEF SuitesInv, Whole, SuiteFiles, P!Files
  <2>4. loop.pg \in born /\ pub[loop.pg]["Release"] = P!Absent => loop.pg \in missing
    BY <2>2, <1>2, <1>3 DEF SuitesInv, Gone
  <2>5. ASSUME NEW s \in Pages
        PROVE  Whole(pub'[s]) /\ (s \in born /\ pub'[s]["Release"] = P!Absent => Gone(s)')
    BY <2>2, <2>3, <1>2, <1>3, <1>5, <1>6 DEF SuitesInv, Gone
  <2>6. \A n \in Written' : ptmp'.new[n] = snap'
    BY <2>1, <2>2, <1>2, <1>3, <1>4 DEF SuitesInv
  <2>7. Whole(ptmp'.old)
    BY <2>3, <1>4
  <2> QED
    BY <2>4, <2>5, <2>6, <2>7, <1>2, <1>4, <1>5 DEF SuitesInv, Whole
<1>10. ASSUME Settled' PROVE IdleFresh' /\ LoopFresh'
  <2>1. LoopFresh
    BY <1>7, <1>10
  <2>2. IdleFresh'
    BY <1>5 DEF IdleFresh
  <2>3. \A s \in listed' \ todo' : s # loop'.pg => Uptodate(s)'
    BY <2>1, <1>1, <1>2, <1>5, <1>6, <1>7 DEF LoopFresh, PubTypes
  <2> QED
    BY <2>1, <2>2, <2>3, <1>2, <1>3, <1>5 DEF LoopFresh
<1> QED
  BY <1>7, <1>8, <1>9, <1>10 DEF PubInv

LEMMA InKeeps == ASSUME PubInv, P!MoveIn PROVE PubInv'
<1>1. PubTypes /\ loop \in LoopRecord /\ ptmp \in DirsRecord /\ snap \in P!Listing
  BY DEF PubInv, PubTypes
<1>2. UNCHANGED <<form, src, declared, state, kick, writer, todo, snap, top, listed,
                  pwrites, past>>
      /\ loop.pc = "in" /\ pub' = [pub EXCEPT ![loop.pg] = ptmp.new]
      /\ born' = born \cup {loop.pg} /\ missing' = missing \ {loop.pg} /\ ptmp' = P!NoDirs
      /\ loop' = RestAt("write")
  BY DEF P!MoveIn, RestAt
<1>3. form = "deb" /\ loop.pg \in Pages /\ ptmp.new \in FileSet
  BY <1>1, <1>2 DEF PubInv, LoopShape, DirsRecord
<1>4. loop' \in LoopRecord /\ loop'.pc = "write" /\ loop'.pg = 0 /\ loop'.file = "none"
  BY <1>2, RecordFacts
<1>5. pub' \in [Pages -> FileSet] /\ pub'[loop.pg] = ptmp.new
      /\ \A s \in Pages : s # loop.pg => pub'[s] = pub[s]
  BY <1>2, <1>3, OnePage
<1>6. /\ PubTypes' /\ ChartsKnown' /\ (Settled' => Settled /\ IdleFresh /\ LoopFresh)
      /\ PypiPages' = PypiPages /\ \A s : pub'[s] = pub[s] => (Uptodate(s)' <=> Uptodate(s))
  <2>1. born' \in SUBSET Pages /\ missing' \in SUBSET Pages
    BY <1>1, <1>2, <1>3 DEF PubTypes
  <2> QED
    BY <2>1, <1>1, <1>2, <1>4, <1>5, RecordFacts, RegenFrame DEF PubTypes
<1>7. LoopShape'
  BY <1>2, <1>4 DEF LoopShape
<1>8. \A n \in SuiteFiles : ptmp.new[n] = snap
  BY <1>2, <1>3 DEF PubInv, SuitesInv, Written
<1>9. SuitesInv'
  <2>1. Written' = {}
    BY <1>4 DEF Written
  <2>2. Whole(ptmp.new) /\ ptmp.new["Release"] # P!Absent
    BY <1>1, <1>8, ListingFacts DEF Whole, SuiteFiles
  <2>3. ASSUME NEW s \in Pages
        PROVE  Whole(pub'[s]) /\ (s \in born' /\ pub'[s]["Release"] = P!Absent => Gone(s)')
    BY <2>2, <1>2, <1>3, <1>5 DEF PubInv, SuitesInv, Gone
  <2> QED
    BY <2>1, <2>3, <1>4 DEF SuitesInv, Whole
<1>10. ASSUME Settled' PROVE IdleFresh' /\ LoopFresh'
  <2>1. LoopFresh /\ snap = src[loop.pg]
    BY <1>2, <1>6, <1>10 DEF LoopFresh
  <2>2. IdleFresh'
    BY <1>4 DEF IdleFresh
  <2>3. ASSUME NEW s \in listed' \ todo' PROVE Uptodate(s)'
    <3>1. s \in Pages /\ s \in listed \ todo
      BY <1>1, <1>2 DEF PubTypes
    <3>2. CASE s = loop.pg
      <4>1. pub'[s]["Packages"] = src[s]
        BY <3>2, <2>1, <1>5, <1>8 DEF SuiteFiles
      <4> QED
        BY <4>1, <1>2, <1>3 DEF Uptodate
    <3>3. CASE s # loop.pg
      BY <3>1, <3>3, <2>1, <1>2, <1>5, <1>6 DEF LoopFresh
    <3> QED
      BY <3>2, <3>3
  <2> QED
    BY <2>1, <2>2, <2>3, <1>2, <1>3, <1>4 DEF LoopFresh
<1> QED
  BY <1>6, <1>7, <1>9, <1>10 DEF PubInv

LEMMA RegenFinishKeeps == ASSUME PubInv, NEW k, P!Finish(k) PROVE PubInv'
<1>1. PubTypes
  BY DEF PubInv
<1>2. UNCHANGED <<form, src, declared, kick, writer, todo, snap, ptmp, pub, top, listed,
                  born, missing, pwrites, past>>
      /\ loop = RestAt("write") /\ todo = {} /\ state' = "clean" /\ loop' = RestAt("idle")
  BY RecordFacts DEF P!Finish, P!published, RestAt
<1>3. loop.pc = "write" /\ loop.pg = 0 /\ loop' \in LoopRecord /\ loop'.pc = "idle"
  BY <1>2, RecordFacts
<1>4. /\ PubTypes' /\ ChartsKnown' /\ (Settled' => Settled /\ IdleFresh /\ LoopFresh)
      /\ PypiPages' = PypiPages /\ \A s : pub'[s] = pub[s] => (Uptodate(s)' <=> Uptodate(s))
  BY <1>1, <1>2, <1>3, RegenFrame DEF PubTypes
<1>5. LoopShape'
  BY <1>2, <1>3 DEF LoopShape
<1>6. SuitesInv'
  <2>1. Written' = {} /\ \A s : Gone(s) => Gone(s)'
    BY <1>2, <1>3 DEF Written, Gone
  <2> QED
    BY <2>1, <1>2, <1>3 DEF PubInv, SuitesInv, Whole
<1>7. ASSUME Settled' PROVE IdleFresh' /\ LoopFresh'
  <2>1. LoopFresh
    BY <1>4, <1>7
  <2>2. ASSUME NEW s \in listed PROVE Uptodate(s)'
    <3>1. s # loop.pg /\ s \in listed \ todo
      BY <2>2, <1>1, <1>2, <1>3, PagesAre DEF PubTypes
    <3> QED
      BY <3>1, <2>1, <1>2, <1>3, <1>4 DEF LoopFresh
  <2>3. LoopFresh'
    BY <1>3 DEF LoopFresh
  <2>4. /\ form = "pypi" => listed = PypiPages /\ top["html"] = listed /\ top["json"] = listed
        /\ form = "helm" => P!Min(Pages) \in listed
    BY <2>1, <1>3 DEF LoopFresh
  <2> QED
    BY <2>2, <2>3, <2>4, <1>2, <1>4 DEF IdleFresh
<1> QED
  BY <1>4, <1>5, <1>6, <1>7 DEF PubInv

\* What a regeneration cut short leaves: nothing is claimed of the index
\* until the next one begins, and no suite goes without being noted.
LEMMA CutKeeps ==
    ASSUME PubInv, UNCHANGED <<form, src, declared, snap, top, listed, born, pwrites>>,
           state' \in {"clean", "dirty", "regenerating"}, kick' \in 0 .. 1,
           writer' \in [Clients -> WriteRecord], ChartsKnown', pub' \in [Pages -> FileSet],
           missing' \in SUBSET Pages, past' \in SUBSET {"fault", "restart"}, past' # {},
           loop' = P!Resting, todo' = {}, ptmp' = P!NoDirs,
           form = "deb" => \A s \in Pages :
               Whole(pub'[s]) /\ (s \in born /\ pub'[s]["Release"] = P!Absent => s \in missing')
    PROVE  PubInv'
<1>1. loop' = RestAt("idle") /\ loop' \in LoopRecord /\ loop'.pc = "idle"
  BY RecordFacts
<1>2. PubTypes'
  BY <1>1, RecordFacts DEF PubInv, PubTypes
<1>3. LoopShape' /\ ~Settled'
  BY <1>1 DEF LoopShape, Settled
<1>4. Written' = {}
  BY <1>1 DEF Written
<1>5. SuitesInv'
  BY <1>1, <1>4 DEF SuitesInv, Gone, Whole
<1> QED
  BY <1>2, <1>3, <1>5 DEF PubInv

LEMMA FailKeeps == ASSUME PubInv, NEW k, P!Fail(k) PROVE PubInv'
<1>1. PubTypes /\ ChartsKnown
  BY DEF PubInv
<1>2. UNCHANGED <<form, src, declared, kick, writer, snap, pub, top, listed, born,
                  missing, pwrites>>
      /\ loop.pc # "in" /\ past' = past \cup {"fault"} /\ state' \in {"dirty", state}
      /\ loop' = P!Resting /\ todo' = {} /\ ptmp' = P!NoDirs
  BY DEF P!Fail, P!recordFailure
<1>3. form = "deb" => \A s \in Pages :
         Whole(pub'[s]) /\ (s \in born /\ pub'[s]["Release"] = P!Absent => s \in missing')
  BY <1>2 DEF PubInv, SuitesInv, Gone
<1>4. ChartsKnown' /\ past' # {} /\ past' \in SUBSET {"fault", "restart"}
      /\ state' \in {"clean", "dirty", "regenerating"}
  BY <1>1, <1>2 DEF ChartsKnown, PubTypes
<1> QED
  BY <1>1, <1>2, <1>3, <1>4, CutKeeps DEF PubTypes

LEMMA RollBackKeeps == ASSUME PubInv, P!RollBack PROVE PubInv'
<1>1. PubTypes /\ ChartsKnown /\ ptmp \in DirsRecord
  BY DEF PubInv, PubTypes
<1>2. UNCHANGED <<form, src, declared, kick, writer, snap, top, listed, born, pwrites>>
      /\ loop.pc = "in" /\ past' = past \cup {"fault"} /\ state' \in {"dirty", state}
      /\ loop' = P!Resting /\ todo' = {} /\ ptmp' = P!NoDirs
      /\ \/ pub' = [pub EXCEPT ![loop.pg] = ptmp.old] /\ missing' = missing
         \/ missing' = missing \cup {loop.pg} /\ pub' = pub
  BY DEF P!RollBack, P!recordFailure
<1>3. form = "deb" /\ loop.pg \in Pages /\ ptmp.old \in FileSet
  BY <1>1, <1>2 DEF PubInv, LoopShape, DirsRecord
<1>4. /\ \A s \in Pages : /\ Whole(pub[s])
                          /\ s \in born /\ pub[s]["Release"] = P!Absent
                               => s \in missing \/ s = loop.pg
      /\ Whole(ptmp.old)
      /\ loop.pg \in born /\ ptmp.old["Release"] = P!Absent => loop.pg \in missing
  BY <1>2, <1>3 DEF PubInv, SuitesInv, Gone
<1>5. /\ pub' \in [Pages -> FileSet] /\ missing' \in SUBSET Pages
      /\ \A s \in Pages :
            Whole(pub'[s]) /\ (s \in born /\ pub'[s]["Release"] = P!Absent => s \in missing')
  <2>1. CASE pub' = [pub EXCEPT ![loop.pg] = ptmp.old] /\ missing' = missing
    <3>1. pub' \in [Pages -> FileSet] /\ pub'[loop.pg] = ptmp.old
          /\ \A s \in Pages : s # loop.pg => pub'[s] = pub[s]
      BY <2>1, <1>3, OnePage
    <3>2. ASSUME NEW s \in Pages
          PROVE Whole(pub'[s]) /\ (s \in born /\ pub'[s]["Release"] = P!Absent => s \in missing')
      BY <3>1, <2>1, <1>4
    <3> QED
      BY <3>1, <3>2, <2>1, <1>1 DEF PubTypes
  <2>2. CASE missing' = missing \cup {loop.pg} /\ pub' = pub
    BY <2>2, <1>1, <1>3, <1>4 DEF PubTypes
  <2> QED
    BY <1>2, <2>1, <2>2
<1>6. ChartsKnown' /\ past' # {} /\ past' \in SUBSET {"fault", "restart"}
      /\ state' \in {"clean", "dirty", "regenerating"}
  BY <1>1, <1>2 DEF ChartsKnown, PubTypes
<1> QED
  BY <1>1, <1>2, <1>5, <1>6, CutKeeps DEF PubTypes

LEMMA RestartKeeps == ASSUME PubInv, P!Restart PROVE PubInv'
<1>1. PubTypes
  BY DEF PubInv
<1>2. UNCHANGED <<form, src, declared, state, snap, pub, top, listed, born, pwrites>>
      /\ missing' = (IF loop.pc = "in" THEN missing \cup {loop.pg} ELSE missing)
      /\ writer' = [w \in Clients |-> P!NoWrite] /\ kick' = 0 /\ past' = past \cup {"restart"}
      /\ loop' = P!Resting /\ todo' = {} /\ ptmp' = P!NoDirs
  BY DEF P!Restart
<1>3. writer' \in [Clients -> WriteRecord] /\ ChartsKnown'
  BY <1>2, RecordFacts DEF ChartsKnown, P!NoWrite
<1>4. missing' \in SUBSET Pages
  BY <1>1, <1>2 DEF PubInv, LoopShape, PubTypes
<1>5. form = "deb" => \A s \in Pages :
         Whole(pub'[s]) /\ (s \in born /\ pub'[s]["Release"] = P!Absent => s \in missing')
  BY <1>2 DEF PubInv, SuitesInv, Gone
<1>6. past' # {} /\ past' \in SUBSET {"fault", "restart"}
  BY <1>1, <1>2 DEF PubTypes
<1> QED
  BY <1>1, <1>2, <1>3, <1>4, <1>5, <1>6, CutKeeps DEF PubTypes

LEMMA PubStep == ASSUME PubInv, P!PNext \/ UNCHANGED pvars PROVE PubInv'
<1>1. CASE P!PNext
  <2>1. ASSUME NEW w \in Clients, NEW pg \in Pages, NEW t \in Parts,
               P!Put(w, pg, t) \/ P!Delete(w, pg, t)
        PROVE  PubInv'
    BY <2>1, PutKeeps
  <2>2. ASSUME NEW w \in Clients, NEW t \in Parts, P!PutChart(w, t) \/ P!DeleteChart(w, t)
        PROVE  PubInv'
    BY <2>2, PutChartKeeps
  <2>3. ASSUME NEW w \in Clients, P!CommitChart(w) \/ P!MoveChart(w) PROVE PubInv'
    BY <2>3, ChartEnds
  <2>4. ASSUME NEW w \in Clients, P!Kick(w) PROVE PubInv'
    BY <2>4, KickKeeps
  <2>5. ASSUME NEW pg \in Pages, P!patchSuites(pg) PROVE PubInv'
    BY <2>5, SuitesKeep
  <2>6. CASE P!StartDEB \/ P!StartPyPI \/ P!StartHelm
    BY <2>6, StartKeeps DEF P!StartDEB, P!StartPyPI, P!StartHelm
  <2>7. CASE P!ListSuites \/ P!ListProjects \/ P!ListCharts
    BY <2>7, ListsKeep
  <2>8. CASE P!WriteTop
    BY <2>8, TopKeeps
  <2>9. CASE P!NextPage
    BY <2>9, NextPageKeeps
  <2>10. CASE P!ListByProject \/ \E t \in Parts : P!ReadEntry(t) \/ P!ReadChart(t)
    BY <2>10, ReadsKeep
  <2>11. CASE P!WriteSuiteFile
    BY <2>11, SuiteFileKeeps
  <2>12. CASE P!writeHashAndPointer \/ P!WriteIndex
    BY <2>12, ReplaceKeeps DEF P!writeHashAndPointer, P!WriteIndex
  <2>13. CASE P!MoveAway
    BY <2>13, AwayKeeps
  <2>14. CASE P!MoveIn
    BY <2>14, InKeeps
  <2>15. CASE P!FinishDEB \/ P!FinishPyPI \/ P!FinishHelm
    BY <2>15, RegenFinishKeeps DEF P!FinishDEB, P!FinishPyPI, P!FinishHelm
  <2>16. CASE P!FailDEB \/ P!FailPyPI \/ P!FailHelm
    BY <2>16, FailKeeps DEF P!FailDEB, P!FailPyPI, P!FailHelm
  <2>17. CASE P!RollBack
    BY <2>17, RollBackKeeps
  <2>18. CASE P!Restart
    BY <2>18, RestartKeeps
  <2> QED
    BY <1>1, <2>1, <2>2, <2>3, <2>4, <2>5, <2>6, <2>7, <2>8, <2>9, <2>10, <2>11, <2>12, <2>13,
       <2>14, <2>15, <2>16, <2>17, <2>18 DEF P!PNext
<1>2. CASE UNCHANGED pvars
  <2>1. UNCHANGED <<form, src, declared, state, kick, writer, loop, todo, snap, ptmp, pub, top,
                    listed, born, missing, pwrites, past>>
    BY <1>2 DEF pvars
  <2>2. PubTypes /\ ChartsKnown
    BY DEF PubInv
  <2>3. ChartsKnown' /\ (Settled' => Settled)
    BY <2>1, <2>2 DEF ChartsKnown, Settled
  <2> QED
    BY <2>1, <2>2, <2>3, WritersKeep DEF PubTypes
<1> QED
  BY <1>1, <1>2

LEMMA PubShows ==
    ASSUME PubInv
    PROVE  P!PTypeOK /\ P!SuitesWhole /\ P!QuietIsPublished
<1>1. PubTypes
  BY DEF PubInv
<1>2. P!PTypeOK
  <2>1. loop.pc \in {"idle", "list", "top", "read", "write", "away", "in"}
    BY <1>1 DEF PubTypes, LoopRecord
  <2>2. DOMAIN pub = Pages /\ DOMAIN top = {"html", "json"}
    BY <1>1 DEF PubTypes
  <2>3. writer \in [Clients -> [pc : {"idle", "file", "move", "kick"}, pg : Pages \cup {0},
                                t : Parts \cup {0}, old : 0 .. MaxPublished]]
    BY <1>1 DEF PubTypes, WriteRecord
  <2> QED
    BY <2>1, <2>2, <2>3, <1>1 DEF PubTypes, P!PTypeOK
<1>3. P!SuitesWhole
  BY DEF PubInv, SuitesInv, Whole, SuiteFiles, Gone, P!SuitesWhole, P!serveDistsFile
<1>4. P!QuietIsPublished
  <2> SUFFICES ASSUME P!Quiet, past = {} PROVE P!QuietIsPublished
    BY DEF P!QuietIsPublished
  <2>1. Settled /\ loop.pc = "idle"
    BY RecordFacts DEF P!Quiet, Settled
  <2>2. IdleFresh
    BY <2>1 DEF PubInv
  <2>3. state = "clean"
    BY <2>1, <2>2 DEF IdleFresh
  <2>4. form = "deb" => \A s \in listed : P!serveDistsFile(s, "Packages") = src[s]
    BY <2>1, <2>2 DEF IdleFresh, Uptodate, P!serveDistsFile
  <2>5. form = "helm" => P!getIndex = src[P!Min(Pages)]
    BY <2>1, <2>2 DEF IdleFresh, Uptodate, P!getIndex
  <2>6. ASSUME form = "pypi", NEW n \in {"html", "json"}
        PROVE  /\ P!getSimpleIndex(n) = {pg \in Pages : src[pg] # P!Empty}
               /\ \A pg \in P!getSimpleIndex(n) : P!getProjectIndex(pg, n) = src[pg]
    <3>1. top[n] = PypiPages
      BY <2>1, <2>2, <2>6 DEF IdleFresh
    <3>2. ASSUME NEW pg \in PypiPages PROVE P!OrEmpty(pub[pg][n]) = src[pg]
      BY <2>1, <2>2, <2>6 DEF IdleFresh, Uptodate
    <3> QED
      BY <3>1, <3>2 DEF P!getSimpleIndex, P!getProjectIndex, PypiPages
  <2> QED
    BY <2>3, <2>4, <2>5, <2>6 DEF P!QuietIsPublished
<1> QED
  BY <1>2, <1>3, <1>4

(* Publication: whatever uploads and deletes overlap a regeneration, and   *)
(* wherever it fails or the process dies, a Debian suite is served whole   *)
(* and not lost but between its two renames; and a repository in which     *)
(* nothing is under way and nothing failed since its last regeneration     *)
(* began is marked clean and serves what it holds.  For any suites,        *)
(* projects, files, writers and writes (deb/regen.go:335 to 354,           *)
(* pypi/regen.go:91 to 175, helm/regen.go:93 to 142).                      *)
THEOREM IndexesStayPublished == Spec => []IndexesPublished
<1>1. Init => (part = "publish" => PubInv)
  BY PubInit DEF Init
<1>2. (part = "publish" => PubInv) /\ [Next]_vars => (part = "publish" => PubInv)'
  BY RepositorySteps, PubStep
<1>3. (part = "publish" => PubInv) => IndexesPublished
  BY PubShows DEF IndexesPublished
<1> QED
  BY <1>1, <1>2, <1>3, PTL DEF Spec
=============================================================================
