------------------------------ MODULE Listings ------------------------------
(***************************************************************************)
(* How a client walks a paginated list while entries come and go.  Every   *)
(* endpoint has its own rule for the cursor: a key the next page starts    *)
(* after, the id of the last row, an offset, or a commit.  The entries are *)
(* numbers in the order of the list; list says which endpoint is walked,   *)
(* grp[k] # 0 that an S3 key is rolled up into the common prefix grp[k].   *)
(***************************************************************************)
EXTENDS Integers, FiniteSets, FiniteSetsExt

CONSTANTS Entries,    \* 1 .. n, in list order
          PageLimit,  \* entries per page
          Groupings,  \* common prefixes of the keys (functions on Entries)
          MaxWrites   \* bound on concurrent inserts and deletes

Keyset  == {"ListBucket", "s3rest", "uploads", "tags", "audit"}
RowKind == {"users", "projects"}
Offset  == {"content", "scans"}
Lists   == Keyset \cup RowKind \cup Offset \cup {"commits"}

VARIABLES list, grp, entries,
          walk,    \* the client: pc, cur (cursor), added and prefixes of the current page
          got,     \* how often each entry was returned (2 for more)
          seen,    \* common prefixes returned
          steady,  \* entries in the list ever since the walk began
          lost,    \* the row a cursor named was deleted before its use
          writes
lvars == <<list, grp, entries, walk, got, seen, steady, lost, writes>>

LTypeOK ==
    /\ list \in Lists /\ grp \in Groupings
    /\ entries \subseteq Entries /\ steady \subseteq entries
    /\ walk \in [pc : {"page", "done"}, cur : {0} \cup Entries, added : 0 .. PageLimit,
                 prefixes : SUBSET Nat]
    /\ got \in [Entries -> 0 .. 2]
    /\ seen \subseteq Nat
    /\ lost \in {"yes", "no"}
    /\ writes \in 0 .. MaxWrites

LInit ==
    /\ list \in Lists /\ grp \in Groupings
    /\ list # "ListBucket" => grp = CHOOSE g \in Groupings : TRUE
    /\ entries \in SUBSET Entries
    /\ walk = [pc |-> "page", cur |-> 0, added |-> 0, prefixes |-> {}]
    /\ got = [k \in Entries |-> 0]
    /\ seen = {}
    /\ steady = entries
    /\ lost = "no"
    /\ writes = 0

-----------------------------------------------------------------------------
First(S, n) == {k \in S : Cardinality({x \in S : x < k}) < n}
After(c) == {k \in entries : k > c}
LastOf(S, c) == IF S = {} THEN c ELSE Max(S)

(* The client has the entries of S; the walk goes on at cur or is over.    *)
Return(S, more, cur) ==
    /\ got' = [k \in Entries |-> IF k \in S THEN (IF got[k] = 0 THEN 1 ELSE 2) ELSE got[k]]
    /\ walk' = [walk EXCEPT !.pc = IF more THEN "page" ELSE "done", !.cur = cur]
    /\ UNCHANGED <<list, grp, entries, seen, steady, lost, writes>>

Page(l) == list = l /\ walk.pc = "page"

-----------------------------------------------------------------------------
(* S3: one query of ListByBucket, n + 1 rows after the marker.             *)
ListByBucket(c, n) == [objects |-> First(After(c), n), truncated |-> Cardinality(After(c)) > n]

(* Keys and new common prefixes among S count towards the page.            *)
PageItems(S) == {k \in S : grp[k] = 0} \cup {-grp[k] : k \in {x \in S : grp[x] # 0 /\ grp[x] \notin walk.prefixes}}

\* Mutant: the next page starts after the last row that was fetched.
NextMarkerFetched(objects, taken) == LastOf(objects, walk.cur)

NextMarker(objects, taken) == LastOf(taken, walk.cur)

(* One turn of ListBucket's loop: rows are taken until the page is full;   *)
(* a page of rolled-up keys goes on with the next query.                   *)
ListBucket ==
    /\ Page("ListBucket")
    /\ LET p     == ListByBucket(walk.cur, PageLimit + 1)
           taken == {k \in p.objects :
                       walk.added + Cardinality(PageItems({x \in p.objects : x < k})) < PageLimit}
           added == walk.added + Cardinality(PageItems(taken))
           full  == added >= PageLimit
           more  == p.truncated \/ \E k \in p.objects : k > LastOf(taken, 0)
       IN /\ got' = [k \in Entries |-> IF k \in taken /\ grp[k] = 0
                                       THEN (IF got[k] = 0 THEN 1 ELSE 2) ELSE got[k]]
          /\ seen' = seen \cup ({grp[k] : k \in taken} \ {0})
          /\ walk' = IF full /\ more
                     THEN [pc |-> "page", cur |-> NextMarker(p.objects, taken), added |-> 0, prefixes |-> {}]
                     ELSE IF ~full /\ p.truncated
                     THEN [pc |-> "page", cur |-> Max(p.objects), added |-> added,
                           prefixes |-> walk.prefixes \cup ({grp[k] : k \in taken} \ {0})]
                     ELSE [walk EXCEPT !.pc = "done"]
    /\ UNCHANGED <<list, grp, entries, steady, lost, writes>>

(* REST listing of a bucket: the token of ListByBucket as it is.           *)
handleListS3Objects ==
    /\ Page("s3rest")
    /\ LET p == ListByBucket(walk.cur, PageLimit)
       IN Return(p.objects, p.truncated, LastOf(p.objects, walk.cur))

(* One row more than the page is read; it only says that there is more.    *)
ListMultipartUploads ==
    /\ Page("uploads")
    /\ LET rows == First(After(walk.cur), PageLimit + 1)
           page == First(rows, PageLimit)
       IN Return(page, rows # page, LastOf(page, walk.cur))

(* The audit log, newest first, keyed by time and id.                      *)
handleListAudit ==
    /\ Page("audit")
    /\ LET rows == First(After(walk.cur), PageLimit + 1)
           page == First(rows, PageLimit)
       IN Return(page, rows # page, LastOf(page, walk.cur))

(* Tags and the catalog: a full page has a link to a next one.             *)
tagsList ==
    /\ Page("tags")
    /\ LET page == First(After(walk.cur), PageLimit)
       IN Return(page, Cardinality(page) = PageLimit, LastOf(page, walk.cur))

(* The row the cursor names is looked up in the list; when it is not there *)
(* the users start over, and the projects and repositories end.            *)
handleListUsers ==
    /\ Page("users")
    /\ LET rest == IF walk.cur \in entries THEN After(walk.cur) ELSE entries
           page == First(rest, PageLimit)
       IN Return(page, rest # page, LastOf(page, walk.cur))

handleListProjectsFull ==
    /\ Page("projects")
    /\ LET rest == IF walk.cur \in entries \cup {0} THEN After(walk.cur) ELSE {}
           page == First(rest, PageLimit)
       IN Return(page, Cardinality(page) >= PageLimit, LastOf(page, walk.cur))

(* LIMIT and OFFSET: cur is the offset.                                    *)
AtOffset(o) == First(entries \ First(entries, o), PageLimit)

handleListRepoContent ==
    /\ Page("content")
    /\ LET page == AtOffset(walk.cur)
           consumed == walk.cur + Cardinality(page)
       IN Return(page, Cardinality(page) >= PageLimit /\ consumed < Cardinality(entries), consumed)

handleListRepoScans ==
    /\ Page("scans")
    /\ LET page == AtOffset(walk.cur)
       IN Return(page, Cardinality(page) >= PageLimit, walk.cur + Cardinality(page))

(* Commits: the next cursor is the first commit of the next page, and the  *)
(* next request skips up to it and the commit itself.                      *)
handleGitCommits ==
    /\ Page("commits")
    /\ LET rest == After(walk.cur)
           page == First(rest, PageLimit)
       IN Return(page, rest # page, IF rest # page THEN Min(rest \ page) ELSE walk.cur)

-----------------------------------------------------------------------------
(* Entries come and go meanwhile; commits do not.                          *)
Insert(k) ==
    /\ list # "commits" /\ walk.pc = "page" /\ writes < MaxWrites
    /\ k \notin entries
    /\ entries' = entries \cup {k}
    /\ writes' = writes + 1
    /\ UNCHANGED <<list, grp, walk, got, seen, steady, lost>>

Remove(k) ==
    /\ list # "commits" /\ walk.pc = "page" /\ writes < MaxWrites
    /\ k \in entries
    /\ entries' = entries \ {k}
    /\ steady' = steady \ {k}
    /\ lost' = IF k = walk.cur THEN "yes" ELSE lost
    /\ writes' = writes + 1
    /\ UNCHANGED <<list, grp, walk, got, seen>>

LNext ==
    \/ ListBucket \/ handleListS3Objects \/ ListMultipartUploads \/ handleListAudit \/ tagsList
    \/ handleListUsers \/ handleListProjectsFull
    \/ handleListRepoContent \/ handleListRepoScans \/ handleGitCommits
    \/ \E k \in Entries : Insert(k) \/ Remove(k)

LSpec == LInit /\ [][LNext]_lvars

-----------------------------------------------------------------------------
Complete ==
    walk.pc = "done" =>
        \A k \in steady : IF list = "ListBucket" /\ grp[k] # 0 THEN grp[k] \in seen ELSE got[k] = 1

(* A walk returns every entry that was there throughout exactly once (an   *)
(* S3 key that is rolled up: its prefix at least once), and no entry twice,*)
(* whatever is inserted or removed between its pages.  That holds for the  *)
(* lists keyed by the last entry; for users and projects as long as the    *)
(* row of the cursor stays; for offsets as long as nothing changes.        *)
WalkComplete ==
    \/ list = "commits"
    \/ list \in RowKind /\ lost = "yes"
    \/ list \in Offset /\ writes > 0
    \/ Complete /\ \A k \in Entries : got[k] < 2

(* The walk through a repository's commits returns each of them            *)
(* (git_browse.go:424).                                                    *)
CommitWalkComplete == list = "commits" => Complete
=============================================================================
