--------------------------- MODULE BlobGc_proofs ----------------------------
(***************************************************************************)
(* Proofs about module BlobGc, for any clients, pulls, collectors,         *)
(* repositories and blobs, and any durations that TimeAssumption allows.   *)
(*                                                                         *)
(* That rows have files is not inductive.  The inductive invariant says in *)
(* addition what a request in flight relies on: that its blob is covered   *)
(* by a live marker until its deadline, that what it has promoted is still *)
(* there, and that a blob whose row the collector has deleted is used by   *)
(* nobody until its file is gone.  One lemma per action.                   *)
(***************************************************************************)
EXTENDS BlobGc, TLAPS

\* A new upload holds nothing yet.
LEMMA UploadBeginStep ==
    ASSUME IInv, NEW c \in Clients, NEW r \in Repos, NEW b \in Blobs,
           UploadBegin(c, r, b)
    PROVE  IInv'
<1> USE DEF IInv
<1>1. TypeOK'
  BY TimeAssumption DEF TypeOK, ClientState, UploadBegin, tables
<1>2. PushWindow'
  BY DEF UploadBegin, tables, PushWindow
<1>3. ClientsSound'
  BY TimeAssumption DEF TypeOK, UploadBegin, ClientsSound, InFlight,
         Deadline
<1>4. ClientsCovered'
  BY DEF UploadBegin, ClientsCovered, Covered
<1>5. PromotedHaveFiles'
  BY DEF UploadBegin, PromotedHaveFiles
<1>6. DoomedUnused'
  BY DEF UploadBegin, tables, DoomedUnused
<1>7. RowsHaveFiles' /\ LinksHaveRows' /\ PullsCovered'
  BY DEF UploadBegin, tables, RowsHaveFiles, LinksHaveRows, PullsCovered,
         PullHolds
<1> QED
  BY <1>1, <1>2, <1>3, <1>4, <1>5, <1>6, <1>7

\* A mount sees a linked blob and holds nothing yet.
LEMMA MountBeginStep ==
    ASSUME IInv, NEW c \in Clients, NEW r \in Repos,
           NEW src \in Repos, NEW b \in Blobs, MountBegin(c, r, src, b)
    PROVE  IInv'
<1> USE DEF IInv
<1>1. TypeOK'
  BY TimeAssumption DEF TypeOK, ClientState, MountBegin, tables
<1>2. PushWindow'
  BY DEF MountBegin, tables, PushWindow
<1>3. ClientsSound'
  BY TimeAssumption DEF TypeOK, MountBegin, ClientsSound, InFlight,
         Deadline
<1>4. ClientsCovered'
  BY DEF MountBegin, ClientsCovered, Covered
<1>5. PromotedHaveFiles'
  BY DEF MountBegin, PromotedHaveFiles
<1>6. DoomedUnused'
  BY DEF MountBegin, tables, DoomedUnused
<1>7. RowsHaveFiles' /\ LinksHaveRows' /\ PullsCovered'
  BY DEF MountBegin, tables, RowsHaveFiles, LinksHaveRows, PullsCovered,
         PullHolds
<1> QED
  BY <1>1, <1>2, <1>3, <1>4, <1>5, <1>6, <1>7

\* A marker protects its client's blob, and no pull loses protection it needs.
LEMMA StartMarkerStep ==
    ASSUME IInv, NEW c \in Clients, StartMarker(c)
    PROVE  IInv'
<1> USE DEF IInv
<1>1. TypeOK'
  <2>1. client[c] \in ClientState
    BY DEF TypeOK
  <2>2. [client[c] EXCEPT !.pc = "marked"] \in ClientState
    BY <2>1 DEF ClientState
  <2>3. client[c].blob \in Blobs /\ client[c].repo \in Repos /\ client[c].exp \in Nat
    BY <2>1 DEF ClientsSound, ClientState, StartMarker
  <2>4. client' \in [Clients -> ClientState]
    BY <2>2 DEF TypeOK, StartMarker
  <2>5. QED
    BY <2>4, <2>3 DEF TypeOK, StartMarker, tables, Start
<1>2. PushWindow'
  BY DEF StartMarker, tables, PushWindow
<1>3. ClientsSound'
  BY DEF StartMarker, ClientsSound, InFlight, Deadline
<1>4. ClientsCovered'
  BY TimeAssumption DEF TypeOK, ClientState, StartMarker, Start,
         ClientsCovered, Covered, ClientsSound, InFlight, Deadline
<1>5. PromotedHaveFiles'
  BY DEF StartMarker, PromotedHaveFiles
<1>6. PullsCovered'
  BY TimeAssumption DEF TypeOK, ClientState, PullState, StartMarker, Start,
         PullsCovered, PullHolds, ClientsSound, InFlight, Deadline
<1>7. DoomedUnused'
  BY DEF StartMarker, tables, DoomedUnused
<1>8. RowsHaveFiles' /\ LinksHaveRows'
  BY DEF StartMarker, tables, RowsHaveFiles, LinksHaveRows
<1> QED
  BY <1>1, <1>2, <1>3, <1>4, <1>5, <1>6, <1>7, <1>8

\* Promoting creates the file under the lock that the collector takes.
LEMMA UploadPromoteStep ==
    ASSUME IInv, NEW c \in Clients, UploadPromote(c)
    PROVE  IInv'
<1> USE DEF IInv
<1>1. TypeOK'
  <2>1. client[c] \in ClientState
    BY DEF TypeOK
  <2>2. [client[c] EXCEPT !.pc = "promoted"] \in ClientState
    BY <2>1 DEF ClientState
  <2>3. client[c].blob \in Blobs /\ client[c].repo \in Repos /\ client[c].exp \in Nat
    BY <2>1 DEF ClientsSound, ClientState, UploadPromote
  <2>4. client' \in [Clients -> ClientState]
    BY <2>2 DEF TypeOK, UploadPromote
  <2>5. QED
    BY <2>4, <2>3 DEF TypeOK, UploadPromote, tables, Promote
<1>2. RowsHaveFiles'
  BY DEF UploadPromote, tables, Promote, RowsHaveFiles
<1>3. PushWindow'
  BY DEF UploadPromote, tables, Promote, PushWindow
<1>4. ClientsSound'
  BY DEF UploadPromote, ClientsSound, InFlight, Deadline
<1>5. ClientsCovered'
  BY DEF UploadPromote, ClientsCovered, Covered
<1>6. PromotedHaveFiles'
  BY DEF UploadPromote, Promote, PromotedHaveFiles
<1>7. DoomedUnused'
  BY DEF UploadPromote, tables, Promote, Locked, DoomedUnused
<1>8. LinksHaveRows' /\ PullsCovered'
  BY DEF UploadPromote, tables, LinksHaveRows, PullsCovered, PullHolds
<1> QED
  BY <1>1, <1>2, <1>3, <1>4, <1>5, <1>6, <1>7, <1>8

\* The row and the link appear while the marker is live and the file is there.
LEMMA UploadCommitStep ==
    ASSUME IInv, NEW c \in Clients, UploadCommit(c)
    PROVE  IInv'
<1> USE DEF IInv
<1>1. TypeOK'
  <2>1. client[c] \in ClientState
    BY DEF TypeOK
  <2>2. [client[c] EXCEPT !.pc = "done"] \in ClientState
    BY <2>1 DEF ClientState
  <2>3. client[c].blob \in Blobs /\ client[c].repo \in Repos /\ client[c].exp \in Nat
    BY <2>1 DEF ClientsSound, ClientState, UploadCommit
  <2>4. client' \in [Clients -> ClientState]
    BY <2>2 DEF TypeOK, UploadCommit
  <2>5. QED
    BY <2>4, <2>3 DEF TypeOK, UploadCommit
<1>2. RowsHaveFiles'
  BY DEF UploadCommit, RowsHaveFiles, PromotedHaveFiles
<1>3. PushWindow'
  BY DEF UploadCommit, PushWindow, PromotedHaveFiles
<1>4. LinksHaveRows'
  BY DEF UploadCommit, LinksHaveRows
<1>5. ClientsSound'
  BY DEF UploadCommit, ClientsSound, InFlight, Deadline
<1>6. ClientsCovered'
  BY DEF UploadCommit, ClientsCovered, Covered
<1>7. PromotedHaveFiles'
  BY DEF UploadCommit, PromotedHaveFiles
<1>8. DoomedUnused'
  BY DEF UploadCommit, DoomedUnused
<1>9. PullsCovered'
  BY DEF UploadCommit, PullsCovered, PullHolds
<1> QED
  BY <1>1, <1>2, <1>3, <1>4, <1>5, <1>6, <1>7, <1>8, <1>9

\* A mount links a blob whose row is still there.
LEMMA MountCommitStep ==
    ASSUME IInv, NEW c \in Clients, MountCommit(c)
    PROVE  IInv'
<1> USE DEF IInv
<1>1. TypeOK'
  <2>1. client[c] \in ClientState
    BY DEF TypeOK
  <2>2. [client[c] EXCEPT !.pc = "done"] \in ClientState
    BY <2>1 DEF ClientState
  <2>3. client[c].blob \in Blobs /\ client[c].repo \in Repos /\ client[c].exp \in Nat
    BY <2>1 DEF ClientsSound, ClientState, MountCommit
  <2>4. client' \in [Clients -> ClientState]
    BY <2>2 DEF TypeOK, MountCommit
  <2>5. QED
    BY <2>4, <2>3 DEF TypeOK, MountCommit
<1>2. PushWindow'
  BY DEF MountCommit, PushWindow, RowsHaveFiles, LinksHaveRows
<1>3. LinksHaveRows'
  BY DEF MountCommit, LinksHaveRows
<1>4. ClientsSound'
  BY DEF MountCommit, ClientsSound, InFlight, Deadline
<1>5. ClientsCovered'
  BY DEF MountCommit, ClientsCovered, Covered
<1>6. PromotedHaveFiles'
  BY DEF MountCommit, PromotedHaveFiles
<1>7. DoomedUnused'
  BY DEF MountCommit, DoomedUnused
<1>8. RowsHaveFiles' /\ PullsCovered'
  BY DEF MountCommit, RowsHaveFiles, PullsCovered, PullHolds
<1> QED
  BY <1>1, <1>2, <1>3, <1>4, <1>5, <1>6, <1>7, <1>8

\* A client that leaves gives up its claim.
LEMMA LeaveStep ==
    ASSUME IInv, NEW c \in Clients, Leave(c)
    PROVE  IInv'
<1> USE DEF IInv
<1>1. TypeOK'
  BY DEF TypeOK, ClientState, Leave, tables, Idle
<1>2. PushWindow'
  BY DEF Leave, tables, Idle, PushWindow
<1>3. ClientsSound'
  BY DEF Leave, Idle, ClientsSound, InFlight, Deadline
<1>4. ClientsCovered'
  BY DEF Leave, Idle, ClientsCovered, Covered
<1>5. PromotedHaveFiles'
  BY DEF Leave, Idle, PromotedHaveFiles
<1>6. DoomedUnused'
  BY DEF Leave, tables, Idle, DoomedUnused
<1>7. RowsHaveFiles' /\ LinksHaveRows' /\ PullsCovered'
  BY DEF Leave, tables, RowsHaveFiles, LinksHaveRows, PullsCovered,
         PullHolds
<1> QED
  BY <1>1, <1>2, <1>3, <1>4, <1>5, <1>6, <1>7

\* A pull begins without claims.
LEMMA PullBeginStep ==
    ASSUME IInv, NEW j \in Pulls, NEW S \in SUBSET Blobs, PullBegin(j, S)
    PROVE  IInv'
<1> USE DEF IInv
<1>1. TypeOK'
  BY TimeAssumption DEF TypeOK, PullState, PullBegin, tables
<1>2. PullsCovered'
  BY TimeAssumption DEF TypeOK, PullBegin, PullsCovered, PullHolds
<1>3. DoomedUnused'
  BY DEF PullBegin, tables, DoomedUnused
<1>4. RowsHaveFiles' /\ PushWindow' /\ LinksHaveRows' /\ ClientsSound'
       /\ ClientsCovered' /\ PromotedHaveFiles'
  BY DEF PullBegin, tables, RowsHaveFiles, PushWindow, LinksHaveRows,
         ClientsSound, ClientsCovered, PromotedHaveFiles, InFlight, Deadline,
         Covered
<1> QED
  BY <1>1, <1>2, <1>3, <1>4

\* A pull's marker takes effect before it looks at the blob.
LEMMA PullProtectStep ==
    ASSUME IInv, NEW j \in Pulls, NEW b \in Blobs, PullProtect(j, b)
    PROVE  IInv'
<1> USE DEF IInv
<1>1. TypeOK'
  BY TimeAssumption DEF TypeOK, PullState, PullProtect, tables, Start
<1>2. ClientsCovered'
  BY TimeAssumption DEF TypeOK, ClientState, PullState, PullProtect, Start,
         ClientsCovered, Covered, ClientsSound
<1>3. PullsCovered'
  BY TimeAssumption DEF TypeOK, PullState, PullProtect, Start,
         PullsCovered, PullHolds
<1>4. DoomedUnused'
  BY DEF PullProtect, tables, DoomedUnused
<1>5. RowsHaveFiles' /\ PushWindow' /\ LinksHaveRows' /\ ClientsSound'
       /\ PromotedHaveFiles'
  BY DEF PullProtect, tables, RowsHaveFiles, PushWindow, LinksHaveRows,
         ClientsSound, PromotedHaveFiles, InFlight, Deadline
<1> QED
  BY <1>1, <1>2, <1>3, <1>4, <1>5

\* A pull stores a protected blob under the lock.
LEMMA PullPutStep ==
    ASSUME IInv, NEW j \in Pulls, PullPut(j)
    PROVE  IInv'
<1> USE DEF IInv
<1>1. TypeOK'
  BY DEF TypeOK, PullState, PullPut
<1>2. RowsHaveFiles'
  BY DEF TypeOK, PullState, PullPut
<1>3. PushWindow'
  BY DEF TypeOK, PullState, PullPut, PushWindow
<1>4. PromotedHaveFiles'
  BY DEF PullPut, Promote, PromotedHaveFiles
<1>5. PullsCovered'
  BY DEF TypeOK, PullPut, PullsCovered, PullHolds
<1>6. DoomedUnused'
  BY DEF TypeOK, PullState, PullPut
<1>7. LinksHaveRows' /\ ClientsSound' /\ ClientsCovered'
  BY DEF PullPut, tables, LinksHaveRows, ClientsSound, ClientsCovered,
         InFlight, Deadline, Covered
<1> QED
  BY <1>1, <1>2, <1>3, <1>4, <1>5, <1>6, <1>7

\* A pull commits rows for files that it protected.
LEMMA PullCommitStep ==
    ASSUME IInv, NEW j \in Pulls, NEW r \in Repos, PullCommit(j, r)
    PROVE  IInv'
<1> USE DEF IInv
<1>1. TypeOK'
  BY DEF TypeOK, PullState, PullCommit, NoPull
<1>2. RowsHaveFiles'
  BY DEF PullCommit, RowsHaveFiles
<1>3. PushWindow'
  BY DEF PullCommit, PushWindow
<1>4. LinksHaveRows'
  BY DEF PullCommit, LinksHaveRows
<1>5. PullsCovered'
  BY DEF PullCommit, NoPull, PullsCovered, PullHolds
<1>6. DoomedUnused'
  BY DEF TypeOK, PullState, PullCommit, NoPull, DoomedUnused
<1>7. ClientsSound' /\ ClientsCovered' /\ PromotedHaveFiles'
  BY DEF PullCommit, ClientsSound, ClientsCovered, PromotedHaveFiles,
         InFlight, Deadline, Covered
<1> QED
  BY <1>1, <1>2, <1>3, <1>4, <1>5, <1>6, <1>7

\* A failed pull gives up its claims.
LEMMA PullFailStep ==
    ASSUME IInv, NEW j \in Pulls, PullFail(j)
    PROVE  IInv'
<1> USE DEF IInv
<1>1. TypeOK'
  BY DEF TypeOK, PullState, PullFail, tables, NoPull
<1>2. PullsCovered'
  BY DEF PullFail, NoPull, PullsCovered, PullHolds
<1>3. DoomedUnused'
  BY DEF PullFail, tables, NoPull, DoomedUnused
<1>4. RowsHaveFiles' /\ PushWindow' /\ LinksHaveRows' /\ ClientsSound'
       /\ ClientsCovered' /\ PromotedHaveFiles'
  BY DEF PullFail, tables, RowsHaveFiles, PushWindow, LinksHaveRows,
         ClientsSound, ClientsCovered, PromotedHaveFiles, InFlight, Deadline,
         Covered
<1> QED
  BY <1>1, <1>2, <1>3, <1>4

\* A manifest counts a linked blob.
LEMMA ManifestPutStep ==
    ASSUME IInv, NEW r \in Repos, NEW b \in Blobs, ManifestPut(r, b)
    PROVE  IInv'
<1> USE DEF IInv
<1>1. TypeOK'
  BY DEF TypeOK, ManifestPut
<1>2. RowsHaveFiles' /\ PushWindow' /\ LinksHaveRows' /\ ClientsSound'
       /\ ClientsCovered' /\ PromotedHaveFiles' /\ PullsCovered' /\ DoomedUnused'
  BY DEF ManifestPut, RowsHaveFiles, PushWindow, LinksHaveRows,
         ClientsSound, ClientsCovered, PromotedHaveFiles, PullsCovered,
         DoomedUnused, InFlight, Deadline, Covered, PullHolds
<1> QED
  BY <1>1, <1>2

\* Deleting a manifest lowers a count.
LEMMA ManifestDeleteStep ==
    ASSUME IInv, NEW b \in Blobs, ManifestDelete(b)
    PROVE  IInv'
<1> USE DEF IInv
<1>1. TypeOK'
  BY DEF TypeOK, ManifestDelete
<1>2. RowsHaveFiles' /\ PushWindow' /\ LinksHaveRows' /\ ClientsSound'
       /\ ClientsCovered' /\ PromotedHaveFiles' /\ PullsCovered' /\ DoomedUnused'
  BY DEF ManifestDelete, RowsHaveFiles, PushWindow, LinksHaveRows,
         ClientsSound, ClientsCovered, PromotedHaveFiles, PullsCovered,
         DoomedUnused, InFlight, Deadline, Covered, PullHolds
<1> QED
  BY <1>1, <1>2

\* Unlinking a blob leaves row and file to the collector.
LEMMA BlobDeleteStep ==
    ASSUME IInv, NEW r \in Repos, NEW b \in Blobs, BlobDelete(r, b)
    PROVE  IInv'
<1> USE DEF IInv
<1>1. TypeOK'
  BY DEF TypeOK, BlobDelete
<1>2. LinksHaveRows'
  BY DEF BlobDelete, LinksHaveRows
<1>3. RowsHaveFiles' /\ PushWindow' /\ ClientsSound' /\ ClientsCovered'
       /\ PromotedHaveFiles' /\ PullsCovered' /\ DoomedUnused'
  BY DEF BlobDelete, RowsHaveFiles, PushWindow, ClientsSound,
         ClientsCovered, PromotedHaveFiles, PullsCovered, DoomedUnused, InFlight,
         Deadline, Covered, PullHolds
<1> QED
  BY <1>1, <1>2, <1>3

\* The collector reads the live markers.
LEMMA GcSnapshotStep ==
    ASSUME IInv, NEW g \in Collectors, GcSnapshot(g)
    PROVE  IInv'
<1> USE DEF IInv
<1>1. TypeOK'
  <2>1. gc[g] \in GcState
    BY DEF TypeOK
  <2>2. [gc[g] EXCEPT !.pc = "snapped", !.skip = {b \in Blobs : LiveMarker(b)}] \in GcState
    BY <2>1 DEF GcState
  <2>3. gc' \in [Collectors -> GcState]
    BY <2>2 DEF TypeOK, GcSnapshot
  <2>4. QED
    BY <2>3 DEF TypeOK, GcSnapshot, tables
<1>2. DoomedUnused'
  BY DEF TypeOK, GcSnapshot, tables, DoomedUnused
<1>3. RowsHaveFiles' /\ PushWindow' /\ LinksHaveRows' /\ ClientsSound'
       /\ ClientsCovered' /\ PromotedHaveFiles' /\ PullsCovered'
  BY DEF GcSnapshot, tables, RowsHaveFiles, PushWindow, LinksHaveRows,
         ClientsSound, ClientsCovered, PromotedHaveFiles, PullsCovered, InFlight,
         Deadline, Covered, PullHolds
<1> QED
  BY <1>1, <1>2, <1>3

\* The collector lists candidates; listing decides nothing.
LEMMA GcCandidatesStep ==
    ASSUME IInv, NEW g \in Collectors, GcCandidates(g)
    PROVE  IInv'
<1> USE DEF IInv
<1>1. TypeOK'
  <2>1. gc[g] \in GcState
    BY DEF TypeOK
  <2>2. [gc[g] EXCEPT !.pc = "sweep", !.skip = {},
                       !.todo = {b \in Blobs : Quiescent(b)} \ gc[g].skip] \in GcState
    BY <2>1 DEF GcState
  <2>3. gc' \in [Collectors -> GcState]
    BY <2>2 DEF TypeOK, GcCandidates
  <2>4. QED
    BY <2>3 DEF TypeOK, GcCandidates, tables
<1>2. DoomedUnused'
  BY DEF TypeOK, GcCandidates, tables, DoomedUnused
<1>3. RowsHaveFiles' /\ PushWindow' /\ LinksHaveRows' /\ ClientsSound'
       /\ ClientsCovered' /\ PromotedHaveFiles' /\ PullsCovered'
  BY DEF GcCandidates, tables, RowsHaveFiles, PushWindow, LinksHaveRows,
         ClientsSound, ClientsCovered, PromotedHaveFiles, PullsCovered, InFlight,
         Deadline, Covered, PullHolds
<1> QED
  BY <1>1, <1>2, <1>3

\* A row goes only if nobody can still rely on its file.
LEMMA GcDeleteRowStep ==
    ASSUME IInv, NEW g \in Collectors, NEW b \in Blobs, GcDeleteRow(g, b)
    PROVE  IInv'
<1> USE DEF IInv
<1>1. TypeOK'
  <2>1. gc[g] \in GcState
    BY DEF TypeOK
  <2>2. [gc[g] EXCEPT !.pc = "unlink", !.todo = @ \ {b}, !.cur = b] \in GcState
    BY <2>1 DEF GcState
  <2>3. [gc[g] EXCEPT !.todo = @ \ {b}] \in GcState
    BY <2>1 DEF GcState
  <2>4. gc' \in [Collectors -> GcState]
    BY <2>2, <2>3 DEF TypeOK, GcDeleteRow
  <2>5. QED
    BY <2>4 DEF TypeOK, GcDeleteRow
<1>2. RowsHaveFiles'
  BY DEF GcDeleteRow, RowsHaveFiles
<1>3. PushWindow'
  BY TimeAssumption DEF TypeOK, ClientState, GcDeleteRow, MayDelete,
         Quiescent, LiveMarker, PushWindow, ClientsCovered, Covered
<1>4. LinksHaveRows'
  BY DEF GcDeleteRow, LinksHaveRows
<1>5. DoomedUnused'
  BY NoneAssumption DEF TypeOK, GcState, GcDeleteRow, DoomedUnused
<1>6. ClientsSound' /\ ClientsCovered' /\ PromotedHaveFiles' /\ PullsCovered'
  BY DEF GcDeleteRow, ClientsSound, ClientsCovered, PromotedHaveFiles,
         PullsCovered, InFlight, Deadline, Covered, PullHolds
<1> QED
  BY <1>1, <1>2, <1>3, <1>4, <1>5, <1>6

\* The file of a deleted row goes under the lock taken with the row.
LEMMA GcUnlinkStep ==
    ASSUME IInv, NEW g \in Collectors, GcUnlink(g)
    PROVE  IInv'
<1> USE DEF IInv
<1>1. TypeOK'
  <2>1. gc[g] \in GcState
    BY DEF TypeOK
  <2>2. [gc[g] EXCEPT !.pc = "sweep", !.cur = None] \in GcState
    BY <2>1 DEF GcState
  <2>3. gc' \in [Collectors -> GcState]
    BY <2>2 DEF TypeOK, GcUnlink
  <2>4. QED
    BY <2>3 DEF TypeOK, GcUnlink, tables
<1>2. RowsHaveFiles'
  BY DEF GcUnlink, tables, RowsHaveFiles, DoomedUnused
<1>3. PushWindow'
  BY DEF GcUnlink, tables, PushWindow, DoomedUnused
<1>4. PromotedHaveFiles'
  BY DEF GcUnlink, PromotedHaveFiles, DoomedUnused
<1>5. DoomedUnused'
  BY DEF TypeOK, GcUnlink, tables, DoomedUnused
<1>6. LinksHaveRows' /\ ClientsSound' /\ ClientsCovered' /\ PullsCovered'
  BY DEF GcUnlink, tables, LinksHaveRows, ClientsSound, ClientsCovered,
         PullsCovered, InFlight, Deadline, Covered, PullHolds
<1> QED
  BY <1>1, <1>2, <1>3, <1>4, <1>5, <1>6

\* Only expired markers are pruned.
LEMMA GcPruneStep ==
    ASSUME IInv, NEW g \in Collectors, GcPrune(g)
    PROVE  IInv'
<1> USE DEF IInv
<1>1. TypeOK'
  BY DEF TypeOK, GcState, GcPrune, tables, NoGc
<1>2. ClientsCovered'
  BY TimeAssumption DEF TypeOK, ClientState, GcPrune, ClientsCovered,
         Covered, ClientsSound
<1>3. PullsCovered'
  BY DEF TypeOK, PullState, GcPrune, PullsCovered, PullHolds
<1>4. DoomedUnused'
  BY DEF GcPrune, tables, NoGc, DoomedUnused
<1>5. RowsHaveFiles' /\ PushWindow' /\ LinksHaveRows' /\ ClientsSound'
       /\ PromotedHaveFiles'
  BY DEF GcPrune, tables, RowsHaveFiles, PushWindow, LinksHaveRows,
         ClientsSound, PromotedHaveFiles, InFlight, Deadline
<1> QED
  BY <1>1, <1>2, <1>3, <1>4, <1>5

\* A cancelled collection leaves a file without a row at worst.
LEMMA GcCancelStep ==
    ASSUME IInv, NEW g \in Collectors, GcCancel(g)
    PROVE  IInv'
<1> USE DEF IInv
<1>1. TypeOK'
  BY DEF TypeOK, GcState, GcCancel, tables, NoGc
<1>2. DoomedUnused'
  BY DEF GcCancel, tables, NoGc, DoomedUnused
<1>3. RowsHaveFiles' /\ PushWindow' /\ LinksHaveRows' /\ ClientsSound'
       /\ ClientsCovered' /\ PromotedHaveFiles' /\ PullsCovered'
  BY DEF GcCancel, tables, RowsHaveFiles, PushWindow, LinksHaveRows,
         ClientsSound, ClientsCovered, PromotedHaveFiles, PullsCovered, InFlight,
         Deadline, Covered, PullHolds
<1> QED
  BY <1>1, <1>2, <1>3

\* Time passes no further than the deadlines of running requests allow.
LEMMA TickStep ==
    ASSUME IInv, Tick
    PROVE  IInv'
<1> USE DEF IInv
<1>1. TypeOK'
  BY DEF TypeOK, Tick, tables
<1>2. PushWindow'
  BY TimeAssumption DEF TypeOK, ClientState, Tick, tables, PushWindow
<1>3. ClientsSound'
  BY TimeAssumption DEF TypeOK, ClientState, Tick, ClientsSound, InFlight,
         Deadline
<1>4. ClientsCovered'
  BY TimeAssumption DEF TypeOK, ClientState, Tick, ClientsCovered, Covered
<1>5. PullsCovered'
  BY TimeAssumption DEF TypeOK, PullState, Tick, PullsCovered, PullHolds
<1>6. DoomedUnused'
  BY DEF TypeOK, PullState, Tick, tables, DoomedUnused
<1>7. RowsHaveFiles' /\ LinksHaveRows' /\ PromotedHaveFiles'
  BY DEF Tick, tables, RowsHaveFiles, LinksHaveRows, PromotedHaveFiles
<1> QED
  BY <1>1, <1>2, <1>3, <1>4, <1>5, <1>6, <1>7

\* A crash drops requests and pulls; rows keep their files.
LEMMA CrashStep ==
    ASSUME IInv, Crash
    PROVE  IInv'
<1> USE DEF IInv
<1>1. TypeOK'
  BY DEF TypeOK, ClientState, PullState, GcState, Crash, tables, Idle,
         NoPull, NoGc
<1>2. PushWindow'
  BY DEF Crash, Idle, NoPull, NoGc, PushWindow
<1>3. ClientsSound'
  BY DEF Crash, Idle, NoPull, NoGc, ClientsSound
<1>4. ClientsCovered'
  BY DEF Crash, Idle, NoPull, NoGc, ClientsCovered, Covered
<1>5. PromotedHaveFiles'
  BY DEF Crash, Idle, NoPull, NoGc, PromotedHaveFiles
<1>6. PullsCovered'
  BY DEF Crash, Idle, NoPull, NoGc, PullsCovered, PullHolds
<1>7. DoomedUnused'
  BY DEF Crash, Idle, NoPull, NoGc, DoomedUnused
<1>8. RowsHaveFiles' /\ LinksHaveRows'
  BY DEF Crash, tables, RowsHaveFiles, LinksHaveRows
<1> QED
  BY <1>1, <1>2, <1>3, <1>4, <1>5, <1>6, <1>7, <1>8

-----------------------------------------------------------------------------
\* Initially there are no rows and nothing is in flight.
LEMMA InitIInv == Init => IInv
<1> SUFFICES ASSUME Init PROVE IInv
  OBVIOUS
<1>1. TypeOK
  BY NoneAssumption, TimeAssumption DEF Init, TypeOK, ClientState, PullState,
     GcState, Idle, NoPull, NoGc
<1>2. RowsHaveFiles /\ PushWindow /\ LinksHaveRows
  BY DEF Init, RowsHaveFiles, PushWindow, LinksHaveRows, Idle
<1>3. ClientsSound /\ ClientsCovered /\ PromotedHaveFiles
  BY DEF Init, ClientsSound, ClientsCovered, PromotedHaveFiles, InFlight, Idle
<1>4. PullsCovered /\ DoomedUnused
  BY DEF Init, PullsCovered, DoomedUnused, PullHolds, NoPull, NoGc
<1> QED
  BY <1>1, <1>2, <1>3, <1>4 DEF IInv

\* The inductive invariant is preserved by every step.
LEMMA NextIInv == IInv /\ [Next]_vars => IInv'
<1> SUFFICES ASSUME IInv, [Next]_vars PROVE IInv'
  OBVIOUS
<1>1. ASSUME NEW c \in Clients, ClientStep(c) PROVE IInv'
  BY <1>1, UploadBeginStep, MountBeginStep, StartMarkerStep, UploadPromoteStep,
     UploadCommitStep, MountCommitStep, LeaveStep DEF ClientStep
<1>2. ASSUME NEW j \in Pulls, PullStep(j) PROVE IInv'
  BY <1>2, PullBeginStep, PullProtectStep, PullPutStep, PullCommitStep,
     PullFailStep DEF PullStep
<1>3. ASSUME NEW g \in Collectors, GcStep(g) PROVE IInv'
  BY <1>3, GcSnapshotStep, GcCandidatesStep, GcDeleteRowStep, GcUnlinkStep,
     GcPruneStep, GcCancelStep DEF GcStep
<1>4. CASE TableStep
  BY <1>4, ManifestPutStep, ManifestDeleteStep, BlobDeleteStep DEF TableStep
<1>5. CASE Tick
  BY <1>5, TickStep
<1>6. CASE Crash
  BY <1>6, CrashStep
<1>7. CASE UNCHANGED vars
  BY <1>7 DEF vars, tables, IInv, TypeOK, RowsHaveFiles, PushWindow,
     LinksHaveRows, ClientsSound, ClientsCovered, PromotedHaveFiles,
     PullsCovered, DoomedUnused, InFlight, Deadline, Covered, PullHolds
<1> QED
  BY <1>1, <1>2, <1>3, <1>4, <1>5, <1>6, <1>7 DEF Next

\* The inductive invariant holds in every reachable state.
THEOREM BlobInvariance == Spec => []IInv
BY InitIInv, NextIInv, PTL DEF Spec

\* Tables, files, markers and requests keep their types; in particular no
\* reference count goes below zero.
THEOREM BlobTypes == Spec => []TypeOK
<1>1. IInv => TypeOK
  BY DEF IInv
<1> QED
  BY <1>1, BlobInvariance, PTL

\* Every blob row has its file, whatever uploads, mounts, pulls, collectors
\* and crashes do in between.
THEOREM RowsAlwaysHaveFiles == Spec => []RowsHaveFiles
<1>1. IInv => RowsHaveFiles
  BY DEF IInv
<1> QED
  BY <1>1, BlobInvariance, PTL

\* A client that was answered 201 keeps its blob for as long as its marker
\* promises, so that the manifest it pushes next finds it.
THEOREM FreshBlobsKept == Spec => []PushWindow
<1>1. IInv => PushWindow
  BY DEF IInv
<1> QED
  BY <1>1, BlobInvariance, PTL
=============================================================================
