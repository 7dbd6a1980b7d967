-------------------------- MODULE PathStore_proofs --------------------------
(***************************************************************************)
(* Proofs about module PathStore, for any sets of writers, deleters,       *)
(* contents, holders and lock entries.                                     *)
(*                                                                         *)
(* The lock comes first: LockInv holds with deletes, restores and crashes, *)
(* and gives OneReplace.  The other invariants use it: an upload inside    *)
(* Replace may rely on no other upload touching the path.  What they say   *)
(* is conditional on the history: LossBody on no restore or purge so far,  *)
(* because a restore renames over the path and a purge destroys content,   *)
(* LabelBody on no crash either, AgreeBody on uploads alone.               *)
(***************************************************************************)
EXTENDS PathStore, TLAPS

-----------------------------------------------------------------------------
\* The lock is taken and released by uploads and lost by crashes alone.
LEMMA LockInductive ==
    ASSUME LockInv, [Next]_vars
    PROVE  LockInv'
<1> USE DEF LockInv
<1>1. ASSUME NEW w \in Writers, NEW v \in Versions, Stage(w, v)
      PROVE  LockInv'
  <2>1. [NoUpload EXCEPT !.pc = "staged", !.ver = v] \in Upload
    BY <1>1 DEF Stage, TypeOK, Upload, Content, NoUpload
  <2>2. up' = [up EXCEPT ![w] = [NoUpload EXCEPT !.pc = "staged", !.ver = v]]
    BY <1>1 DEF Stage, TypeOK
  <2>3. up' \in [Writers -> Upload]
    BY <2>1, <2>2 DEF TypeOK
  <2> QED
    BY <1>1, <2>2, <2>3 DEF Stage, NoUpload, disk, locks, trash, TypeOK,
       RefsAgree, OwnersHold, Referring, Holding
<1>2. ASSUME NEW w \in Writers, Abandon(w) PROVE LockInv'
  BY <1>2 DEF Abandon, NoUpload, disk, locks, trash, TypeOK, Upload,
     Content, RefsAgree, OwnersHold, Referring, Holding
<1>3. ASSUME NEW w \in Writers, TakeEntry(w) PROVE LockInv'
  BY <1>3 DEF TakeEntry, TypeOK, Upload, RefsAgree, OwnersHold, Referring,
     Holding
<1>4. ASSUME NEW w \in Writers, LockEntry(w) PROVE LockInv'
  BY <1>4, NoneAssumption DEF LockEntry, disk, trash, TypeOK, Upload,
     RefsAgree, OwnersHold, Referring, Holding
<1>5. ASSUME NEW w \in Writers, ReplaceFails(w) PROVE LockInv'
  BY <1>5 DEF ReplaceFails, disk, locks, trash, TypeOK, Upload, RefsAgree,
     OwnersHold, Referring, Holding
<1>6. ASSUME NEW w \in Writers, Backup(w) PROVE LockInv'
  <2>1. [up[w] EXCEPT !.pc = "backed", !.old = file] \in Upload
    BY <1>6 DEF Backup, TypeOK, Upload, Referring, Holding
  <2>2. up' = [up EXCEPT ![w] = [up[w] EXCEPT !.pc = "backed", !.old = file]]
    BY <1>6 DEF Backup, TypeOK
  <2>3. up' \in [Writers -> Upload]
    BY <2>1, <2>2 DEF TypeOK
  <2> QED
    BY <1>6, <2>2, <2>3 DEF Backup, locks, trash, TypeOK, Content,
       RefsAgree, OwnersHold, Referring, Holding
<1>7. ASSUME NEW w \in Writers, Publish(w) PROVE LockInv'
  BY <1>7 DEF Publish, locks, trash, TypeOK, Upload, RefsAgree, OwnersHold,
     Referring, Holding
<1>8. ASSUME NEW w \in Writers, PublishFails(w) PROVE LockInv'
  <2>1. [up[w] EXCEPT !.pc = "leaving", !.old = None] \in Upload
    BY <1>8 DEF PublishFails, PutBack, TypeOK, Upload, Content, Referring,
       Holding
  <2>2. up' = [up EXCEPT ![w] = [up[w] EXCEPT !.pc = "leaving", !.old = None]]
    BY <1>8 DEF PublishFails, PutBack, TypeOK
  <2>3. up' \in [Writers -> Upload]
    BY <2>1, <2>2 DEF TypeOK
  <2> QED
    BY <1>8, <2>2, <2>3 DEF PublishFails, PutBack, locks, trash, TypeOK,
       Upload, RefsAgree, OwnersHold, Holding
<1>9. ASSUME NEW w \in Writers, Commit(w) PROVE LockInv'
  BY <1>9 DEF Commit, disk, locks, trash, TypeOK, Upload, RefsAgree,
     OwnersHold, Referring, Holding
<1>10. ASSUME NEW w \in Writers, CommitFails(w) PROVE LockInv'
  BY <1>10 DEF CommitFails, locks, trash, TypeOK, Upload, Content,
     RefsAgree, OwnersHold, Referring, Holding
<1>11. ASSUME NEW w \in Writers, RollBack(w) PROVE LockInv'
  <2>1. [up[w] EXCEPT !.pc = "leaving", !.old = None] \in Upload
    BY <1>11 DEF RollBack, PutBack, TypeOK, Upload, Content, Referring,
       Holding
  <2>2. up' = [up EXCEPT ![w] = [up[w] EXCEPT !.pc = "leaving", !.old = None]]
    BY <1>11 DEF RollBack, PutBack, TypeOK
  <2>3. up' \in [Writers -> Upload]
    BY <2>1, <2>2 DEF TypeOK
  <2> QED
    BY <1>11, <2>2, <2>3 DEF RollBack, PutBack, locks, trash, TypeOK,
       Upload, RefsAgree, OwnersHold, Holding
<1>12. ASSUME NEW w \in Writers, DropBackup(w) PROVE LockInv'
  <2>1. [up[w] EXCEPT !.pc = "leaving", !.old = None] \in Upload
    BY <1>12 DEF DropBackup, TypeOK, Upload, Content, Referring, Holding
  <2>2. up' = [up EXCEPT ![w] = [up[w] EXCEPT !.pc = "leaving", !.old = None]]
    BY <1>12 DEF DropBackup, TypeOK
  <2>3. up' \in [Writers -> Upload]
    BY <2>1, <2>2 DEF TypeOK
  <2> QED
    BY <1>12, <2>2, <2>3 DEF DropBackup, disk, locks, trash, TypeOK,
       RefsAgree, OwnersHold, Referring, Holding
<1>13. ASSUME NEW w \in Writers, Unlock(w) PROVE LockInv'
  <2>1. [up[w] EXCEPT !.pc = "unlocked"] \in Upload
    BY <1>13 DEF Unlock, TypeOK, Upload, Referring
  <2>2. up' = [up EXCEPT ![w] = [up[w] EXCEPT !.pc = "unlocked"]]
    BY <1>13 DEF Unlock, TypeOK
  <2>3. up' \in [Writers -> Upload] /\ up[w].ref \in Entries
    BY <1>13, <2>1, <2>2 DEF Unlock, TypeOK, Upload
  <2>4. TypeOK'
    BY <1>13, <2>2, <2>3 DEF Unlock, disk, trash, TypeOK, Referring, Holding
  <2>5. RefsAgree'
    BY <1>13, <2>2 DEF Unlock, TypeOK, RefsAgree, Referring, Holding
  <2>6. OwnersHold'
    BY <1>13, <2>2, <2>3 DEF Unlock, TypeOK, RefsAgree, OwnersHold, Holding
  <2> QED
    BY <2>4, <2>5, <2>6
<1>14. ASSUME NEW w \in Writers, DropEntry(w) PROVE LockInv'
  BY <1>14 DEF DropEntry, NoUpload, disk, trash, TypeOK, Upload, Content,
     RefsAgree, OwnersHold, Referring, Holding
<1>15. ASSUME NEW d \in Deleters, DeleteStat(d) PROVE LockInv'
  BY <1>15 DEF DeleteStat, disk, locks, trash, TypeOK, Deletion, RefsAgree,
     OwnersHold
<1>16. ASSUME NEW d \in Deleters, DeleteCommit(d) PROVE LockInv'
  BY <1>16 DEF DeleteCommit, disk, locks, trash, TypeOK, Deletion, Content,
     RefsAgree, OwnersHold
<1>17. ASSUME NEW d \in Deleters, DeleteCommitFails(d) PROVE LockInv'
  BY <1>17 DEF DeleteCommitFails, NoDeletion, disk, locks, trash, TypeOK,
     Deletion, RefsAgree, OwnersHold
<1>18. ASSUME NEW d \in Deleters, MoveRefused(d) PROVE LockInv'
  BY <1>18 DEF MoveRefused, NoDeletion, disk, locks, trash, TypeOK,
     Deletion, RefsAgree, OwnersHold
<1>19. ASSUME NEW d \in Deleters, MoveRename(d) PROVE LockInv'
  BY <1>19 DEF MoveRename, NoDeletion, locks, TypeOK, Deletion, Content,
     RefsAgree, OwnersHold
<1>20. ASSUME NEW d \in Deleters, MoveFails(d) PROVE LockInv'
  BY <1>20 DEF MoveFails, NoDeletion, disk, locks, TypeOK, Deletion,
     RefsAgree, OwnersHold
<1>21. ASSUME NEW d \in Deleters, NEW h \in Holders, MoveBegin(d, h)
      PROVE  LockInv'
  BY <1>21 DEF MoveBegin, NoDeletion, disk, locks, TypeOK, Deletion,
     RefsAgree, OwnersHold
<1>22. ASSUME NEW h \in Holders, RestoreCheck(h) PROVE LockInv'
  BY <1>22 DEF RestoreCheck, disk, locks, trash, TypeOK, RefsAgree,
     OwnersHold
<1>23. ASSUME NEW h \in Holders, RestoreEmpty(h) PROVE LockInv'
  BY <1>23 DEF RestoreEmpty, disk, locks, TypeOK, RefsAgree, OwnersHold
<1>24. ASSUME NEW h \in Holders, Purge(h) PROVE LockInv'
  BY <1>24 DEF Purge, RemoveHolder, disk, locks, TypeOK, Content, RefsAgree,
     OwnersHold
<1>25. ASSUME NEW h \in Holders, SweepTrash(h) PROVE LockInv'
  BY <1>25 DEF SweepTrash, RemoveHolder, disk, locks, TypeOK, Content,
     RefsAgree, OwnersHold
<1>26. CASE RestoreRename
  BY <1>26 DEF RestoreRename, locks, TypeOK, Content, RefsAgree, OwnersHold
<1>27. CASE Crash
  <2>1. NoUpload \in Upload /\ NoDeletion \in Deletion
    BY DEF NoUpload, Upload, Content, NoDeletion, Deletion
  <2>2. up' \in [Writers -> Upload] /\ del' \in [Deleters -> Deletion]
    BY <1>27, <2>1 DEF Crash
  <2>3. strays' \subseteq Versions
    BY <1>27 DEF Crash, TypeOK, Upload, Content
  <2>4. \A w \in Writers : up'[w].ref = None /\ up'[w].pc = "idle"
    BY <1>27 DEF Crash, NoUpload
  <2>5. past' \subseteq {"delete", "admin", "crash"}
    BY <1>27 DEF Crash, TypeOK
  <2> QED
    BY <1>27, <2>2, <2>3, <2>4, <2>5 DEF Crash, trash, TypeOK, RefsAgree,
       OwnersHold, Referring, Holding
<1>28. CASE UNCHANGED vars
  BY <1>28 DEF vars, disk, locks, trash, TypeOK, RefsAgree, OwnersHold
<1> QED
  BY <1>1, <1>2, <1>3, <1>4, <1>5, <1>6, <1>7, <1>8, <1>9, <1>10, <1>11,
     <1>12, <1>13, <1>14, <1>15, <1>16, <1>17, <1>18, <1>19, <1>20, <1>21,
     <1>22, <1>23, <1>24, <1>25, <1>26, <1>27, <1>28 DEF Next, Uploading,
     Deleting, Administration

\* The lock excludes: both of two holders would own the entry in the map.
LEMMA Excludes == LockInv => OneReplace
BY DEF LockInv, TypeOK, RefsAgree, OwnersHold, OneReplace, Referring


-----------------------------------------------------------------------------
\* History only grows.
LEMMA PastGrows == [Next]_vars => past \subseteq past'
<1>1. ASSUME NEW w \in Writers, NEW v \in Versions, Stage(w, v)
      PROVE  past' = past
  BY <1>1 DEF Stage
<1>2. ASSUME NEW d \in Deleters, Deleting(d) PROVE past \subseteq past'
  BY <1>2 DEF Deleting, DeleteStat, DeleteCommit, DeleteCommitFails,
     MoveBegin, MoveRefused, MoveRename, MoveFails
<1>3. CASE Administration
  BY <1>3 DEF Administration, RestoreRename, RestoreCheck, RestoreEmpty,
     Purge, SweepTrash, RemoveHolder
<1>4. ASSUME NEW w \in Writers, Uploading(w) PROVE past' = past
  BY <1>4 DEF Uploading, Abandon, TakeEntry, LockEntry, ReplaceFails,
     Backup, Publish, PublishFails, PutBack, Commit, CommitFails, RollBack,
     DropBackup, Unlock, DropEntry
<1> QED
  BY <1>1, <1>2, <1>3, <1>4 DEF Next, Crash, vars

-----------------------------------------------------------------------------
\* Without an administrator, holders are filled and taken back by the delete
\* that made them.
LEMMA HoldersInductive ==
    ASSUME "admin" \notin past', TypeOK,
           HoldersAgree, [Next]_vars
    PROVE  HoldersAgree'
<1> USE DEF HoldersAgree
<1>1. ASSUME NEW w \in Writers, NEW v \in Versions, Stage(w, v)
      PROVE  HoldersAgree'
  BY <1>1 DEF Stage, trash
<1>2. ASSUME NEW w \in Writers, Abandon(w) PROVE HoldersAgree'
  BY <1>2 DEF Abandon, trash
<1>3. ASSUME NEW w \in Writers, TakeEntry(w) PROVE HoldersAgree'
  BY <1>3 DEF TakeEntry, trash
<1>4. ASSUME NEW w \in Writers, LockEntry(w) PROVE HoldersAgree'
  BY <1>4 DEF LockEntry, trash
<1>5. ASSUME NEW w \in Writers, ReplaceFails(w) PROVE HoldersAgree'
  BY <1>5 DEF ReplaceFails, trash
<1>6. ASSUME NEW w \in Writers, Backup(w) PROVE HoldersAgree'
  BY <1>6 DEF Backup, trash
<1>7. ASSUME NEW w \in Writers, Publish(w) PROVE HoldersAgree'
  BY <1>7 DEF Publish, trash
<1>8. ASSUME NEW w \in Writers, PublishFails(w) PROVE HoldersAgree'
  BY <1>8 DEF PublishFails, PutBack, trash
<1>9. ASSUME NEW w \in Writers, Commit(w) PROVE HoldersAgree'
  BY <1>9 DEF Commit, trash
<1>10. ASSUME NEW w \in Writers, CommitFails(w) PROVE HoldersAgree'
  BY <1>10 DEF CommitFails, trash
<1>11. ASSUME NEW w \in Writers, RollBack(w) PROVE HoldersAgree'
  BY <1>11 DEF RollBack, PutBack, trash
<1>12. ASSUME NEW w \in Writers, DropBackup(w) PROVE HoldersAgree'
  BY <1>12 DEF DropBackup, trash
<1>13. ASSUME NEW w \in Writers, Unlock(w) PROVE HoldersAgree'
  BY <1>13 DEF Unlock, trash
<1>14. ASSUME NEW w \in Writers, DropEntry(w) PROVE HoldersAgree'
  BY <1>14 DEF DropEntry, trash
<1>15. ASSUME NEW d \in Deleters, DeleteStat(d) PROVE HoldersAgree'
  BY <1>15 DEF DeleteStat, trash, TypeOK
<1>16. ASSUME NEW d \in Deleters, DeleteCommit(d) PROVE HoldersAgree'
  BY <1>16 DEF DeleteCommit, trash, TypeOK
<1>17. ASSUME NEW d \in Deleters, DeleteCommitFails(d) PROVE HoldersAgree'
  BY <1>17 DEF DeleteCommitFails, NoDeletion, trash, TypeOK
<1>18. ASSUME NEW d \in Deleters, MoveRefused(d) PROVE HoldersAgree'
  BY <1>18 DEF MoveRefused, NoDeletion, trash, TypeOK
<1>19. ASSUME NEW d \in Deleters, MoveRename(d) PROVE HoldersAgree'
  BY <1>19 DEF MoveRename, NoDeletion, TypeOK
<1>20. ASSUME NEW d \in Deleters, MoveFails(d) PROVE HoldersAgree'
  BY <1>20 DEF MoveFails, NoDeletion, TypeOK
<1>21. ASSUME NEW d \in Deleters, NEW h \in Holders, MoveBegin(d, h)
      PROVE  HoldersAgree'
  BY <1>21, NoneAssumption DEF MoveBegin, NoDeletion, TypeOK, Deletion,
     Content
<1>22. CASE Administration
  BY <1>22 DEF Administration, RestoreCheck, RestoreRename, RestoreEmpty,
     Purge, SweepTrash, RemoveHolder
<1>23. CASE Crash
  BY <1>23 DEF Crash, NoDeletion, trash
<1>24. CASE UNCHANGED vars
  BY <1>24 DEF vars, trash, TypeOK
<1> QED
  BY <1>1, <1>2, <1>3, <1>4, <1>5, <1>6, <1>7, <1>8, <1>9, <1>10, <1>11,
     <1>12, <1>13, <1>14, <1>15, <1>16, <1>17, <1>18, <1>19, <1>20, <1>21,
     <1>22, <1>23, <1>24 DEF Next, Uploading, Deleting

-----------------------------------------------------------------------------
\* Every step keeps the content of the row on disk.
LEMMA LossInductive ==
    ASSUME "admin" \notin past, "admin" \notin past', LossInv, [Next]_vars
    PROVE  (PathWhileReplacing /\ NothingCommittedIsLost)'
<1> USE DEF LossBody, PathWhileReplacing, NothingCommittedIsLost, Elsewhere
<1>o. TypeOK /\ OneReplace /\ LossBody
  BY Excludes DEF LossInv, LockInv
<1>1. ASSUME NEW w \in Writers, NEW v \in Versions, Stage(w, v)
      PROVE  (PathWhileReplacing /\ NothingCommittedIsLost)'
  BY <1>1, <1>o DEF Stage, NoUpload, disk, trash, TypeOK
<1>2. ASSUME NEW w \in Writers, Abandon(w)
      PROVE  (PathWhileReplacing /\ NothingCommittedIsLost)'
  BY <1>2, <1>o DEF Abandon, NoUpload, disk, trash, TypeOK, Holding,
     Referring
<1>3. ASSUME NEW w \in Writers, TakeEntry(w)
      PROVE  (PathWhileReplacing /\ NothingCommittedIsLost)'
  BY <1>3, <1>o DEF TakeEntry, TypeOK, Upload, Holding, Referring
<1>4. ASSUME NEW w \in Writers, LockEntry(w)
      PROVE  (PathWhileReplacing /\ NothingCommittedIsLost)'
  BY <1>4, <1>o DEF LockEntry, disk, trash, TypeOK, Referring
<1>5. ASSUME NEW w \in Writers, ReplaceFails(w)
      PROVE  (PathWhileReplacing /\ NothingCommittedIsLost)'
  BY <1>5, <1>o DEF ReplaceFails, disk, trash, TypeOK, Holding, Referring
<1>6. ASSUME NEW w \in Writers, Backup(w)
      PROVE  (PathWhileReplacing /\ NothingCommittedIsLost)'
  BY <1>6, <1>o DEF Backup, trash, TypeOK, OneReplace, Holding, Referring
<1>7. ASSUME NEW w \in Writers, Publish(w)
      PROVE  (PathWhileReplacing /\ NothingCommittedIsLost)'
  BY <1>7, <1>o DEF Publish, trash, TypeOK, OneReplace, Holding, Referring
<1>8. ASSUME NEW w \in Writers, PublishFails(w)
      PROVE  (PathWhileReplacing /\ NothingCommittedIsLost)'
  BY <1>8, <1>o DEF PublishFails, PutBack, trash, TypeOK, OneReplace,
     Holding, Referring
<1>9. ASSUME NEW w \in Writers, Commit(w)
      PROVE  (PathWhileReplacing /\ NothingCommittedIsLost)'
  BY <1>9, <1>o DEF Commit, disk, trash, TypeOK, OneReplace, Holding,
     Referring
<1>10. ASSUME NEW w \in Writers, CommitFails(w)
      PROVE  (PathWhileReplacing /\ NothingCommittedIsLost)'
  BY <1>10, <1>o DEF CommitFails, trash, TypeOK, OneReplace, Holding,
     Referring
<1>11. ASSUME NEW w \in Writers, RollBack(w)
      PROVE  (PathWhileReplacing /\ NothingCommittedIsLost)'
  BY <1>11, <1>o, NoneAssumption DEF RollBack, PutBack, trash, TypeOK,
     OneReplace, Holding, Referring
<1>12. ASSUME NEW w \in Writers, DropBackup(w)
      PROVE  (PathWhileReplacing /\ NothingCommittedIsLost)'
  BY <1>12, <1>o DEF DropBackup, disk, trash, TypeOK, Holding, Referring
<1>13. ASSUME NEW w \in Writers, Unlock(w)
      PROVE  (PathWhileReplacing /\ NothingCommittedIsLost)'
  BY <1>13, <1>o DEF Unlock, disk, trash, TypeOK, Holding, Referring
<1>14. ASSUME NEW w \in Writers, DropEntry(w)
      PROVE  (PathWhileReplacing /\ NothingCommittedIsLost)'
  BY <1>14, <1>o DEF DropEntry, NoUpload, disk, trash, TypeOK, Holding,
     Referring
<1>15. ASSUME NEW d \in Deleters, DeleteStat(d)
      PROVE  (PathWhileReplacing /\ NothingCommittedIsLost)'
  BY <1>15, <1>o DEF DeleteStat, disk, trash, TypeOK
<1>16. ASSUME NEW d \in Deleters, DeleteCommit(d)
      PROVE  (PathWhileReplacing /\ NothingCommittedIsLost)'
  BY <1>16, <1>o DEF DeleteCommit, disk, trash, TypeOK
<1>17. ASSUME NEW d \in Deleters, DeleteCommitFails(d)
      PROVE  (PathWhileReplacing /\ NothingCommittedIsLost)'
  BY <1>17, <1>o DEF DeleteCommitFails, disk, trash, TypeOK
<1>18. ASSUME NEW d \in Deleters, MoveRefused(d)
      PROVE  (PathWhileReplacing /\ NothingCommittedIsLost)'
  BY <1>18, <1>o DEF MoveRefused, disk, trash, TypeOK
<1>19. ASSUME NEW d \in Deleters, MoveRename(d)
      PROVE  (PathWhileReplacing /\ NothingCommittedIsLost)'
  BY <1>19, <1>o DEF MoveRename, TypeOK, HoldersAgree, Deletion
<1>20. ASSUME NEW d \in Deleters, MoveFails(d)
      PROVE  (PathWhileReplacing /\ NothingCommittedIsLost)'
  BY <1>20, <1>o DEF MoveFails, disk, TypeOK
<1>21. ASSUME NEW d \in Deleters, NEW h \in Holders, MoveBegin(d, h)
      PROVE  (PathWhileReplacing /\ NothingCommittedIsLost)'
  BY <1>21, <1>o DEF MoveBegin, disk, TypeOK
<1>22. CASE Administration
  BY <1>22, <1>o DEF Administration, RestoreCheck, RestoreRename,
     RestoreEmpty, Purge, SweepTrash, RemoveHolder
<1>23. CASE Crash
  BY <1>23, <1>o DEF Crash, NoUpload, trash, TypeOK, Holding, Referring
<1>24. CASE UNCHANGED vars
  BY <1>24, <1>o DEF vars, disk, trash, TypeOK
<1> QED
  BY <1>1, <1>2, <1>3, <1>4, <1>5, <1>6, <1>7, <1>8, <1>9, <1>10, <1>11,
     <1>12, <1>13, <1>14, <1>15, <1>16, <1>17, <1>18, <1>19, <1>20, <1>21,
     <1>22, <1>23, <1>24 DEF Next, Uploading, Deleting

-----------------------------------------------------------------------------
\* Every step keeps the row describing its file.
LEMMA LabelInductive ==
    ASSUME past \subseteq {"delete"}, past' \subseteq {"delete"},
           LabelInv, [Next]_vars
    PROVE  LabelBody'
<1> USE DEF LabelBody, BackupDescribed, NeverMislabelled, Describes
<1>o. TypeOK /\ OneReplace /\ LabelBody
  BY Excludes DEF LabelInv, LockInv
<1>1. ASSUME NEW w \in Writers, NEW v \in Versions, Stage(w, v)
      PROVE  LabelBody'
  BY <1>1, <1>o DEF Stage, disk, TypeOK
<1>2. ASSUME NEW w \in Writers, Abandon(w) PROVE LabelBody'
  BY <1>2, <1>o DEF Abandon, NoUpload, disk, TypeOK
<1>3. ASSUME NEW w \in Writers, TakeEntry(w) PROVE LabelBody'
  BY <1>3, <1>o DEF TakeEntry, disk, TypeOK
<1>4. ASSUME NEW w \in Writers, LockEntry(w) PROVE LabelBody'
  BY <1>4, <1>o DEF LockEntry, disk, TypeOK
<1>5. ASSUME NEW w \in Writers, ReplaceFails(w) PROVE LabelBody'
  BY <1>5, <1>o DEF ReplaceFails, disk, TypeOK
<1>6. ASSUME NEW w \in Writers, Backup(w) PROVE LabelBody'
  BY <1>6, <1>o DEF Backup, TypeOK, OneReplace, Holding
<1>7. ASSUME NEW w \in Writers, Publish(w) PROVE LabelBody'
  BY <1>7, <1>o DEF Publish, TypeOK, OneReplace, Holding
<1>8. ASSUME NEW w \in Writers, PublishFails(w) PROVE LabelBody'
  BY <1>8, <1>o DEF PublishFails, PutBack, TypeOK, OneReplace, Holding
<1>9. ASSUME NEW w \in Writers, Commit(w) PROVE LabelBody'
  BY <1>9, <1>o DEF Commit, disk, TypeOK, OneReplace, Holding
<1>10. ASSUME NEW w \in Writers, CommitFails(w) PROVE LabelBody'
  BY <1>10, <1>o DEF CommitFails, TypeOK
<1>11. ASSUME NEW w \in Writers, RollBack(w) PROVE LabelBody'
  BY <1>11, <1>o DEF RollBack, PutBack, TypeOK, OneReplace, Holding
<1>12. ASSUME NEW w \in Writers, DropBackup(w) PROVE LabelBody'
  BY <1>12, <1>o DEF DropBackup, disk, TypeOK
<1>13. ASSUME NEW w \in Writers, Unlock(w) PROVE LabelBody'
  BY <1>13, <1>o DEF Unlock, disk, TypeOK
<1>14. ASSUME NEW w \in Writers, DropEntry(w) PROVE LabelBody'
  BY <1>14, <1>o DEF DropEntry, NoUpload, disk, TypeOK
<1>15. ASSUME NEW d \in Deleters, DeleteStat(d) PROVE LabelBody'
  BY <1>15, <1>o DEF DeleteStat, disk, TypeOK
<1>16. ASSUME NEW d \in Deleters, DeleteCommit(d) PROVE LabelBody'
  BY <1>16, <1>o DEF DeleteCommit, disk, TypeOK
<1>17. ASSUME NEW d \in Deleters, DeleteCommitFails(d) PROVE LabelBody'
  BY <1>17, <1>o DEF DeleteCommitFails, disk, TypeOK
<1>18. ASSUME NEW d \in Deleters, MoveRefused(d) PROVE LabelBody'
  BY <1>18, <1>o DEF MoveRefused, disk, TypeOK
<1>19. ASSUME NEW d \in Deleters, MoveRename(d) PROVE LabelBody'
  BY <1>19, <1>o DEF MoveRename, TypeOK
<1>20. ASSUME NEW d \in Deleters, MoveFails(d) PROVE LabelBody'
  BY <1>20, <1>o DEF MoveFails, disk, TypeOK
<1>21. ASSUME NEW d \in Deleters, NEW h \in Holders, MoveBegin(d, h)
      PROVE  LabelBody'
  BY <1>21, <1>o DEF MoveBegin, disk, TypeOK
<1>22. CASE Administration
  BY <1>22, <1>o DEF Administration, RestoreCheck, RestoreRename,
     RestoreEmpty, Purge, SweepTrash, RemoveHolder
<1>23. CASE Crash
  BY <1>23, <1>o DEF Crash, TypeOK
<1>24. CASE UNCHANGED vars
  BY <1>24, <1>o DEF vars, disk, TypeOK
<1> QED
  BY <1>1, <1>2, <1>3, <1>4, <1>5, <1>6, <1>7, <1>8, <1>9, <1>10, <1>11,
     <1>12, <1>13, <1>14, <1>15, <1>16, <1>17, <1>18, <1>19, <1>20, <1>21,
     <1>22, <1>23, <1>24 DEF Next, Uploading, Deleting

-----------------------------------------------------------------------------
\* While the process stays up, a sidecar without content is in the hands of a
\* delete.
LEMMA RestorableInductive ==
    ASSUME "crash" \notin past, "crash" \notin past', TypeOK,
           EntriesAreRestorable, [Next]_vars
    PROVE  EntriesAreRestorable'
<1> USE DEF EntriesAreRestorable
<1>1. ASSUME NEW w \in Writers, NEW v \in Versions, Stage(w, v)
      PROVE  EntriesAreRestorable'
  BY <1>1 DEF Stage, trash
<1>2. ASSUME NEW w \in Writers, Abandon(w) PROVE EntriesAreRestorable'
  BY <1>2 DEF Abandon, trash
<1>3. ASSUME NEW w \in Writers, TakeEntry(w) PROVE EntriesAreRestorable'
  BY <1>3 DEF TakeEntry, trash
<1>4. ASSUME NEW w \in Writers, LockEntry(w) PROVE EntriesAreRestorable'
  BY <1>4 DEF LockEntry, trash
<1>5. ASSUME NEW w \in Writers, ReplaceFails(w) PROVE EntriesAreRestorable'
  BY <1>5 DEF ReplaceFails, trash
<1>6. ASSUME NEW w \in Writers, Backup(w) PROVE EntriesAreRestorable'
  BY <1>6 DEF Backup, trash
<1>7. ASSUME NEW w \in Writers, Publish(w) PROVE EntriesAreRestorable'
  BY <1>7 DEF Publish, trash
<1>8. ASSUME NEW w \in Writers, PublishFails(w) PROVE EntriesAreRestorable'
  BY <1>8 DEF PublishFails, PutBack, trash
<1>9. ASSUME NEW w \in Writers, Commit(w) PROVE EntriesAreRestorable'
  BY <1>9 DEF Commit, trash
<1>10. ASSUME NEW w \in Writers, CommitFails(w) PROVE EntriesAreRestorable'
  BY <1>10 DEF CommitFails, trash
<1>11. ASSUME NEW w \in Writers, RollBack(w) PROVE EntriesAreRestorable'
  BY <1>11 DEF RollBack, PutBack, trash
<1>12. ASSUME NEW w \in Writers, DropBackup(w) PROVE EntriesAreRestorable'
  BY <1>12 DEF DropBackup, trash
<1>13. ASSUME NEW w \in Writers, Unlock(w) PROVE EntriesAreRestorable'
  BY <1>13 DEF Unlock, trash
<1>14. ASSUME NEW w \in Writers, DropEntry(w) PROVE EntriesAreRestorable'
  BY <1>14 DEF DropEntry, trash
<1>15. ASSUME NEW d \in Deleters, DeleteStat(d) PROVE EntriesAreRestorable'
  BY <1>15 DEF DeleteStat, trash, TypeOK
<1>16. ASSUME NEW d \in Deleters, DeleteCommit(d) PROVE EntriesAreRestorable'
  BY <1>16 DEF DeleteCommit, trash, TypeOK
<1>17. ASSUME NEW d \in Deleters, DeleteCommitFails(d)
      PROVE  EntriesAreRestorable'
  BY <1>17 DEF DeleteCommitFails, trash, TypeOK
<1>18. ASSUME NEW d \in Deleters, MoveRefused(d) PROVE EntriesAreRestorable'
  BY <1>18 DEF MoveRefused, trash, TypeOK
<1>19. ASSUME NEW d \in Deleters, MoveRename(d) PROVE EntriesAreRestorable'
  BY <1>19 DEF MoveRename, TypeOK
<1>20. ASSUME NEW d \in Deleters, MoveFails(d) PROVE EntriesAreRestorable'
  BY <1>20 DEF MoveFails, TypeOK
<1>21. ASSUME NEW d \in Deleters, NEW h \in Holders, MoveBegin(d, h)
      PROVE  EntriesAreRestorable'
  BY <1>21 DEF MoveBegin, TypeOK, Deletion
<1>22. ASSUME NEW h \in Holders, RestoreCheck(h) PROVE EntriesAreRestorable'
  BY <1>22 DEF RestoreCheck, trash, TypeOK
<1>23. ASSUME NEW h \in Holders, RestoreEmpty(h) PROVE EntriesAreRestorable'
  BY <1>23 DEF RestoreEmpty, TypeOK
<1>24. ASSUME NEW h \in Holders, Purge(h) PROVE EntriesAreRestorable'
  BY <1>24 DEF Purge, RemoveHolder, TypeOK
<1>25. ASSUME NEW h \in Holders, SweepTrash(h) PROVE EntriesAreRestorable'
  BY <1>25 DEF SweepTrash, RemoveHolder, TypeOK
<1>26. CASE RestoreRename
  BY <1>26 DEF RestoreRename, TypeOK
<1>27. CASE Crash
  BY <1>27 DEF Crash
<1>28. CASE UNCHANGED vars
  BY <1>28 DEF vars, trash, TypeOK
<1> QED
  BY <1>1, <1>2, <1>3, <1>4, <1>5, <1>6, <1>7, <1>8, <1>9, <1>10, <1>11,
     <1>12, <1>13, <1>14, <1>15, <1>16, <1>17, <1>18, <1>19, <1>20, <1>21,
     <1>22, <1>23, <1>24, <1>25, <1>26, <1>27, <1>28 DEF Next, Uploading,
     Deleting, Administration

-----------------------------------------------------------------------------
\* Every step of an upload keeps backup, file and row in agreement.
LEMMA AgreeInductive ==
    ASSUME past = {}, past' = {}, AgreeInv, [Next]_vars
    PROVE  AgreeBody'
<1> USE DEF AgreeBody, BackupIsRow, UploadsAgree
<1>o. TypeOK /\ OneReplace /\ AgreeBody
  BY Excludes DEF AgreeInv, LockInv
<1>1. ASSUME NEW w \in Writers, NEW v \in Versions, Stage(w, v)
      PROVE  AgreeBody'
  BY <1>1, <1>o DEF Stage, disk, TypeOK
<1>2. ASSUME NEW w \in Writers, Abandon(w) PROVE AgreeBody'
  BY <1>2, <1>o DEF Abandon, NoUpload, disk, TypeOK
<1>3. ASSUME NEW w \in Writers, TakeEntry(w) PROVE AgreeBody'
  BY <1>3, <1>o DEF TakeEntry, disk, TypeOK
<1>4. ASSUME NEW w \in Writers, LockEntry(w) PROVE AgreeBody'
  BY <1>4, <1>o DEF LockEntry, disk, TypeOK
<1>5. ASSUME NEW w \in Writers, ReplaceFails(w) PROVE AgreeBody'
  BY <1>5, <1>o DEF ReplaceFails, disk, TypeOK
<1>6. ASSUME NEW w \in Writers, Backup(w) PROVE AgreeBody'
  BY <1>6, <1>o DEF Backup, TypeOK, OneReplace, Holding
<1>7. ASSUME NEW w \in Writers, Publish(w) PROVE AgreeBody'
  BY <1>7, <1>o DEF Publish, TypeOK, OneReplace, Holding
<1>8. ASSUME NEW w \in Writers, PublishFails(w) PROVE AgreeBody'
  BY <1>8, <1>o DEF PublishFails, PutBack, TypeOK, OneReplace, Holding
<1>9. ASSUME NEW w \in Writers, Commit(w) PROVE AgreeBody'
  BY <1>9, <1>o DEF Commit, disk, TypeOK, OneReplace, Holding
<1>10. ASSUME NEW w \in Writers, CommitFails(w) PROVE AgreeBody'
  BY <1>10, <1>o DEF CommitFails, TypeOK, OneReplace, Holding
<1>11. ASSUME NEW w \in Writers, RollBack(w) PROVE AgreeBody'
  BY <1>11, <1>o DEF RollBack, PutBack, TypeOK, OneReplace, Holding
<1>12. ASSUME NEW w \in Writers, DropBackup(w) PROVE AgreeBody'
  BY <1>12, <1>o DEF DropBackup, disk, TypeOK
<1>13. ASSUME NEW w \in Writers, Unlock(w) PROVE AgreeBody'
  BY <1>13, <1>o DEF Unlock, disk, TypeOK
<1>14. ASSUME NEW w \in Writers, DropEntry(w) PROVE AgreeBody'
  BY <1>14, <1>o DEF DropEntry, NoUpload, disk, TypeOK
<1>15. ASSUME NEW d \in Deleters, DeleteStat(d) PROVE AgreeBody'
  BY <1>15, <1>o DEF DeleteStat, TypeOK
<1>16. ASSUME NEW d \in Deleters, DeleteCommit(d) PROVE AgreeBody'
  BY <1>16, <1>o DEF DeleteCommit, TypeOK
<1>17. ASSUME NEW d \in Deleters, DeleteCommitFails(d) PROVE AgreeBody'
  BY <1>17, <1>o DEF DeleteCommitFails, TypeOK
<1>18. ASSUME NEW d \in Deleters, MoveRefused(d) PROVE AgreeBody'
  BY <1>18, <1>o DEF MoveRefused, TypeOK
<1>19. ASSUME NEW d \in Deleters, MoveRename(d) PROVE AgreeBody'
  BY <1>19, <1>o DEF MoveRename, TypeOK
<1>20. ASSUME NEW d \in Deleters, MoveFails(d) PROVE AgreeBody'
  BY <1>20, <1>o DEF MoveFails, TypeOK
<1>21. ASSUME NEW d \in Deleters, NEW h \in Holders, MoveBegin(d, h)
      PROVE  AgreeBody'
  BY <1>21, <1>o DEF MoveBegin, TypeOK
<1>22. CASE Administration
  BY <1>22, <1>o DEF Administration, RestoreCheck, RestoreRename,
     RestoreEmpty, Purge, SweepTrash, RemoveHolder
<1>23. CASE Crash
  BY <1>23, <1>o DEF Crash, TypeOK
<1>24. CASE UNCHANGED vars
  BY <1>24, <1>o DEF vars, disk, TypeOK
<1> QED
  BY <1>1, <1>2, <1>3, <1>4, <1>5, <1>6, <1>7, <1>8, <1>9, <1>10, <1>11,
     <1>12, <1>13, <1>14, <1>15, <1>16, <1>17, <1>18, <1>19, <1>20, <1>21,
     <1>22, <1>23, <1>24 DEF Next, Uploading, Deleting

-----------------------------------------------------------------------------
\* Nobody refers to a lock entry initially.
LEMMA InitLock == Init => LockInv
BY NoneAssumption DEF Init, LockInv, TypeOK, RefsAgree, OwnersHold, NoUpload,
   NoDeletion, Upload, Deletion, Content, Referring, Holding

\* Initially file and row agree and the trash is empty.
LEMMA InitLoss == Init => LossInv
BY InitLock DEF Init, LossInv, LossBody, HoldersAgree, PathWhileReplacing,
   NothingCommittedIsLost, Elsewhere, NoUpload, NoDeletion, Referring, Holding

\* Initially file and row agree.
LEMMA InitLabel == Init => LabelInv
BY InitLock DEF Init, LabelInv, LabelBody, BackupDescribed, NeverMislabelled,
   Describes, NoUpload

\* Initially file and row agree and no delete runs.
LEMMA InitAgree == Init => AgreeInv
BY InitLock DEF Init, AgreeInv, AgreeBody, BackupIsRow, UploadsAgree, NoUpload,
   NoDeletion

\* The lock's invariant holds in every reachable state.
THEOREM LockInvariance == Spec => []LockInv
<1>1. LockInv /\ [Next]_vars => LockInv'
  BY LockInductive
<1> QED
  BY <1>1, InitLock, PTL DEF Spec

\* Rows, files, lock entries and trash holders keep their types, and a
\* writer refers to a lock entry exactly from lockKey to its release.
THEOREM UploadTypes == Spec => []TypeOK
<1>1. LockInv => TypeOK
  BY DEF LockInv
<1> QED
  BY <1>1, LockInvariance, PTL

\* The reference-counted lock of Replace is mutual exclusion.
THEOREM ReplacesExclude == Spec => []OneReplace
BY Excludes, LockInvariance, PTL

\* Without restores and purges, the content of a committed upload stays on
\* disk, whatever uploads, deletes and crashes interleave.
THEOREM CommittedContentSurvives == Spec => []NothingCommittedIsLost
<1>1. LossInv /\ [Next]_vars => LossInv'
  <2> SUFFICES ASSUME LossInv, [Next]_vars PROVE LossInv'
    OBVIOUS
  <2>1. LockInv'
    BY LockInductive DEF LossInv
  <2>2. ASSUME "admin" \notin past' PROVE LossBody'
    <3>1. "admin" \notin past
      BY <2>2, PastGrows
    <3>2. HoldersAgree'
      BY <2>2, <3>1, HoldersInductive DEF LossInv, LossBody, LockInv
    <3> QED
      BY <2>2, <3>1, <3>2, LossInductive DEF LossBody
  <2> QED
    BY <2>1, <2>2 DEF LossInv
<1>2. LossInv => NothingCommittedIsLost
  BY DEF LossInv, LossBody, NothingCommittedIsLost
<1> QED
  BY <1>1, <1>2, InitLoss, PTL DEF Spec

\* Until a crash or the administrator intervenes, a row never describes other
\* bytes than those at its path.
THEOREM RowsDescribeTheirFile == Spec => []NeverMislabelled
<1>1. LabelInv /\ [Next]_vars => LabelInv'
  <2> SUFFICES ASSUME LabelInv, [Next]_vars PROVE LabelInv'
    OBVIOUS
  <2>1. past' \subseteq {"delete"} => past \subseteq {"delete"}
    BY PastGrows
  <2> QED
    BY <2>1, LockInductive, LabelInductive DEF LabelInv
<1>2. LabelInv => NeverMislabelled
  BY DEF LabelInv, LabelBody, NeverMislabelled
<1> QED
  BY <1>1, <1>2, InitLabel, PTL DEF Spec

\* As long as there were only uploads, file and row agree whenever nobody is
\* replacing.
THEOREM UploadsKeepAgreement == Spec => []UploadsAgree
<1>1. AgreeInv /\ [Next]_vars => AgreeInv'
  <2> SUFFICES ASSUME AgreeInv, [Next]_vars PROVE AgreeInv'
    OBVIOUS
  <2>1. past' = {} => past = {}
    BY PastGrows
  <2> QED
    BY <2>1, LockInductive, AgreeInductive DEF AgreeInv
<1>2. AgreeInv => UploadsAgree
  BY DEF AgreeInv, AgreeBody, UploadsAgree
<1> QED
  BY <1>1, <1>2, InitAgree, PTL DEF Spec

\* Until a crash, trash entries that promise content have it, or get it from
\* the delete that made them.
THEOREM TrashStaysRestorable == Spec => []EntriesAreRestorable
<1>1. Init => EntriesAreRestorable
  BY DEF Init, EntriesAreRestorable
<1>2. TypeOK /\ EntriesAreRestorable /\ [Next]_vars => EntriesAreRestorable'
  <2> SUFFICES ASSUME TypeOK, EntriesAreRestorable, [Next]_vars,
                      "crash" \notin past'
               PROVE  EntriesAreRestorable'
    BY DEF EntriesAreRestorable
  <2>1. "crash" \notin past
    BY PastGrows
  <2> QED
    BY <2>1, RestorableInductive
<1> QED
  BY <1>1, <1>2, UploadTypes, PTL DEF Spec
=============================================================================
