----------------------------- MODULE PathStore ------------------------------
(***************************************************************************)
(* One key of the path-addressed store and the database row that describes *)
(* it, as the RAW protocol uses them: uploads through PathStore.Replace    *)
(* (internal/storage/pathstore.go, internal/protocol/raw/put.go), deletes  *)
(* that remove the row and then move the file to the trash                 *)
(* (internal/protocol/raw/delete.go, internal/storage/trash.go), and the   *)
(* administrator's restore and purge of trash entries                      *)
(* (internal/api/admin_trash.go).                                          *)
(*                                                                         *)
(* Only uploads take the lock of the key.  The lock is an entry of a map   *)
(* that the first request creates and the last one deletes; a writer holds *)
(* a reference to the entry it found.  The count of an entry's references  *)
(* is the number of writers that hold one.                                 *)
(*                                                                         *)
(* Contents are model values.  The row is the content whose digest it      *)
(* records.  File operations are single steps: rename and unlink do not    *)
(* fail half way, and undoing a failed upload does not itself fail.        *)
(***************************************************************************)
EXTENDS Naturals

CONSTANTS Writers, Deleters,
          Versions,     \* contents that can be uploaded
          Holders,      \* trash directories, a bound on how many exist at a time
          Entries,      \* keyLock structures
          None

ASSUME NoneAssumption ==
    None \notin Versions \cup Holders \cup Entries \cup Writers

VARIABLES
    file,       \* what is at the key's path
    row,        \* the raw_files row
    entry,      \* the entry for this key in the map of locks
    owner,      \* who has locked an entry
    up,         \* uploads: where they are, their content, backup and entry
    del,        \* deletes: where they are and their trash holder
    bin,        \* trash holders: sidecar only, metadata-only or with content
    kept,       \* the content of a holder
    restore,    \* the holder a restore has found and checked
    strays,     \* backups that a crash left behind
    past        \* history: what has happened here besides uploads

disk == <<file, strays>>
locks == <<entry, owner>>
trash == <<bin, kept>>
vars == <<disk, row, locks, up, del, trash, restore, past>>

Holding == {"locked", "backed", "published", "rollback", "committed", "leaving"}
Referring == {"waiting", "unlocked"} \cup Holding

Content == Versions \cup {None}
Upload == [pc : {"idle", "staged"} \cup Referring, ver : Content, old : Content,
           ref : Entries \cup {None}]
Deletion == [pc : {"idle", "seen", "unlisted", "moving"}, holder : Holders \cup {None}]

NoUpload == [pc |-> "idle", ver |-> None, old |-> None, ref |-> None]
NoDeletion == [pc |-> "idle", holder |-> None]

TypeOK ==
    /\ file \in Content /\ row \in Content /\ strays \subseteq Versions
    /\ entry \in Entries \cup {None}
    /\ owner \in [Entries -> Writers \cup {None}]
    /\ up \in [Writers -> Upload]
    /\ \A w \in Writers : up[w].ref # None <=> up[w].pc \in Referring
    /\ del \in [Deleters -> Deletion]
    /\ bin \in [Holders -> {"free", "pending", "empty", "full"}]
    /\ kept \in [Holders -> Content]
    /\ restore \in Holders \cup {None}
    /\ past \subseteq {"delete", "admin", "crash"}

(* An empty key, or one uploaded before.                                   *)
Init ==
    /\ file \in Content /\ row = file /\ strays = {}
    /\ entry = None /\ owner = [e \in Entries |-> None]
    /\ up = [w \in Writers |-> NoUpload]
    /\ del = [d \in Deleters |-> NoDeletion]
    /\ bin = [h \in Holders |-> "free"] /\ kept = [h \in Holders |-> None]
    /\ restore = None /\ past = {}

-----------------------------------------------------------------------------
(* Replace.                                                                *)

(* The body is copied to a temporary file and synced.                      *)
Stage(w, v) ==
    /\ up[w].pc = "idle"
    /\ up' = [up EXCEPT ![w] = [NoUpload EXCEPT !.pc = "staged", !.ver = v]]
    /\ UNCHANGED <<disk, row, locks, del, trash, restore, past>>

(* Cancelled before the lock: the temporary file is removed.               *)
Abandon(w) ==
    /\ up[w].pc = "staged"
    /\ up' = [up EXCEPT ![w] = NoUpload]
    /\ UNCHANGED <<disk, row, locks, del, trash, restore, past>>

(* lockKey, under locksMu: the entry in the map, or a new one.             *)
TakeEntry(w) ==
    /\ up[w].pc = "staged"
    /\ entry' \in IF entry # None THEN {entry}
                  ELSE {e \in Entries : \A x \in Writers : up[x].ref # e}
    /\ up' = [up EXCEPT ![w].pc = "waiting", ![w].ref = entry']
    /\ UNCHANGED <<disk, row, owner, del, trash, restore, past>>

LockEntry(w) ==
    /\ up[w].pc = "waiting" /\ owner[up[w].ref] = None
    /\ owner' = [owner EXCEPT ![up[w].ref] = w]
    /\ up' = [up EXCEPT ![w].pc = "locked"]
    /\ UNCHANGED <<disk, row, entry, del, trash, restore, past>>

(* The request was cancelled, or the current file could not be backed up.  *)
ReplaceFails(w) ==
    /\ up[w].pc = "locked"
    /\ up' = [up EXCEPT ![w].pc = "leaving"]
    /\ UNCHANGED <<disk, row, locks, del, trash, restore, past>>

\* Mutant: no backup of the current file.
BackupNothing(w) ==
    /\ up[w].pc = "locked"
    /\ up' = [up EXCEPT ![w].pc = "backed"]
    /\ file' = None
    /\ UNCHANGED <<row, strays, locks, del, trash, restore, past>>

(* What is at the path is renamed to a backup beside it.                   *)
Backup(w) ==
    /\ up[w].pc = "locked"
    /\ up' = [up EXCEPT ![w].pc = "backed", ![w].old = file]
    /\ file' = None
    /\ UNCHANGED <<row, strays, locks, del, trash, restore, past>>

Publish(w) ==
    /\ up[w].pc = "backed"
    /\ file' = up[w].ver
    /\ up' = [up EXCEPT ![w].pc = "published"]
    /\ UNCHANGED <<row, strays, locks, del, trash, restore, past>>

PutBack(w) ==
    /\ file' = IF up[w].old # None THEN up[w].old ELSE file
    /\ up' = [up EXCEPT ![w].pc = "leaving", ![w].old = None]
    /\ UNCHANGED <<row, strays, locks, del, trash, restore, past>>

PublishFails(w) == up[w].pc = "backed" /\ PutBack(w)

(* The commit callback: the transaction that upserts the row.              *)
Commit(w) ==
    /\ up[w].pc = "published"
    /\ row' = up[w].ver
    /\ up' = [up EXCEPT ![w].pc = "committed"]
    /\ UNCHANGED <<disk, locks, del, trash, restore, past>>

\* Mutant: the new file stays when its commit fails and there was none before.
CommitFailsKeeps(w) ==
    /\ up[w].pc = "published"
    /\ file' = IF up[w].old = None THEN file ELSE None
    /\ up' = [up EXCEPT ![w].pc = "rollback"]
    /\ UNCHANGED <<row, strays, locks, del, trash, restore, past>>

\* Mutant: a failed commit is tried again, with the lock held.
CommitFailsRetries(w) ==
    /\ up[w].pc = "published"
    /\ file' = None
    /\ up' = [up EXCEPT ![w].pc = "backed"]
    /\ UNCHANGED <<row, strays, locks, del, trash, restore, past>>

CommitFails(w) ==
    /\ up[w].pc = "published"
    /\ file' = None
    /\ up' = [up EXCEPT ![w].pc = "rollback"]
    /\ UNCHANGED <<row, strays, locks, del, trash, restore, past>>

RollBack(w) == up[w].pc = "rollback" /\ PutBack(w)

(* After the commit the backup goes; failing to remove it is only logged.  *)
DropBackup(w) ==
    /\ up[w].pc = "committed"
    /\ up' = [up EXCEPT ![w].pc = "leaving", ![w].old = None]
    /\ UNCHANGED <<disk, row, locks, del, trash, restore, past>>

Unlock(w) ==
    /\ up[w].pc = "leaving"
    /\ owner' = [owner EXCEPT ![up[w].ref] = None]
    /\ up' = [up EXCEPT ![w].pc = "unlocked"]
    /\ UNCHANGED <<disk, row, entry, del, trash, restore, past>>

(* The last reference deletes the entry from the map.                      *)
DropEntry(w) ==
    /\ up[w].pc = "unlocked"
    /\ up' = [up EXCEPT ![w] = NoUpload]
    /\ entry' = IF \E x \in Writers \ {w} : up[x].ref = up[w].ref
                THEN entry ELSE None
    /\ UNCHANGED <<disk, row, owner, del, trash, restore, past>>

-----------------------------------------------------------------------------
(* DELETE of the key.  No lock is taken.                                   *)

(* A stat of the path; without a file the answer is 404.                   *)
DeleteStat(d) ==
    /\ del[d].pc = "idle" /\ file # None
    /\ del' = [del EXCEPT ![d].pc = "seen"]
    /\ past' = past \cup {"delete"}
    /\ UNCHANGED <<disk, row, locks, up, trash, restore>>

DeleteCommit(d) ==
    /\ del[d].pc = "seen"
    /\ row' = None
    /\ del' = [del EXCEPT ![d].pc = "unlisted"]
    /\ UNCHANGED <<disk, locks, up, trash, restore, past>>

DeleteCommitFails(d) ==
    /\ del[d].pc = "seen"
    /\ del' = [del EXCEPT ![d] = NoDeletion]
    /\ UNCHANGED <<disk, row, locks, up, trash, restore, past>>

(* Trash.Move up to the rename: a new holder and its sidecar.  A file that *)
(* has gone by now gets a metadata-only entry and the request fails.       *)
MoveBegin(d, h) ==
    /\ del[d].pc = "unlisted"
    /\ bin[h] = "free" /\ restore # h /\ \A x \in Deleters : del[x].holder # h
    /\ IF file = None
       THEN /\ bin' = [bin EXCEPT ![h] = "empty"]
            /\ del' = [del EXCEPT ![d] = NoDeletion]
       ELSE /\ bin' = [bin EXCEPT ![h] = "pending"]
            /\ del' = [del EXCEPT ![d].pc = "moving", ![d].holder = h]
    /\ UNCHANGED <<disk, row, locks, up, kept, restore, past>>

(* No holder or no sidecar could be made: the file stays without a row.    *)
MoveRefused(d) ==
    /\ del[d].pc = "unlisted"
    /\ del' = [del EXCEPT ![d] = NoDeletion]
    /\ UNCHANGED <<disk, row, locks, up, trash, restore, past>>

(* Whatever is at the path by now is renamed into the holder.              *)
MoveRename(d) ==
    LET h == del[d].holder IN
    /\ del[d].pc = "moving" /\ bin[h] = "pending" /\ file # None
    /\ bin' = [bin EXCEPT ![h] = "full"]
    /\ kept' = [kept EXCEPT ![h] = file]
    /\ file' = None
    /\ del' = [del EXCEPT ![d] = NoDeletion]
    /\ UNCHANGED <<row, strays, locks, up, restore, past>>

(* The file or the holder has gone: the holder is taken back.              *)
MoveFails(d) ==
    LET h == del[d].holder IN
    /\ del[d].pc = "moving" /\ (bin[h] # "pending" \/ file = None)
    /\ bin' = [bin EXCEPT ![h] = "free"]
    /\ del' = [del EXCEPT ![d] = NoDeletion]
    /\ UNCHANGED <<disk, row, locks, up, kept, restore, past>>

-----------------------------------------------------------------------------
(* The administrator's trash.                                              *)

(* The entry is listed with its sidecar; an existing file is a 409.        *)
RestoreCheck(h) ==
    /\ restore = None
    /\ bin[h] \in {"pending", "full"} /\ file = None
    /\ restore' = h
    /\ past' = past \cup {"admin"}
    /\ UNCHANGED <<disk, row, locks, up, del, trash>>

(* Trash.Restore: the rename replaces what is at the path by now.  The row *)
(* of a RAW file is not written again.                                     *)
RestoreRename ==
    /\ restore # None
    /\ IF bin[restore] = "full"
       THEN /\ file' = kept[restore]
            /\ bin' = [bin EXCEPT ![restore] = "free"]
            /\ kept' = [kept EXCEPT ![restore] = None]
       ELSE UNCHANGED <<file, bin, kept>>
    /\ restore' = None
    /\ past' = past \cup {"admin"}
    /\ UNCHANGED <<row, strays, locks, up, del>>

(* Restoring a metadata-only entry removes its holder.                     *)
RestoreEmpty(h) ==
    /\ bin[h] = "empty"
    /\ bin' = [bin EXCEPT ![h] = "free"]
    /\ past' = past \cup {"admin"}
    /\ UNCHANGED <<disk, row, locks, up, del, kept, restore>>

RemoveHolder(h) ==
    /\ bin' = [bin EXCEPT ![h] = "free"]
    /\ kept' = [kept EXCEPT ![h] = None]
    /\ past' = past \cup {"admin"}
    /\ UNCHANGED <<disk, row, locks, up, del, restore>>

Purge(h) == bin[h] # "free" /\ RemoveHolder(h)

(* The retention sweep of the garbage collector removes holders that are a *)
(* week old: no request is still filling them.                             *)
SweepTrash(h) == bin[h] \in {"empty", "full"} /\ RemoveHolder(h)

-----------------------------------------------------------------------------
(* The process dies: locks and requests are gone, files and rows stay, and *)
(* the backups that were held become strays.                               *)
Crash ==
    /\ strays' = strays \cup ({up[w].old : w \in Writers} \ {None})
    /\ entry' = None /\ owner' = [e \in Entries |-> None]
    /\ up' = [w \in Writers |-> NoUpload]
    /\ del' = [d \in Deleters |-> NoDeletion]
    /\ restore' = None
    /\ past' = past \cup {"crash"}
    /\ UNCHANGED <<file, row, trash>>

-----------------------------------------------------------------------------
Uploading(w) ==
    \/ Abandon(w) \/ TakeEntry(w) \/ LockEntry(w) \/ ReplaceFails(w)
    \/ Backup(w) \/ Publish(w) \/ PublishFails(w)
    \/ Commit(w) \/ CommitFails(w) \/ RollBack(w) \/ DropBackup(w)
    \/ Unlock(w) \/ DropEntry(w)

Deleting(d) ==
    \/ DeleteStat(d) \/ DeleteCommit(d) \/ DeleteCommitFails(d)
    \/ \E h \in Holders : MoveBegin(d, h)
    \/ MoveRefused(d) \/ MoveRename(d) \/ MoveFails(d)

Administration ==
    \/ RestoreRename
    \/ \E h \in Holders :
          RestoreCheck(h) \/ RestoreEmpty(h) \/ Purge(h) \/ SweepTrash(h)

Next ==
    \/ \E w \in Writers : Uploading(w) \/ \E v \in Versions : Stage(w, v)
    \/ \E d \in Deleters : Deleting(d)
    \/ Administration
    \/ Crash

Spec == Init /\ [][Next]_vars

(* A handler runs on once its request is in; a mutex of Go hands itself to *)
(* a writer that has waited for a millisecond, so no waiter starves.       *)
LiveSpec ==
    /\ Spec
    /\ \A w \in Writers : WF_vars(Uploading(w)) /\ SF_vars(LockEntry(w))

-----------------------------------------------------------------------------
(* Properties.                                                             *)

(* At most one Replace of the key is between its lock and its unlock, even *)
(* though the mutex is found through a map whose entry comes and goes.     *)
OneReplace ==
    \A w, x \in Writers : up[w].pc \in Holding /\ up[x].pc \in Holding => w = x

(* As long as there were only uploads: whenever none is inside Replace,    *)
(* the file is the one the row describes, however many raced, failed and   *)
(* rolled back (or there is neither).                                      *)
UploadsAgree ==
    /\ past = {}
    /\ \A w \in Writers : up[w].pc \notin {"backed", "published", "rollback"}
    => file = row

(* Until a crash or the administrator intervenes, the served bytes are     *)
(* never other bytes than the row's digest names, outside the moment       *)
(* between publishing and committing: deletes may leave a row without a    *)
(* file or a file without a row, never the wrong file.                     *)
NeverMislabelled ==
    /\ past \subseteq {"delete"}
    /\ \A w \in Writers : up[w].pc # "published"
    => row = None \/ file = None \/ file = row

(* As long as nothing is purged or restored, the content of a committed    *)
(* upload is on disk: at its path, as the backup of the upload replacing   *)
(* it, in the trash, or as the backup a crash left behind.                 *)
NothingCommittedIsLost ==
    "admin" \notin past /\ row # None =>
        \/ row = file \/ row \in strays
        \/ \E w \in Writers : up[w].old = row
        \/ \E h \in Holders : kept[h] = row

(* A trash entry that is not marked metadata-only holds the content it     *)
(* would restore, or the delete that made it is still moving it there: the *)
(* sidecar written before the rename never outlives a rename that failed   *)
(* because an upload, a restore or a purge got in between.  (A crash       *)
(* between sidecar and rename does leave one.)                             *)
EntriesAreRestorable ==
    "crash" \notin past => \A h \in Holders :
        /\ bin[h] = "full" => kept[h] # None
        /\ bin[h] = "pending" =>
              \E d \in Deleters : del[d].pc = "moving" /\ del[d].holder = h

(* An upload that has its body returns: the lock of the key is never left  *)
(* behind.                                                                 *)
UploadsEnd == \A w \in Writers : up[w].pc = "staged" ~> up[w].pc = "idle"

(* What delete.go says of its order: row first, file second, so that a     *)
(* failure leaves at most a file without a row.                            *)
RowsKeepTheirFile ==
    /\ \A w \in Writers : up[w].pc \notin Holding
    /\ \A d \in Deleters : del[d].pc = "idle"
    => (row # None => file # None)

-----------------------------------------------------------------------------
(* Inductive invariants.                                                   *)

(* Whoever refers to an entry refers to the one in the map, and whoever is *)
(* inside Replace owns its mutex.                                          *)
RefsAgree == \A w \in Writers : up[w].pc \in Referring => up[w].ref = entry
OwnersHold == \A w \in Writers : up[w].pc \in Holding => owner[up[w].ref] = w

LockInv == TypeOK /\ RefsAgree /\ OwnersHold

(* Content in the trash belongs to full holders, and a delete that is      *)
(* moving a file has a holder of its own with a sidecar only.              *)
HoldersAgree ==
    /\ restore = None
    /\ \A h \in Holders : bin[h] # "full" => kept[h] = None
    /\ \A d \in Deleters : del[d].pc = "moving" =>
          del[d].holder # None /\ bin[del[d].holder] = "pending"
    /\ \A d, c \in Deleters :
          del[d].pc = "moving" /\ del[c].pc = "moving" /\ del[d].holder = del[c].holder
              => d = c

Elsewhere(x) == x \in strays \/ \E h \in Holders : kept[h] = x

(* While one upload is inside Replace: the path is empty when its file is  *)
(* away, its own content is at the path or in the trash once published,    *)
(* and what the row describes does not depend on the published file until  *)
(* it is committed.                                                        *)
PathWhileReplacing ==
    \A w \in Writers :
        /\ up[w].pc \in Referring \cup {"staged"} => up[w].ver \in Versions
        /\ up[w].pc \in {"backed", "rollback"} => file = None
        /\ up[w].old # None => up[w].pc \in {"backed", "published", "rollback", "committed"}
        /\ up[w].pc = "published" =>
              /\ up[w].ver = file \/ Elsewhere(up[w].ver)
              /\ row # None => row = up[w].old \/ Elsewhere(row)
        /\ up[w].pc = "committed" => row = None \/ row = file \/ Elsewhere(row)

LossBody == HoldersAgree /\ PathWhileReplacing /\ NothingCommittedIsLost
LossInv == LockInv /\ ("admin" \notin past => LossBody)

Describes(x) == row = None \/ x = None \/ x = row

(* Between backup and commit the row describes the backup.                 *)
BackupDescribed ==
    \A w \in Writers :
        /\ up[w].pc \in {"backed", "rollback"} => file = None /\ Describes(up[w].old)
        /\ up[w].pc = "published" =>
              (file = None \/ file = up[w].ver) /\ Describes(up[w].old)

LabelBody == restore = None /\ BackupDescribed /\ NeverMislabelled
LabelInv == LockInv /\ (past \subseteq {"delete"} => LabelBody)

(* With uploads alone, the backup is what the row describes.               *)
BackupIsRow ==
    \A w \in Writers :
        /\ up[w].pc \in {"backed", "rollback"} => file = None /\ up[w].old = row
        /\ up[w].pc = "published" => file = up[w].ver /\ up[w].old = row

AgreeBody ==
    /\ restore = None /\ BackupIsRow /\ UploadsAgree
    /\ \A d \in Deleters : del[d].pc = "idle"
AgreeInv == LockInv /\ (past = {} => AgreeBody)
=============================================================================
