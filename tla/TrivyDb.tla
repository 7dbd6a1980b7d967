------------------------------ MODULE TrivyDb ------------------------------
(***************************************************************************)
(* The scanner's vulnerability database: a directory seeded from the image *)
(* at the first boot and rotated by uploads and by an online pull, each    *)
(* through storage.SwapDir under one mutex, and the rows of trivy_db_meta  *)
(* that the dashboard reads.  A database is a number; 0 is no directory    *)
(* and 1 the database baked into the image.                                *)
(***************************************************************************)
EXTENDS Integers, Sequences, SequencesExt

CONSTANTS Admins, None,
          MaxRotations   \* bound on databases uploaded or pulled

Puller == "pull"   \* the background goroutine of a pull
Rotators == Admins \cup {Puller}
Databases == 0 .. MaxRotations + 1

VARIABLES baked,    \* the database of the image, 0 outside Docker
          db,       \* the installed directory
          meta,     \* rows of trivy_db_meta
          up,       \* where the process is in its boot
          rot, rotateMu,
          pull,     \* state of pullJob
          staged,   \* databases staged so far
          had,      \* a database has been installed
          dpast     \* what has gone wrong

Still == [pc |-> "idle", v |-> 0, backup |-> 0]

DTypeOK ==
    /\ baked \in 0 .. 1 /\ db \in Databases /\ meta \in Seq(Databases)
    /\ up \in {"seed", "record", "serving"}
    /\ rot \in [Rotators -> [pc : {"idle", "download", "staged", "in", "meta"},
                             v : Databases, backup : Databases]]
    /\ rotateMu \in Rotators \cup {None}
    /\ pull \in {"idle", "running", "success", "failure"}
    /\ staged \in 0 .. MaxRotations /\ had \in {"no", "yes"}
    /\ dpast \subseteq {"lost", "cut", "unrecorded", "crossed"}

DInit ==
    /\ baked \in 0 .. 1 /\ db = 0 /\ meta = <<>>
    /\ up = "seed"
    /\ rot = [x \in Rotators |-> Still] /\ rotateMu = None
    /\ pull = "idle" /\ staged = 0 /\ had = "no" /\ dpast = {}

-----------------------------------------------------------------------------
(* Boot: the baked database goes in where there is none, and a database    *)
(* without a row gets one, unless it has no metadata.json.  The baked one  *)
(* may replace a lost one that the rows still name.                        *)
SeedTrivyDB ==
    /\ up = "seed"
    /\ up' = "record"
    /\ IF db = 0 /\ baked # 0
       THEN /\ db' = baked /\ had' = "yes"
            /\ dpast' = (dpast \ {"lost"}) \cup (IF meta = <<>> THEN {} ELSE {"cut"})
       ELSE UNCHANGED <<db, had, dpast>>
    /\ UNCHANGED <<baked, meta, rot, rotateMu, pull, staged>>

RecordBakedTrivyDBMeta ==
    /\ up = "record"
    /\ up' = "serving"
    /\ \/ meta = <<>> /\ db # 0 /\ meta' = <<db>>
       \/ UNCHANGED meta
    /\ UNCHANGED <<baked, db, rot, rotateMu, pull, staged, had, dpast>>

-----------------------------------------------------------------------------
Go(x, pc) == rot' = [rot EXCEPT ![x] = [Still EXCEPT !.pc = pc]]
Stop(x) == rot' = [rot EXCEPT ![x] = Still]

(* The archive is unpacked and checked; one that is refused changes        *)
(* nothing.                                                                *)
Stage(x) ==
    /\ staged < MaxRotations
    /\ staged' = staged + 1
    /\ rot' = [rot EXCEPT ![x] = [pc |-> "staged", v |-> staged + 2, backup |-> 0]]

handleTrivyDBUpload(c) ==
    /\ up = "serving" /\ rot[c] = Still
    /\ Stage(c)
    /\ UNCHANGED <<baked, db, meta, up, rotateMu, pull, had, dpast>>

(* One pull at a time.                                                     *)
handleTrivyDBPull ==
    /\ up = "serving" /\ pull # "running"
    /\ pull' = "running"
    /\ Go(Puller, "download")
    /\ UNCHANGED <<baked, db, meta, up, rotateMu, staged, had, dpast>>

runTrivyDBPull ==
    /\ rot[Puller].pc = "download"
    /\ \/ Stage(Puller) /\ UNCHANGED pull
       \/ Stop(Puller) /\ pull' = "failure" /\ UNCHANGED staged
    /\ UNCHANGED <<baked, db, meta, up, rotateMu, had, dpast>>

finish(x, result) == pull' = IF x = Puller THEN result ELSE pull

\* Mutant: the row is written before the swap.
InsertMetaFirst(x) ==
    /\ rot[x].pc = "staged" /\ rotateMu = None
    /\ rotateMu' = x
    /\ meta' = Append(meta, rot[x].v)
    /\ rot' = [rot EXCEPT ![x] = [pc |-> "in", v |-> rot[x].v, backup |-> db]]
    /\ db' = 0
    /\ UNCHANGED <<baked, up, pull, staged, had, dpast>>

(* SwapDir, under the mutex: the directory is renamed aside, the new one   *)
(* in.                                                                     *)
SwapAside(x) ==
    /\ rot[x].pc = "staged" /\ rotateMu = None
    /\ rotateMu' = x
    /\ rot' = [rot EXCEPT ![x] = [pc |-> "in", v |-> rot[x].v, backup |-> db]]
    /\ db' = 0
    /\ UNCHANGED <<baked, meta, up, pull, staged, had, dpast>>

SwapIn(x) ==
    /\ rot[x].pc = "in"
    /\ db' = rot[x].v /\ had' = "yes" /\ dpast' = dpast \ {"lost"}
    /\ rotateMu' = None
    /\ rot' = [rot EXCEPT ![x] = [pc |-> "meta", v |-> rot[x].v, backup |-> 0]]
    /\ UNCHANGED <<baked, meta, up, pull, staged>>

\* Mutant: the old directory is not put back.
SwapFailsUnrestored(x) ==
    /\ rot[x].pc = "in"
    /\ rotateMu' = None
    /\ Stop(x) /\ finish(x, "failure")
    /\ UNCHANGED <<baked, db, meta, up, staged, had, dpast>>

(* The second rename fails: the old directory comes back, if that works.   *)
SwapFails(x) ==
    /\ rot[x].pc = "in"
    /\ \/ db' = rot[x].backup /\ UNCHANGED dpast
       \/ dpast' = dpast \cup {"lost"} /\ UNCHANGED db
    /\ rotateMu' = None
    /\ Stop(x) /\ finish(x, "failure")
    /\ UNCHANGED <<baked, meta, up, staged, had>>

(* The database installed, or about to come back should the swap fail.     *)
Current == IF rotateMu = None THEN db ELSE rot[rotateMu].backup

(* The row, outside the mutex; an error is ignored.  Rows of two rotations *)
(* may come in the other order than their swaps.  A row of the installed   *)
(* database puts the dashboard right again.                                *)
InsertMeta(x) ==
    /\ rot[x].pc = "meta"
    /\ \/ /\ meta' = Append(meta, rot[x].v)
          /\ dpast' = IF rot[x].v = Current THEN dpast \cap {"lost"}
                      ELSE IF Contains(meta, Current) THEN dpast \cup {"crossed"} ELSE dpast
       \/ meta' = meta /\ dpast' = dpast \cup {"unrecorded"}
    /\ Stop(x) /\ finish(x, "success")
    /\ UNCHANGED <<baked, db, up, rotateMu, staged, had>>

RecordUpload(c) == InsertMeta(c)
RecordPull == InsertMeta(Puller)

(* The process dies and boots again; between the renames the directory is  *)
(* under its backup's name, where nothing looks for it.                    *)
Reboot ==
    /\ up' = "seed"
    /\ rot' = [x \in Rotators |-> Still] /\ rotateMu' = None
    /\ pull' = "idle"
    /\ dpast' = dpast \cup (IF \E x \in Rotators : rot[x].pc = "in" THEN {"lost", "cut"} ELSE {})
                     \cup (IF \E x \in Rotators : rot[x].pc = "meta" THEN {"cut"} ELSE {})
    /\ UNCHANGED <<baked, db, meta, staged, had>>

DNext ==
    \/ SeedTrivyDB \/ RecordBakedTrivyDBMeta
    \/ \E c \in Admins : handleTrivyDBUpload(c)
    \/ handleTrivyDBPull \/ runTrivyDBPull
    \/ \E x \in Rotators : SwapAside(x) \/ SwapIn(x) \/ SwapFails(x)
    \/ (\E c \in Admins : RecordUpload(c)) \/ RecordPull
    \/ Reboot

-----------------------------------------------------------------------------
(* What the dashboard says is installed: the newest row, else what is on   *)
(* disk.                                                                   *)
handleTrivyDBStatus == IF meta = <<>> THEN db ELSE Last(meta)

(* A scanner that has had a database has one, except while a rotation is   *)
(* between its two renames, or when the process died there or the way back *)
(* failed too and no database is baked in (storage/atomic.go:114).         *)
DatabaseKept ==
    up = "serving" /\ had = "yes" /\ db = 0 =>
        "lost" \in dpast \/ \E x \in Rotators : rot[x].pc = "in"

(* Between rotations the dashboard names the installed database, also      *)
(* after failed swaps, restarts and uploads racing a pull, unless since    *)
(* the last recorded rotation a row could not be written, a restart cut a  *)
(* rotation short, or two rotations wrote their rows in the other order    *)
(* than they swapped (admin_trivy.go:443, 462).                            *)
StatusNamesInstalled ==
    up = "serving" /\ dpast = {} /\ (\A x \in Rotators : rot[x] = Still) =>
        handleTrivyDBStatus = db
=============================================================================
