---------------------------- MODULE Services_proofs ----------------------------
(***************************************************************************)
(* Proofs about the components that module Services puts side by side, for *)
(* any number of clients, objects, packages and steps.  Each component has *)
(* an inductive invariant of its own; a step of the composition is a step  *)
(* of one component, or leaves it alone (PartSteps).                       *)
(***************************************************************************)
EXTENDS Services, FiniteSetTheorems, SequenceTheorems, TLAPS

\* The part that is on does not change, and takes every step.
LEMMA PartSteps ==
    ASSUME [Next]_vars
    PROVE  /\ part' = part
           /\ part = "s3" => B!S3Next \/ UNCHANGED bvars
           /\ part = "packages" => K!Next \/ UNCHANGED kvars
           /\ part = "mirror" => Y!MNext \/ UNCHANGED yvars
           /\ part = "scans" => G!GNext \/ UNCHANGED gvars
           /\ part = "lists" => L!LNext \/ UNCHANGED lvars
           /\ part = "publish" => P!PNext \/ UNCHANGED pvars
           /\ part = "uploads" => U!UNext \/ UNCHANGED uvars
           /\ part = "trivy" => D!DNext \/ UNCHANGED dvars
           /\ part = "git" => H!HNext \/ UNCHANGED hvars
           /\ part = "audit" => W!WNext \/ UNCHANGED wvars
           /\ part = "limiter" => Q!QNext \/ UNCHANGED qvars
<1>1. CASE UNCHANGED vars
  BY <1>1 DEF vars
<1>2. CASE Next
  BY <1>2 DEF Next
<1> QED
  BY <1>1, <1>2

-----------------------------------------------------------------------------
(* The scanner's database.                                                 *)

Rotating == {"staged", "in", "meta"}

(* The mutex is held between the two renames, and only while serving.      *)
RotationsExclude ==
    /\ \A x \in D!Rotators : rot[x].pc = "in" <=> rotateMu = x
    /\ boot # "serving" => \A x \in D!Rotators : rot[x] = D!Still
    /\ \A x \in D!Rotators : rot[x].pc \in Rotating => rot[x].v # 0
    /\ rot["pull"].pc # "idle" => pull = "running"

(* Unless a directory was lost, the installed database, or the one the way *)
(* back would put in again, is there.                                      *)
DatabaseSafe == had = "yes" /\ "lost" \notin dpast => D!Current # 0

(* The installed database is in the newest row, or its row is about to be  *)
(* written, or there are no rows and none is on its way.                   *)
RowPending == \E x \in D!Rotators : rot[x].pc = "meta" /\ rot[x].v = D!Current

StatusFollows ==
    dpast = {} =>
       \/ meta # <<>> /\ meta[Len(meta)] = D!Current
       \/ RowPending
       \/ meta = <<>> /\ \A x \in D!Rotators : rot[x].pc # "meta"

TrivyInv == D!DTypeOK /\ RotationsExclude /\ DatabaseSafe /\ StatusFollows

LEMMA TrivyInit == ASSUME D!DInit PROVE TrivyInv
<1>1. D!Still.pc = "idle" /\ D!Still.v = 0 /\ D!Still.backup = 0
  BY DEF D!Still
<1>2. "pull" \in D!Rotators /\ None \notin D!Rotators
  BY ClientsAssumption DEF D!Rotators, D!Puller
<1>3. D!DTypeOK
  BY BoundsAssumption DEF D!DInit, D!DTypeOK, D!Databases, D!Still
<1> QED
  BY <1>1, <1>2, <1>3 DEF D!DInit, TrivyInv, RotationsExclude, DatabaseSafe, StatusFollows, Rotating

RotationRecord == [pc : {"idle", "download", "staged", "in", "meta"},
                   v : D!Databases, backup : D!Databases]

LEMMA RotatorsFacts ==
    /\ "pull" \in D!Rotators /\ None \notin D!Rotators /\ D!Puller = "pull"
    /\ D!Still.pc = "idle" /\ D!Still.v = 0 /\ D!Still.backup = 0
    /\ \A c \in Clients : c \in D!Rotators /\ c # "pull"
    /\ D!Still \in RotationRecord /\ 0 \in D!Databases
BY ClientsAssumption, BoundsAssumption
   DEF D!Rotators, D!Puller, D!Still, RotationRecord, D!Databases

\* One rotator moves.
LEMMA RotatorMoves ==
    ASSUME TrivyInv, NEW x \in D!Rotators, NEW r \in RotationRecord, rot' = [rot EXCEPT ![x] = r]
    PROVE  /\ rot' \in [D!Rotators -> RotationRecord] /\ rot'[x] = r
           /\ \A y \in D!Rotators \ {x} : rot'[y] = rot[y]
<1>1. rot \in [D!Rotators -> RotationRecord]
  BY DEF TrivyInv, D!DTypeOK, RotationRecord
<1> QED
  BY <1>1

LEMMA RotationTypes ==
    ASSUME TrivyInv, NEW x \in D!Rotators
    PROVE  rot[x] \in RotationRecord /\ rot[x].v \in D!Databases /\ rot[x].backup \in D!Databases
<1>1. rot[x] \in RotationRecord
  BY DEF TrivyInv, D!DTypeOK, RotationRecord
<1> QED
  BY <1>1 DEF RotationRecord

\* The database that counts, inside and outside the mutex.
LEMMA CurrentIs ==
    ASSUME TrivyInv
    PROVE  /\ rotateMu = None => D!Current = db
           /\ \A x \in D!Rotators : rot[x].pc = "in" => D!Current = rot[x].backup
           /\ (\A x \in D!Rotators : rot[x].pc # "in") => rotateMu = None
<1>1. None \notin D!Rotators
  BY RotatorsFacts
<1> QED
  BY <1>1 DEF D!Current, TrivyInv, RotationsExclude, D!DTypeOK

LEMMA SeedKeeps == ASSUME TrivyInv, D!SeedTrivyDB PROVE TrivyInv'
<1>1. boot = "seed" /\ boot' = "record" /\ UNCHANGED <<baked, meta, rot, rotateMu, pull, staged>>
  BY DEF D!SeedTrivyDB
<1>2. \A x \in D!Rotators : rot[x] = D!Still /\ rot[x].pc = "idle"
  BY <1>1, RotatorsFacts DEF TrivyInv, RotationsExclude
<1>3. rotateMu = None
  BY <1>2, CurrentIs
<1>4. D!Current' = db' /\ D!Current = db
  BY <1>1, <1>3 DEF D!Current
<1>5. CASE db = 0 /\ baked # 0
  <2>1. /\ db' = baked /\ had' = "yes"
        /\ dpast' = (dpast \ {"lost"}) \cup (IF meta = <<>> THEN {} ELSE {"cut"})
    BY <1>5 DEF D!SeedTrivyDB
  <2>2. D!DTypeOK'
    BY <1>1, <2>1, BoundsAssumption DEF TrivyInv, D!DTypeOK, D!Databases
  <2>3. RotationsExclude'
    BY <1>1, <1>2 DEF TrivyInv, RotationsExclude
  <2>4. DatabaseSafe'
    BY <1>4, <1>5, <2>1 DEF DatabaseSafe
  <2>5. StatusFollows'
    BY <1>1, <1>2, <2>1 DEF StatusFollows
  <2> QED
    BY <2>2, <2>3, <2>4, <2>5 DEF TrivyInv
<1>6. CASE ~ (db = 0 /\ baked # 0)
  <2>1. UNCHANGED <<db, had, dpast>>
    BY <1>6 DEF D!SeedTrivyDB
  <2>2. D!DTypeOK' /\ RotationsExclude'
    BY <1>1, <1>2, <2>1 DEF TrivyInv, D!DTypeOK, RotationsExclude
  <2>3. DatabaseSafe' /\ StatusFollows'
    BY <1>1, <1>2, <1>4, <2>1 DEF TrivyInv, DatabaseSafe, StatusFollows, RowPending
  <2> QED
    BY <2>2, <2>3 DEF TrivyInv
<1> QED
  BY <1>5, <1>6

LEMMA RecordKeeps == ASSUME TrivyInv, D!RecordBakedTrivyDBMeta PROVE TrivyInv'
<1>1. boot = "record" /\ boot' = "serving"
      /\ UNCHANGED <<baked, db, rot, rotateMu, pull, staged, had, dpast>>
  BY DEF D!RecordBakedTrivyDBMeta
<1>2. \A x \in D!Rotators : rot[x] = D!Still /\ rot[x].pc = "idle"
  BY <1>1, RotatorsFacts DEF TrivyInv, RotationsExclude
<1>3. rotateMu = None
  BY <1>2, CurrentIs
<1>4. D!Current' = db /\ D!Current = db
  BY <1>1, <1>3 DEF D!Current
<1>5. meta' = meta \/ (meta = <<>> /\ meta' = <<db>>)
  BY DEF D!RecordBakedTrivyDBMeta
<1>6. D!DTypeOK'
  <2>0. db \in D!Databases /\ meta \in Seq(D!Databases)
    BY DEF TrivyInv, D!DTypeOK
  <2>1. meta' \in Seq(D!Databases)
    <3>1. <<db>> \in Seq(D!Databases)
      BY <2>0
    <3> QED
      BY <1>5, <2>0, <3>1
  <2> QED
    BY <1>1, <2>1 DEF TrivyInv, D!DTypeOK
<1>7. RotationsExclude' /\ DatabaseSafe'
  BY <1>1, <1>4 DEF TrivyInv, RotationsExclude, DatabaseSafe
<1>8. StatusFollows'
  BY <1>1, <1>2, <1>4, <1>5 DEF TrivyInv, StatusFollows, RowPending
<1> QED
  BY <1>6, <1>7, <1>8 DEF TrivyInv

\* A database is staged, a download begins or ends: not about the installed one.
LEMMA StagingKeeps ==
    ASSUME TrivyInv, NEW x \in D!Rotators, NEW r \in RotationRecord,
           rot[x].pc \in {"idle", "download"}, r.pc \in {"idle", "download", "staged"},
           r.pc = "staged" => r.v # 0, rot' = [rot EXCEPT ![x] = r],
           boot = "serving", UNCHANGED <<baked, db, meta, boot, rotateMu, had, dpast>>,
           staged' \in 0 .. MaxRotations, pull' \in {"idle", "running", "success", "failure"},
           rot'["pull"].pc # "idle" => pull' = "running"
    PROVE  TrivyInv'
<1>1. /\ rot' \in [D!Rotators -> RotationRecord] /\ rot'[x] = r
      /\ \A y \in D!Rotators \ {x} : rot'[y] = rot[y]
  BY RotatorMoves
<1>2. D!DTypeOK'
  BY <1>1 DEF TrivyInv, D!DTypeOK, RotationRecord
<1>3. RotationsExclude'
  BY <1>1 DEF TrivyInv, RotationsExclude, Rotating
<1>4. D!Current' = D!Current
  <2>1. CASE rotateMu = None
    BY <2>1 DEF D!Current
  <2>2. CASE rotateMu # None
    <3>1. rotateMu \in D!Rotators /\ rot[rotateMu].pc = "in"
      BY <2>2 DEF TrivyInv, D!DTypeOK, RotationsExclude
    <3>2. rot'[rotateMu] = rot[rotateMu]
      BY <1>1, <3>1
    <3> QED
      BY <3>2 DEF D!Current
  <2> QED
    BY <2>1, <2>2
<1>5. DatabaseSafe'
  BY <1>4 DEF TrivyInv, DatabaseSafe
<1>6. StatusFollows'
  <2>1. \A y \in D!Rotators : rot'[y].pc = "meta" => rot'[y] = rot[y]
    BY <1>1
  <2>2. \A y \in D!Rotators : rot[y].pc = "meta" => rot'[y] = rot[y]
    BY <1>1
  <2> QED
    BY <1>4, <2>1, <2>2 DEF TrivyInv, StatusFollows, RowPending
<1> QED
  BY <1>2, <1>3, <1>5, <1>6 DEF TrivyInv

\* The record of a rotation whose archive has been unpacked.
LEMMA StageFacts ==
    ASSUME TrivyInv, NEW x \in D!Rotators, D!Stage(x)
    PROVE  /\ staged' \in 0 .. MaxRotations
           /\ \E r \in RotationRecord : r.pc = "staged" /\ r.v # 0 /\ rot' = [rot EXCEPT ![x] = r]
<1>1. staged \in 0 .. MaxRotations /\ staged < MaxRotations /\ staged' = staged + 1
  BY DEF TrivyInv, D!DTypeOK, D!Stage
<1>2. staged + 2 \in D!Databases /\ staged + 2 # 0 /\ 0 \in D!Databases
  BY <1>1, BoundsAssumption DEF D!Databases
<1>3. PICK v \in D!Databases : v = staged + 2 /\ v # 0
  BY <1>2
<1>4. PICK r : r = [pc |-> "staged", v |-> v, backup |-> 0]
  OBVIOUS
<1>5. r \in RotationRecord /\ r.pc = "staged" /\ r.v # 0 /\ rot' = [rot EXCEPT ![x] = r]
  <2>1. r \in RotationRecord
    BY <1>2, <1>4 DEF RotationRecord
  <2> QED
    BY <1>3, <1>4, <2>1 DEF D!Stage
<1>6. staged' \in 0 .. MaxRotations
  BY <1>1, BoundsAssumption
<1> QED
  BY <1>5, <1>6

LEMMA UploadKeeps ==
    ASSUME TrivyInv, NEW c \in Clients, D!handleTrivyDBUpload(c)
    PROVE  TrivyInv'
<1>1. c \in D!Rotators /\ c # "pull" /\ rot[c].pc = "idle" /\ boot = "serving" /\ D!Stage(c)
      /\ UNCHANGED <<baked, db, meta, boot, rotateMu, pull, had, dpast>>
  BY RotatorsFacts DEF D!handleTrivyDBUpload
<1>2. staged' \in 0 .. MaxRotations
  BY <1>1, StageFacts
<1>3. PICK r \in RotationRecord : r.pc = "staged" /\ r.v # 0 /\ rot' = [rot EXCEPT ![c] = r]
  BY <1>1, StageFacts
<1>4. rot'["pull"] = rot["pull"]
  BY <1>1, <1>3, RotatorMoves, RotatorsFacts
<1>5. pull' \in {"idle", "running", "success", "failure"} /\ (rot'["pull"].pc # "idle" => pull' = "running")
  BY <1>1, <1>4 DEF TrivyInv, RotationsExclude, D!DTypeOK
<1> QED
  BY <1>1, <1>2, <1>3, <1>5, StagingKeeps

LEMMA PullKeeps == ASSUME TrivyInv, D!handleTrivyDBPull PROVE TrivyInv'
<1>1. boot = "serving" /\ pull # "running" /\ pull' = "running" /\ D!Go("pull", "download")
      /\ UNCHANGED <<baked, db, meta, boot, rotateMu, staged, had, dpast>>
  BY DEF D!handleTrivyDBPull, D!Puller
<1>2. rot["pull"].pc = "idle"
  BY <1>1 DEF TrivyInv, RotationsExclude
<1>3. PICK r : r = [D!Still EXCEPT !.pc = "download"]
  OBVIOUS
<1>4. r \in RotationRecord /\ r.pc = "download"
  BY <1>3, RotatorsFacts DEF D!Still, RotationRecord
<1>5. rot' = [rot EXCEPT !["pull"] = r]
  BY <1>1, <1>3 DEF D!Go
<1>6. staged' \in 0 .. MaxRotations
  BY <1>1 DEF TrivyInv, D!DTypeOK
<1> QED
  BY <1>1, <1>2, <1>4, <1>5, <1>6, RotatorsFacts, StagingKeeps

LEMMA DownloadKeeps == ASSUME TrivyInv, D!runTrivyDBPull PROVE TrivyInv'
<1>1. rot["pull"].pc = "download" /\ UNCHANGED <<baked, db, meta, boot, rotateMu, had, dpast>>
  BY DEF D!runTrivyDBPull, D!Puller
<1>2. boot = "serving" /\ pull = "running"
  BY <1>1, RotatorsFacts DEF TrivyInv, RotationsExclude
<1>3. CASE D!Stage("pull") /\ pull' = pull
  <2>1. staged' \in 0 .. MaxRotations
    BY <1>3, StageFacts, RotatorsFacts
  <2>2. PICK r \in RotationRecord : r.pc = "staged" /\ r.v # 0 /\ rot' = [rot EXCEPT !["pull"] = r]
    BY <1>3, StageFacts, RotatorsFacts
  <2> QED
    BY <1>1, <1>2, <1>3, <2>1, <2>2, RotatorsFacts, StagingKeeps
<1>4. CASE D!Stop("pull") /\ pull' = "failure" /\ staged' = staged
  <2>1. PICK r \in RotationRecord : r.pc = "idle" /\ rot' = [rot EXCEPT !["pull"] = r]
    BY <1>4, RotatorsFacts DEF D!Stop
  <2>2. rot'["pull"].pc = "idle"
    BY <2>1, RotatorsFacts, RotatorMoves
  <2>3. staged' \in 0 .. MaxRotations
    BY <1>4 DEF TrivyInv, D!DTypeOK
  <2> QED
    BY <1>1, <1>2, <1>4, <2>1, <2>2, <2>3, RotatorsFacts, StagingKeeps
<1> QED
  BY <1>3, <1>4 DEF D!runTrivyDBPull, D!Puller

LEMMA SwapAsideKeeps ==
    ASSUME TrivyInv, NEW x \in D!Rotators, D!SwapAside(x)
    PROVE  TrivyInv'
<1>1. rot[x].pc = "staged" /\ rotateMu = None /\ rotateMu' = x /\ db' = 0
      /\ UNCHANGED <<baked, meta, boot, pull, staged, had, dpast>>
  BY DEF D!SwapAside
<1>2. PICK r : r = [pc |-> "in", v |-> rot[x].v, backup |-> db]
  OBVIOUS
<1>3. r \in RotationRecord /\ r.pc = "in" /\ r.v = rot[x].v /\ r.backup = db
  BY <1>2, RotationTypes DEF RotationRecord, TrivyInv, D!DTypeOK
<1>4. /\ rot' \in [D!Rotators -> RotationRecord] /\ rot'[x] = r
      /\ \A y \in D!Rotators \ {x} : rot'[y] = rot[y]
  <2>1. rot' = [rot EXCEPT ![x] = r]
    BY <1>2 DEF D!SwapAside
  <2> QED
    BY <1>3, <2>1, RotatorMoves
<1>5. boot = "serving" /\ x # None
  BY <1>1, RotatorsFacts DEF TrivyInv, RotationsExclude
<1>6. D!Current = db /\ D!Current' = db
  BY <1>1, <1>3, <1>4, <1>5 DEF D!Current
<1>7. D!DTypeOK'
  BY <1>1, <1>4, RotatorsFacts DEF TrivyInv, D!DTypeOK, RotationRecord
<1>8. RotationsExclude'
  <2>1. \A y \in D!Rotators : rot'[y].pc = "in" <=> rotateMu' = y
    BY <1>1, <1>3, <1>4, RotatorsFacts DEF TrivyInv, RotationsExclude
  <2> QED
    BY <1>1, <1>3, <1>4, <1>5, <2>1, RotatorsFacts DEF TrivyInv, RotationsExclude, Rotating
<1>9. DatabaseSafe'
  BY <1>1, <1>6 DEF TrivyInv, DatabaseSafe
<1>10. StatusFollows'
  <2>1. \A y \in D!Rotators : rot'[y].pc = "meta" => rot'[y] = rot[y]
    BY <1>3, <1>4
  <2>2. \A y \in D!Rotators : rot[y].pc = "meta" => rot'[y] = rot[y]
    BY <1>1, <1>4
  <2> QED
    BY <1>1, <1>6, <2>1, <2>2 DEF TrivyInv, StatusFollows, RowPending
<1> QED
  BY <1>7, <1>8, <1>9, <1>10 DEF TrivyInv

LEMMA SwapInKeeps ==
    ASSUME TrivyInv, NEW x \in D!Rotators, D!SwapIn(x)
    PROVE  TrivyInv'
<1>1. rot[x].pc = "in" /\ db' = rot[x].v /\ had' = "yes" /\ dpast' = dpast \ {"lost"}
      /\ rotateMu' = None /\ UNCHANGED <<baked, meta, boot, pull, staged>>
  BY DEF D!SwapIn
<1>2. PICK r : r = [pc |-> "meta", v |-> rot[x].v, backup |-> 0]
  OBVIOUS
<1>3. r \in RotationRecord /\ r.pc = "meta" /\ r.v = rot[x].v /\ rot[x].v \in D!Databases
  BY <1>2, RotationTypes, RotatorsFacts DEF RotationRecord
<1>4. /\ rot' \in [D!Rotators -> RotationRecord] /\ rot'[x] = r
      /\ \A y \in D!Rotators \ {x} : rot'[y] = rot[y]
  <2>1. rot' = [rot EXCEPT ![x] = r]
    BY <1>2 DEF D!SwapIn
  <2> QED
    BY <1>3, <2>1, RotatorMoves
<1>5. boot = "serving" /\ x # None /\ rotateMu = x /\ rot[x].v # 0
  BY <1>1, RotatorsFacts DEF TrivyInv, RotationsExclude, Rotating
<1>6. D!Current' = rot[x].v
  BY <1>1 DEF D!Current
<1>7. D!DTypeOK'
  BY <1>1, <1>3, <1>4 DEF TrivyInv, D!DTypeOK, RotationRecord
<1>8. RotationsExclude'
  <2>1. \A y \in D!Rotators : rot'[y].pc = "in" <=> rotateMu' = y
    BY <1>1, <1>3, <1>4, <1>5, RotatorsFacts DEF TrivyInv, RotationsExclude
  <2> QED
    BY <1>1, <1>3, <1>4, <1>5, <2>1, RotatorsFacts DEF TrivyInv, RotationsExclude, Rotating
<1>9. DatabaseSafe'
  BY <1>5, <1>6 DEF DatabaseSafe
<1>10. StatusFollows'
  BY <1>3, <1>4, <1>6 DEF StatusFollows, RowPending
<1> QED
  BY <1>7, <1>8, <1>9, <1>10 DEF TrivyInv

\* A rotation ends and leaves the mutex, if it held it.
LEMMA StopFacts ==
    ASSUME TrivyInv, NEW x \in D!Rotators, D!Stop(x), D!finish(x, "failure") \/ D!finish(x, "success"),
           boot = "serving", boot' = boot, rot[x].pc \in {"in", "meta"},
           rotateMu' = IF rot[x].pc = "in" THEN None ELSE rotateMu
    PROVE  /\ rot' \in [D!Rotators -> RotationRecord] /\ rot'[x].pc = "idle"
           /\ \A y \in D!Rotators \ {x} : rot'[y] = rot[y]
           /\ pull' \in {"idle", "running", "success", "failure"}
           /\ RotationsExclude'
<1>1. /\ rot' \in [D!Rotators -> RotationRecord] /\ rot'[x] = D!Still
      /\ \A y \in D!Rotators \ {x} : rot'[y] = rot[y]
  BY RotatorsFacts, RotatorMoves DEF D!Stop
<1>2. rot'[x].pc = "idle"
  BY <1>1, RotatorsFacts
<1>3. pull' \in {"idle", "running", "success", "failure"} /\ (x # "pull" => pull' = pull)
  BY RotatorsFacts DEF D!finish, TrivyInv, D!DTypeOK
<1>4. \A y \in D!Rotators : rot'[y].pc = "in" <=> rotateMu' = y
  BY <1>1, <1>2, RotatorsFacts DEF TrivyInv, RotationsExclude
<1>5. rot'["pull"].pc # "idle" => pull' = "running"
  BY <1>1, <1>2, <1>3, RotatorsFacts DEF TrivyInv, RotationsExclude
<1>6. \A y \in D!Rotators : rot'[y].pc \in Rotating => rot'[y].v # 0
  BY <1>1, <1>2 DEF TrivyInv, RotationsExclude, Rotating
<1> QED
  BY <1>1, <1>2, <1>3, <1>4, <1>5, <1>6 DEF RotationsExclude

LEMMA SwapFailsKeeps ==
    ASSUME TrivyInv, NEW x \in D!Rotators, D!SwapFails(x)
    PROVE  TrivyInv'
<1>1. rot[x].pc = "in" /\ rotateMu' = None /\ D!Stop(x) /\ D!finish(x, "failure")
      /\ UNCHANGED <<baked, meta, boot, staged, had>>
  BY DEF D!SwapFails
<1>2. boot = "serving" /\ D!Current = rot[x].backup /\ rot[x].backup \in D!Databases
  BY <1>1, RotatorsFacts, CurrentIs, RotationTypes DEF TrivyInv, RotationsExclude
<1>3. /\ rot' \in [D!Rotators -> RotationRecord] /\ rot'[x].pc = "idle"
      /\ \A y \in D!Rotators \ {x} : rot'[y] = rot[y]
      /\ pull' \in {"idle", "running", "success", "failure"}
      /\ RotationsExclude'
  BY <1>1, <1>2, StopFacts
<1>4. \/ db' = rot[x].backup /\ dpast' = dpast
      \/ dpast' = dpast \cup {"lost"} /\ db' = db
  BY DEF D!SwapFails
<1>5. D!DTypeOK'
  BY <1>1, <1>2, <1>3, <1>4 DEF TrivyInv, D!DTypeOK, RotationRecord
<1>6. D!Current' = db'
  BY <1>1 DEF D!Current
<1>7. DatabaseSafe'
  BY <1>1, <1>2, <1>4, <1>6 DEF TrivyInv, DatabaseSafe
<1>8. StatusFollows'
  <2>1. \A y \in D!Rotators : rot'[y].pc = "meta" => rot'[y] = rot[y]
    BY <1>3
  <2>2. \A y \in D!Rotators : rot[y].pc = "meta" => rot'[y] = rot[y]
    BY <1>1, <1>3
  <2> QED
    BY <1>1, <1>2, <1>4, <1>6, <2>1, <2>2 DEF TrivyInv, StatusFollows, RowPending
<1> QED
  BY <1>3, <1>5, <1>7, <1>8 DEF TrivyInv

\* The row of a rotation: of the installed database, or of one that a later
\* swap has replaced, whose own row is on its way or already there.
LEMMA InsertKeepsStatus ==
    ASSUME TrivyInv, NEW x \in D!Rotators, D!InsertMeta(x)
    PROVE  TrivyInv'
<1>1. rot[x].pc = "meta" /\ D!Stop(x) /\ D!finish(x, "success")
      /\ UNCHANGED <<baked, db, boot, rotateMu, staged, had>>
  BY DEF D!InsertMeta
<1>2. boot = "serving" /\ rot[x].v \in D!Databases
  BY <1>1, RotatorsFacts, RotationTypes DEF TrivyInv, RotationsExclude
<1>3. /\ rot' \in [D!Rotators -> RotationRecord] /\ rot'[x].pc = "idle"
      /\ \A y \in D!Rotators \ {x} : rot'[y] = rot[y]
      /\ pull' \in {"idle", "running", "success", "failure"}
      /\ RotationsExclude'
  BY <1>1, <1>2, StopFacts
<1>4. D!Current' = D!Current
  <2>1. CASE rotateMu = None
    BY <1>1, <2>1 DEF D!Current
  <2>2. CASE rotateMu # None
    <3>1. rotateMu \in D!Rotators /\ rot[rotateMu].pc = "in"
      BY <2>2 DEF TrivyInv, D!DTypeOK, RotationsExclude
    <3>2. rot'[rotateMu] = rot[rotateMu]
      BY <1>1, <1>3, <3>1
    <3> QED
      BY <1>1, <3>2 DEF D!Current
  <2> QED
    BY <2>1, <2>2
<1>5. meta \in Seq(D!Databases) /\ dpast \subseteq {"lost", "cut", "unrecorded", "crossed"}
  BY DEF TrivyInv, D!DTypeOK
<1>6. meta' \in Seq(D!Databases) /\ dpast' \subseteq {"lost", "cut", "unrecorded", "crossed"}
      /\ ("lost" \in dpast => "lost" \in dpast')
  <2>1. Append(meta, rot[x].v) \in Seq(D!Databases)
    BY <1>2, <1>5
  <2> QED
    BY <1>5, <2>1 DEF D!InsertMeta
<1>7. D!DTypeOK'
  BY <1>1, <1>3, <1>6 DEF TrivyInv, D!DTypeOK, RotationRecord
<1>8. DatabaseSafe'
  BY <1>1, <1>4, <1>6 DEF TrivyInv, DatabaseSafe
<1>9. StatusFollows'
  <2>1. SUFFICES ASSUME dpast' = {}
                 PROVE  (meta' # <<>> /\ meta'[Len(meta')] = D!Current') \/ RowPending'
    BY DEF StatusFollows
  <2>2. meta' = Append(meta, rot[x].v) /\ (rot[x].v = D!Current \/ (dpast' = dpast /\ ~ D!Contains(meta, D!Current)))
    BY <2>1 DEF D!InsertMeta
  <2>3. meta' # <<>> /\ meta'[Len(meta')] = rot[x].v
    BY <1>2, <1>5, <2>2
  <2>4. CASE rot[x].v = D!Current
    BY <1>4, <2>3, <2>4
  <2>5. CASE rot[x].v # D!Current
    <3>1. dpast = {} /\ ~ D!Contains(meta, D!Current)
      BY <2>1, <2>2, <2>5
    <3>2. ~ (meta # <<>> /\ meta[Len(meta)] = D!Current)
      <4>1. SUFFICES ASSUME meta # <<>>, meta[Len(meta)] = D!Current
                     PROVE  FALSE
        OBVIOUS
      <4>2. Len(meta) \in 1 .. Len(meta)
        BY <1>5, <4>1
      <4> QED
        BY <3>1, <4>1, <4>2 DEF D!Contains
    <3>3. PICK y \in D!Rotators : rot[y].pc = "meta" /\ rot[y].v = D!Current
      BY <1>1, <3>1, <3>2 DEF TrivyInv, StatusFollows, RowPending
    <3>4. rot'[y] = rot[y]
      BY <1>3, <2>5, <3>3
    <3> QED
      BY <1>4, <3>3, <3>4 DEF RowPending
  <2> QED
    BY <2>4, <2>5
<1> QED
  BY <1>3, <1>7, <1>8, <1>9 DEF TrivyInv

LEMMA RebootKeeps == ASSUME TrivyInv, D!Reboot PROVE TrivyInv'
<1>1. boot' = "seed" /\ rot' = [x \in D!Rotators |-> D!Still] /\ rotateMu' = None /\ pull' = "idle"
      /\ UNCHANGED <<baked, db, meta, staged, had>>
  BY DEF D!Reboot
<1>2. dpast' = dpast \cup (IF \E x \in D!Rotators : rot[x].pc = "in" THEN {"lost", "cut"} ELSE {})
                     \cup (IF \E x \in D!Rotators : rot[x].pc = "meta" THEN {"cut"} ELSE {})
  BY DEF D!Reboot
<1>3. D!Current' = db
  BY <1>1 DEF D!Current
<1>4. D!DTypeOK'
  <2>1. rot' \in [D!Rotators -> RotationRecord]
    BY <1>1, RotatorsFacts
  <2>2. dpast' \subseteq {"lost", "cut", "unrecorded", "crossed"}
    BY <1>2 DEF TrivyInv, D!DTypeOK
  <2> QED
    BY <1>1, <2>1, <2>2 DEF TrivyInv, D!DTypeOK, RotationRecord
<1>5. RotationsExclude'
  BY <1>1, RotatorsFacts DEF RotationsExclude, Rotating
<1>6. DatabaseSafe'
  <2>1. SUFFICES ASSUME had = "yes", "lost" \notin dpast'
                 PROVE  db # 0
    BY <1>1, <1>3 DEF DatabaseSafe
  <2>2. "lost" \notin dpast /\ \A x \in D!Rotators : rot[x].pc # "in"
    BY <1>2, <2>1
  <2>3. D!Current = db
    BY <2>2, CurrentIs
  <2> QED
    BY <2>1, <2>2, <2>3 DEF TrivyInv, DatabaseSafe
<1>7. StatusFollows'
  <2>1. SUFFICES ASSUME dpast' = {}
                 PROVE  (meta # <<>> /\ meta[Len(meta)] = db) \/ meta = <<>>
    BY <1>1, <1>3, RotatorsFacts DEF StatusFollows
  <2>2. dpast = {} /\ \A x \in D!Rotators : rot[x].pc # "in" /\ rot[x].pc # "meta"
    BY <1>2, <2>1
  <2>3. D!Current = db
    BY <2>2, CurrentIs
  <2> QED
    BY <2>2, <2>3 DEF TrivyInv, StatusFollows, RowPending
<1> QED
  BY <1>4, <1>5, <1>6, <1>7 DEF TrivyInv

LEMMA TrivyStep == ASSUME TrivyInv, D!DNext \/ UNCHANGED dvars PROVE TrivyInv'
<1>1. CASE UNCHANGED dvars
  BY <1>1 DEF dvars, TrivyInv, D!DTypeOK, RotationsExclude, DatabaseSafe, StatusFollows, RowPending,
              D!Current
<1>2. CASE D!DNext
  <2>1. CASE D!SeedTrivyDB \/ D!RecordBakedTrivyDBMeta \/ D!handleTrivyDBPull \/ D!runTrivyDBPull
             \/ D!Reboot
    BY <2>1, SeedKeeps, RecordKeeps, PullKeeps, DownloadKeeps, RebootKeeps
  <2>2. CASE \E c \in Clients : D!handleTrivyDBUpload(c) \/ D!RecordUpload(c)
    BY <2>2, UploadKeeps, InsertKeepsStatus, RotatorsFacts DEF D!RecordUpload
  <2>3. CASE D!RecordPull
    BY <2>3, InsertKeepsStatus, RotatorsFacts DEF D!RecordPull
  <2>4. CASE \E x \in D!Rotators : D!SwapAside(x) \/ D!SwapIn(x) \/ D!SwapFails(x)
    BY <2>4, SwapAsideKeeps, SwapInKeeps, SwapFailsKeeps
  <2> QED
    BY <1>2, <2>1, <2>2, <2>3, <2>4 DEF D!DNext
<1> QED
  BY <1>1, <1>2

LEMMA TrivyShows == ASSUME TrivyInv PROVE D!DatabaseKept /\ D!StatusNamesInstalled
<1>1. D!DatabaseKept
  <2>1. SUFFICES ASSUME had = "yes", db = 0, "lost" \notin dpast, \A x \in D!Rotators : rot[x].pc # "in"
                 PROVE  FALSE
    BY DEF D!DatabaseKept
  <2>2. D!Current = db
    BY <2>1, CurrentIs
  <2> QED
    BY <2>1, <2>2 DEF TrivyInv, DatabaseSafe
<1>2. D!StatusNamesInstalled
  <2>1. SUFFICES ASSUME dpast = {}, \A x \in D!Rotators : rot[x] = D!Still
                 PROVE  D!handleTrivyDBStatus = db
    BY DEF D!StatusNamesInstalled
  <2>2. \A x \in D!Rotators : rot[x].pc = "idle"
    BY <2>1, RotatorsFacts
  <2>3. D!Current = db
    BY <2>2, CurrentIs
  <2>4. (meta # <<>> /\ meta[Len(meta)] = db) \/ meta = <<>>
    BY <2>1, <2>2, <2>3 DEF TrivyInv, StatusFollows, RowPending
  <2> QED
    BY <2>4 DEF D!handleTrivyDBStatus, D!Last
<1> QED
  BY <1>1, <1>2

\* A rotation never costs the scanner its database, and between rotations
\* the dashboard names the one installed (atomic.go:114, admin_trivy.go:462).
THEOREM DatabaseIsKept == Spec => []DatabaseKept
<1>1. Init => (part = "trivy" => TrivyInv)
  BY TrivyInit DEF Init
<1>2. (part = "trivy" => TrivyInv) /\ [Next]_vars => (part = "trivy" => TrivyInv)'
  BY PartSteps, TrivyStep
<1>3. (part = "trivy" => TrivyInv) => DatabaseKept
  BY TrivyShows DEF DatabaseKept, TrivyInv
<1> QED
  BY <1>1, <1>2, <1>3, PTL DEF Spec

-----------------------------------------------------------------------------
(* Git references.                                                         *)

PushRecord == [pc : {"idle", "wait", "receive", "replace"}, todo : SUBSET GitRefs,
               new : H!Commit, seen : H!Refs]
SyncRecord == [pc : {"idle", "fetch", "replace", "done"}, todo : SUBSET GitRefs,
               want : H!Refs, seen : H!Refs]

(* The push that moves references, or is about to rewrite the table, holds *)
(* the lock.                                                               *)
PushHoldsLock ==
    \A c \in Clients : push[c].pc \in {"receive", "replace"} <=> repoLock = c

(* A hosted repository is not synced, and no push gets past the check of a *)
(* mirror.  A repository that is not there has no references.              *)
OneWriter ==
    /\ mirror = "no" => sync.pc = "idle" /\ exists = "yes"
    /\ mirror = "yes" => \A c \in Clients : push[c].pc # "replace"
    /\ exists = "no" => disk = H!NoRefs /\ sync.pc = "idle"

(* Nobody moves a reference between the walk and the transaction; what a   *)
(* sync has not left to do is as the upstream had it.                      *)
WalksFresh ==
    /\ \A c \in Clients : push[c].pc = "replace" => push[c].seen = disk
    /\ sync.pc = "replace" => sync.seen = disk
    /\ sync.pc # "idle" => \A r \in GitRefs \ sync.todo : disk[r] = sync.want[r]
    /\ sync.pc \in {"replace", "done"} => sync.todo = {}

TableListed == gpast = {} => table = disk

GitInv == H!HTypeOK /\ PushHoldsLock /\ OneWriter /\ WalksFresh /\ TableListed

LEMMA GitFacts ==
    /\ H!NoRefs \in H!Refs /\ 0 \in H!Commit /\ None \notin Clients
    /\ H!NoPush \in PushRecord /\ H!NoPush.pc = "idle"
    /\ H!NoSync \in SyncRecord /\ H!NoSync.pc = "idle"
<1>1. H!NoRefs \in H!Refs /\ 0 \in H!Commit
  BY BoundsAssumption DEF H!NoRefs, H!Refs, H!Commit
<1>2. H!NoPush \in PushRecord /\ H!NoPush.pc = "idle"
  BY <1>1 DEF H!NoPush, PushRecord
<1>3. H!NoSync \in SyncRecord /\ H!NoSync.pc = "idle"
  BY <1>1 DEF H!NoSync, SyncRecord
<1> QED
  BY <1>1, <1>2, <1>3, ClientsAssumption

LEMMA GitTypes ==
    ASSUME GitInv
    PROVE  /\ push \in [Clients -> PushRecord] /\ sync \in SyncRecord
           /\ disk \in H!Refs /\ table \in H!Refs /\ upstream \in H!Refs
           /\ commits \in H!Commit /\ repoLock \in Clients \cup {None}
           /\ mirror \in {"yes", "no"} /\ exists \in {"yes", "no"}
           /\ gpast \subseteq {"stale", "partial"}
BY DEF GitInv, H!HTypeOK, PushRecord, SyncRecord

LEMMA GitInit == ASSUME H!HInit PROVE GitInv
<1>1. H!HTypeOK
  BY GitFacts DEF H!HInit, H!CreateRepoHook, H!HTypeOK, PushRecord, SyncRecord
<1>2. PushHoldsLock
  BY GitFacts DEF H!HInit, PushHoldsLock
<1>3. OneWriter
  BY GitFacts DEF H!HInit, H!CreateRepoHook, OneWriter
<1>4. WalksFresh /\ TableListed
  BY GitFacts DEF H!HInit, H!CreateRepoHook, WalksFresh, TableListed
<1> QED
  BY <1>1, <1>2, <1>3, <1>4 DEF GitInv

\* One push moves.
LEMMA PushMoves ==
    ASSUME GitInv, NEW c \in Clients, NEW p \in PushRecord, push' = [push EXCEPT ![c] = p]
    PROVE  /\ push' \in [Clients -> PushRecord] /\ push'[c] = p
           /\ \A d \in Clients \ {c} : push'[d] = push[d]
BY GitTypes

\* A push that changes neither references nor the table.
LEMMA PushOnly ==
    ASSUME GitInv, NEW c \in Clients, NEW p \in PushRecord, push' = [push EXCEPT ![c] = p],
           UNCHANGED <<mirror, disk, exists, table, sync, upstream, gpast>>,
           commits' \in H!Commit, repoLock' \in Clients \cup {None},
           p.pc \in {"receive", "replace"} <=> repoLock' = c,
           \A d \in Clients \ {c} : repoLock' = d <=> repoLock = d,
           p.pc = "replace" => mirror = "no" /\ p.seen = disk
    PROVE  GitInv'
<1>1. /\ push' \in [Clients -> PushRecord] /\ push'[c] = p
      /\ \A d \in Clients \ {c} : push'[d] = push[d]
  BY PushMoves
<1>2. H!HTypeOK'
  BY <1>1 DEF GitInv, H!HTypeOK, PushRecord
<1>3. PushHoldsLock'
  BY <1>1 DEF GitInv, PushHoldsLock
<1>4. OneWriter'
  BY <1>1 DEF GitInv, OneWriter
<1>5. WalksFresh' /\ TableListed'
  BY <1>1 DEF GitInv, WalksFresh, TableListed
<1> QED
  BY <1>2, <1>3, <1>4, <1>5 DEF GitInv

LEMMA PushBegins ==
    ASSUME GitInv, NEW c \in Clients, H!ResolveRepoFromURL(c)
    PROVE  GitInv'
<1>1. PICK T \in SUBSET GitRefs :
        push' = [push EXCEPT ![c] = [pc |-> "wait", todo |-> T, new |-> commits + 1, seen |-> H!NoRefs]]
  BY DEF H!ResolveRepoFromURL
<1>2. push[c].pc = "idle" /\ UNCHANGED <<mirror, disk, exists, table, repoLock, sync, upstream, gpast>>
  BY GitFacts DEF H!ResolveRepoFromURL
<1>3. PICK n \in H!Commit : n = commits + 1 /\ commits' = n
  <2>1. commits \in H!Commit /\ commits < MaxCommits /\ commits' = commits + 1
    BY GitTypes DEF H!ResolveRepoFromURL
  <2> QED
    BY <2>1, BoundsAssumption DEF H!Commit
<1>4. PICK p : p = [pc |-> "wait", todo |-> T, new |-> n, seen |-> H!NoRefs]
  OBVIOUS
<1>5. p \in PushRecord /\ p.pc = "wait"
  <2>1. H!NoRefs \in H!Refs
    BY GitFacts
  <2> QED
    BY <1>4, <2>1 DEF PushRecord
<1>6. push' = [push EXCEPT ![c] = p]
  BY <1>1, <1>3, <1>4
<1>7. repoLock' \in Clients \cup {None} /\ repoLock # c
  BY <1>2, GitTypes DEF GitInv, PushHoldsLock
<1> QED
  BY <1>2, <1>3, <1>5, <1>6, <1>7, PushOnly

\* A step of a push that only changes where it is.
LEMMA StepRecord ==
    ASSUME GitInv, NEW c \in Clients, NEW s \in {"idle", "wait", "receive", "replace"}, H!Step(c, s)
    PROVE  \E p \in PushRecord : p.pc = s /\ push' = [push EXCEPT ![c] = p]
<1>1. push[c] \in PushRecord
  BY GitTypes
<1>2. PICK p : p = [push[c] EXCEPT !.pc = s]
  OBVIOUS
<1>3. p \in PushRecord /\ p.pc = s
  BY <1>1, <1>2 DEF PushRecord
<1> QED
  BY <1>2, <1>3 DEF H!Step

LEMMA PushLocks ==
    ASSUME GitInv, NEW c \in Clients, H!PerRepoMutex(c)
    PROVE  GitInv'
<1>1. repoLock = None /\ repoLock' = c /\ H!Step(c, "receive")
      /\ UNCHANGED <<mirror, disk, exists, table, sync, upstream, commits, gpast>>
  BY DEF H!PerRepoMutex
<1>2. PICK p \in PushRecord : p.pc = "receive" /\ push' = [push EXCEPT ![c] = p]
  BY <1>1, StepRecord
<1>3. commits' \in H!Commit /\ \A d \in Clients \ {c} : repoLock' = d <=> repoLock = d
  BY <1>1, GitTypes, GitFacts
<1> QED
  BY <1>1, <1>2, <1>3, PushOnly

LEMMA PushRejected ==
    ASSUME GitInv, NEW c \in Clients, H!RejectMirrorPush(c)
    PROVE  GitInv'
<1>1. push[c].pc = "receive" /\ H!Quit(c) /\ repoLock' = None
      /\ UNCHANGED <<mirror, disk, exists, table, sync, upstream, commits, gpast>>
  BY DEF H!RejectMirrorPush
<1>2. PICK p \in PushRecord : p.pc = "idle" /\ push' = [push EXCEPT ![c] = p]
  BY <1>1, GitFacts DEF H!Quit
<1>3. commits' \in H!Commit /\ repoLock = c /\ c # None
  BY <1>1, GitTypes, GitFacts DEF GitInv, PushHoldsLock
<1>4. \A d \in Clients \ {c} : repoLock' = d <=> repoLock = d
  BY <1>1, <1>3, GitFacts
<1>5. repoLock' # c
  BY <1>1, <1>3
<1> QED
  BY <1>1, <1>2, <1>3, <1>4, <1>5, PushOnly

LEMMA PushReceives ==
    ASSUME GitInv, NEW c \in Clients, H!ReceivePack(c)
    PROVE  GitInv'
<1>1. PICK r \in push[c].todo :
        /\ push' = [push EXCEPT ![c].todo = @ \ {r}]
        /\ disk' \in {disk, [disk EXCEPT ![r] = push[c].new], [disk EXCEPT ![r] = 0]}
  BY DEF H!ReceivePack
<1>2. /\ push[c].pc = "receive" /\ mirror = "no" /\ gpast' = gpast \cup {"stale"}
      /\ UNCHANGED <<mirror, exists, table, repoLock, sync, upstream, commits>>
  BY DEF H!ReceivePack
<1>3. push[c] \in PushRecord
  BY GitTypes
<1>4. PICK p : p = [push[c] EXCEPT !.todo = @ \ {r}]
  OBVIOUS
<1>5. p \in PushRecord /\ p.pc = "receive"
  BY <1>2, <1>3, <1>4 DEF PushRecord
<1>6. push' = [push EXCEPT ![c] = p]
  BY <1>1, <1>4
<1>7. /\ push' \in [Clients -> PushRecord] /\ push'[c] = p
      /\ \A d \in Clients \ {c} : push'[d] = push[d]
  BY <1>5, <1>6, PushMoves
<1>8. disk' \in H!Refs
  <2>1. disk \in H!Refs /\ push[c].new \in H!Commit /\ 0 \in H!Commit
    BY <1>3, GitTypes, GitFacts DEF PushRecord
  <2> QED
    BY <1>1, <2>1 DEF H!Refs
<1>9. sync.pc = "idle" /\ exists = "yes" /\ \A d \in Clients \ {c} : push[d].pc # "replace"
  BY <1>2 DEF GitInv, OneWriter, PushHoldsLock
<1>10. H!HTypeOK'
  BY <1>2, <1>7, <1>8 DEF GitInv, H!HTypeOK, PushRecord
<1>11. PushHoldsLock'
  BY <1>2, <1>5, <1>7 DEF GitInv, PushHoldsLock
<1>12. OneWriter'
  BY <1>2, <1>9 DEF GitInv, OneWriter
<1>13. WalksFresh' /\ TableListed'
  BY <1>2, <1>5, <1>7, <1>9 DEF WalksFresh, TableListed
<1> QED
  BY <1>10, <1>11, <1>12, <1>13 DEF GitInv

LEMMA PushTooLarge ==
    ASSUME GitInv, NEW c \in Clients, H!PushSizeLimit(c)
    PROVE  GitInv'
<1>1. /\ push[c].pc = "receive" /\ push' = [push EXCEPT ![c].todo = {}]
      /\ UNCHANGED <<mirror, disk, exists, table, repoLock, sync, upstream, commits, gpast>>
  BY DEF H!PushSizeLimit
<1>2. push[c] \in PushRecord
  BY GitTypes
<1>3. PICK p : p = [push[c] EXCEPT !.todo = {}]
  OBVIOUS
<1>4. p \in PushRecord /\ p.pc = "receive"
  BY <1>1, <1>2, <1>3 DEF PushRecord
<1>5. push' = [push EXCEPT ![c] = p]
  BY <1>1, <1>3
<1>6. commits' \in H!Commit /\ repoLock' \in Clients \cup {None} /\ repoLock' = c
  BY <1>1, GitTypes DEF GitInv, PushHoldsLock
<1>7. \A d \in Clients \ {c} : repoLock' = d <=> repoLock = d
  BY <1>1
<1> QED
  BY <1>1, <1>4, <1>5, <1>6, <1>7, PushOnly

LEMMA PushWalks ==
    ASSUME GitInv, NEW c \in Clients, H!dispatchToBackend(c)
    PROVE  GitInv'
<1>1. /\ push[c].pc = "receive" /\ mirror = "no"
      /\ push' = [push EXCEPT ![c].pc = "replace", ![c].seen = disk]
      /\ UNCHANGED <<mirror, disk, exists, table, repoLock, sync, upstream, commits, gpast>>
  BY DEF H!dispatchToBackend
<1>2. push[c] \in PushRecord /\ disk \in H!Refs
  BY GitTypes
<1>3. PICK p : p = [push[c] EXCEPT !.pc = "replace", !.seen = disk]
  OBVIOUS
<1>4. p \in PushRecord /\ p.pc = "replace" /\ p.seen = disk
  BY <1>1, <1>2, <1>3 DEF PushRecord
<1>5. push' = [push EXCEPT ![c] = p]
  <2>1. push \in [Clients -> PushRecord]
    BY GitTypes
  <2> QED
    BY <1>1, <1>3, <2>1 DEF PushRecord
<1>6. commits' \in H!Commit /\ repoLock' \in Clients \cup {None} /\ repoLock' = c
  BY <1>1, GitTypes DEF GitInv, PushHoldsLock
<1>7. \A d \in Clients \ {c} : repoLock' = d <=> repoLock = d
  BY <1>1
<1> QED
  BY <1>1, <1>4, <1>5, <1>6, <1>7, PushOnly

LEMMA PushLists ==
    ASSUME GitInv, NEW c \in Clients, H!WalkAndReplace(c)
    PROVE  GitInv'
<1>1. /\ push[c].pc = "replace" /\ H!Quit(c)
      /\ repoLock' = IF repoLock = c THEN None ELSE repoLock
      /\ UNCHANGED <<mirror, disk, exists, sync, upstream, commits>>
  BY DEF H!WalkAndReplace
<1>2. repoLock = c /\ push[c].seen = disk /\ disk \in H!Refs /\ c # None
  BY <1>1, GitTypes, GitFacts DEF GitInv, PushHoldsLock, WalksFresh
<1>3. \/ table' = disk /\ gpast' = {}
      \/ UNCHANGED <<table, gpast>>
  BY <1>2 DEF H!WalkAndReplace, H!ReplaceAll
<1>4. push' = [push EXCEPT ![c] = H!NoPush] /\ H!NoPush \in PushRecord /\ H!NoPush.pc = "idle"
  BY <1>1, GitFacts DEF H!Quit
<1>5. /\ push' \in [Clients -> PushRecord] /\ push'[c] = H!NoPush
      /\ \A d \in Clients \ {c} : push'[d] = push[d]
  BY <1>4, PushMoves
<1>6. H!HTypeOK'
  <2>1. H!HTypeOK
    BY DEF GitInv
  <2>2. table' \in H!Refs /\ gpast' \subseteq {"stale", "partial"} /\ repoLock' \in Clients \cup {None}
    BY <1>1, <1>2, <1>3, GitTypes
  <2> QED
    BY <1>1, <1>5, <2>1, <2>2 DEF H!HTypeOK, PushRecord
<1>7. PushHoldsLock'
  BY <1>1, <1>2, <1>4, <1>5, GitFacts DEF GitInv, PushHoldsLock
<1>8. OneWriter'
  BY <1>1, <1>4, <1>5 DEF GitInv, OneWriter
<1>9. WalksFresh'
  BY <1>1, <1>4, <1>5 DEF GitInv, WalksFresh
<1>10. TableListed'
  BY <1>1, <1>3 DEF GitInv, TableListed
<1> QED
  BY <1>6, <1>7, <1>8, <1>9, <1>10 DEF GitInv

LEMMA UpstreamMoves ==
    ASSUME GitInv, H!UpstreamPush
    PROVE  GitInv'
<1>1. /\ commits < MaxCommits /\ commits' = commits + 1
      /\ UNCHANGED <<mirror, disk, exists, table, repoLock, push, sync, gpast>>
  BY DEF H!UpstreamPush
<1>2. PICK n \in H!Commit : n = commits + 1 /\ commits' = n
  <2>1. commits \in H!Commit
    BY GitTypes
  <2> QED
    BY <1>1, <2>1, BoundsAssumption DEF H!Commit
<1>3. upstream' \in H!Refs
  <2>1. PICK r \in GitRefs, v \in {0, n} : upstream' = [upstream EXCEPT ![r] = v]
    BY <1>2 DEF H!UpstreamPush
  <2>2. upstream \in H!Refs /\ v \in H!Commit
    BY <1>2, <2>1, GitTypes, GitFacts
  <2> QED
    BY <2>1, <2>2 DEF H!Refs
<1>4. H!HTypeOK'
  BY <1>1, <1>2, <1>3 DEF GitInv, H!HTypeOK
<1>5. PushHoldsLock' /\ OneWriter' /\ WalksFresh' /\ TableListed'
  BY <1>1 DEF GitInv, PushHoldsLock, OneWriter, WalksFresh, TableListed
<1> QED
  BY <1>4, <1>5 DEF GitInv

\* A step of the sync: what the pushes own stays.
LEMMA SyncMoves ==
    ASSUME GitInv, H!SyncFrame, mirror = "yes",
           sync' \in SyncRecord, disk' \in H!Refs, table' \in H!Refs, exists' \in {"yes", "no"},
           gpast' \subseteq {"stale", "partial"},
           exists' = "no" => disk' = H!NoRefs /\ sync'.pc = "idle",
           sync'.pc = "replace" => sync'.seen = disk',
           sync'.pc # "idle" => \A r \in GitRefs \ sync'.todo : disk'[r] = sync'.want[r],
           sync'.pc \in {"replace", "done"} => sync'.todo = {},
           gpast' = {} => table' = disk'
    PROVE  GitInv'
<1>1. H!HTypeOK'
  BY DEF GitInv, H!SyncFrame, H!HTypeOK, SyncRecord
<1>2. PushHoldsLock'
  BY DEF GitInv, H!SyncFrame, PushHoldsLock
<1>3. OneWriter'
  BY DEF GitInv, H!SyncFrame, OneWriter
<1>4. \A c \in Clients : push'[c].pc # "replace"
  BY DEF GitInv, H!SyncFrame, OneWriter
<1>5. WalksFresh' /\ TableListed'
  BY <1>4 DEF WalksFresh, TableListed
<1> QED
  BY <1>1, <1>2, <1>3, <1>5 DEF GitInv

LEMMA SyncBegins ==
    ASSUME GitInv, H!Handle
    PROVE  GitInv'
<1>1. /\ mirror = "yes" /\ exists' = "yes" /\ H!SyncFrame /\ UNCHANGED <<disk, table, gpast>>
      /\ sync' = [pc |-> "fetch", want |-> upstream, seen |-> H!NoRefs,
                  todo |-> {r \in GitRefs : disk[r] # upstream[r]}]
  BY DEF H!Handle
<1>2. disk \in H!Refs /\ table \in H!Refs /\ upstream \in H!Refs /\ H!NoRefs \in H!Refs
      /\ gpast \subseteq {"stale", "partial"}
  BY GitTypes, GitFacts
<1>3. sync' \in SyncRecord
  BY <1>1, <1>2 DEF SyncRecord
<1>4. sync'.pc = "fetch" /\ \A r \in GitRefs \ sync'.todo : disk'[r] = sync'.want[r]
  BY <1>1
<1>5. gpast' = {} => table' = disk'
  BY <1>1 DEF GitInv, TableListed
<1> QED
  BY <1>1, <1>2, <1>3, <1>4, <1>5, SyncMoves

\* While a sync is under way the repository is a mirror and is there.
LEMMA SyncIsMirror ==
    ASSUME GitInv, sync.pc # "idle"
    PROVE  mirror = "yes" /\ exists = "yes"
BY GitTypes DEF GitInv, OneWriter

LEMMA SyncFetches ==
    ASSUME GitInv, H!FetchContext
    PROVE  GitInv'
<1>1. /\ sync.pc = "fetch" /\ gpast' = gpast \cup {"stale"} /\ UNCHANGED <<exists, table>> /\ H!SyncFrame
  BY DEF H!FetchContext
<1>2. PICK r \in sync.todo : disk' = [disk EXCEPT ![r] = sync.want[r]]
                             /\ sync' = [sync EXCEPT !.todo = @ \ {r}]
  BY DEF H!FetchContext
<1>3. /\ sync \in SyncRecord /\ disk \in H!Refs /\ table \in H!Refs
      /\ gpast \subseteq {"stale", "partial"} /\ mirror = "yes" /\ exists = "yes"
  BY <1>1, GitTypes, SyncIsMirror
<1>4. sync' \in SyncRecord /\ sync'.pc = "fetch" /\ sync'.todo = sync.todo \ {r} /\ sync'.want = sync.want
  BY <1>1, <1>2, <1>3 DEF SyncRecord
<1>5. r \in GitRefs /\ sync.want \in H!Refs
  BY <1>2, <1>3 DEF SyncRecord
<1>6. disk' \in H!Refs /\ \A q \in GitRefs : disk'[q] = IF q = r THEN sync.want[r] ELSE disk[q]
  BY <1>2, <1>3, <1>5 DEF H!Refs
<1>7. \A q \in GitRefs \ sync'.todo : disk'[q] = sync'.want[q]
  BY <1>1, <1>4, <1>6 DEF GitInv, WalksFresh
<1>8. gpast' # {} /\ gpast' \subseteq {"stale", "partial"} /\ exists' = "yes" /\ table' \in H!Refs
  BY <1>1, <1>3
<1> QED
  BY <1>1, <1>3, <1>4, <1>6, <1>7, <1>8, SyncMoves

LEMMA SyncWalks ==
    ASSUME GitInv, H!walkMirrorRefs
    PROVE  GitInv'
<1>1. /\ sync.pc = "fetch" /\ sync.todo = {} /\ UNCHANGED <<disk, exists, table, gpast>> /\ H!SyncFrame
      /\ sync' = [sync EXCEPT !.pc = "replace", !.seen = disk]
  BY DEF H!walkMirrorRefs
<1>2. /\ sync \in SyncRecord /\ disk \in H!Refs /\ table \in H!Refs
      /\ gpast \subseteq {"stale", "partial"} /\ mirror = "yes" /\ exists = "yes"
  BY <1>1, GitTypes, SyncIsMirror
<1>3. /\ sync' \in SyncRecord /\ sync'.pc = "replace" /\ sync'.todo = {} /\ sync'.want = sync.want
      /\ sync'.seen = disk
  BY <1>1, <1>2 DEF SyncRecord
<1>4. \A q \in GitRefs \ sync'.todo : disk'[q] = sync'.want[q]
  BY <1>1, <1>3 DEF GitInv, WalksFresh
<1>5. gpast' = {} => table' = disk'
  BY <1>1 DEF GitInv, TableListed
<1> QED
  BY <1>1, <1>2, <1>3, <1>4, <1>5, SyncMoves

LEMMA SyncLists ==
    ASSUME GitInv, H!ReplaceAllTx
    PROVE  GitInv'
<1>1. /\ sync.pc = "replace" /\ UNCHANGED <<disk, exists>> /\ H!SyncFrame
      /\ table' = sync.seen /\ gpast' = {} /\ sync' = [sync EXCEPT !.pc = "done"]
  BY DEF H!ReplaceAllTx, H!ReplaceAll
<1>2. /\ sync \in SyncRecord /\ disk \in H!Refs /\ mirror = "yes" /\ exists = "yes"
  BY <1>1, GitTypes, SyncIsMirror
<1>3. sync.seen = disk /\ sync.todo = {} /\ \A q \in GitRefs \ sync.todo : disk[q] = sync.want[q]
  BY <1>1 DEF GitInv, WalksFresh
<1>4. sync' \in SyncRecord /\ sync'.pc = "done" /\ sync'.todo = {} /\ sync'.want = sync.want
  BY <1>1, <1>2, <1>3 DEF SyncRecord
<1>5. table' = disk' /\ \A q \in GitRefs \ sync'.todo : disk'[q] = sync'.want[q]
  BY <1>1, <1>3, <1>4
<1> QED
  BY <1>1, <1>2, <1>4, <1>5, SyncMoves

LEMMA SyncFails ==
    ASSUME GitInv, H!fail
    PROVE  GitInv'
<1>1. /\ sync.pc # "idle" /\ sync' = H!NoSync /\ gpast' = gpast \cup {"partial"}
      /\ UNCHANGED <<disk, exists, table>> /\ H!SyncFrame
  BY DEF H!fail
<1>2. /\ disk \in H!Refs /\ table \in H!Refs /\ gpast \subseteq {"stale", "partial"}
      /\ mirror = "yes" /\ exists = "yes"
  BY <1>1, GitTypes, SyncIsMirror
<1>3. sync' \in SyncRecord /\ sync'.pc = "idle"
  BY <1>1, GitFacts
<1> QED
  BY <1>1, <1>2, <1>3, SyncMoves

LEMMA GitRestarts ==
    ASSUME GitInv, H!Restart
    PROVE  GitInv'
<1>1. /\ push' = [c \in Clients |-> H!NoPush] /\ repoLock' = None
      /\ UNCHANGED <<mirror, disk, exists, table, upstream, commits>>
      /\ sync' = (IF sync.pc = "done" THEN sync ELSE H!NoSync)
      /\ gpast' = IF sync.pc \in {"fetch", "replace"} THEN gpast \cup {"partial"} ELSE gpast
  BY DEF H!Restart
<1>2. \A c \in Clients : push'[c].pc = "idle"
  BY <1>1, GitFacts
<1>3. sync' \in SyncRecord /\ ((sync' = sync /\ sync.pc = "done") \/ sync'.pc = "idle")
  BY <1>1, GitTypes, GitFacts
<1>4. H!HTypeOK'
  <2>1. H!HTypeOK /\ push' \in [Clients -> PushRecord] /\ gpast' \subseteq {"stale", "partial"}
    BY <1>1, GitTypes, GitFacts DEF GitInv
  <2> QED
    BY <1>1, <1>3, <2>1 DEF H!HTypeOK, PushRecord, SyncRecord
<1>5. PushHoldsLock'
  BY <1>1, <1>2, GitFacts DEF PushHoldsLock
<1>6. OneWriter'
  BY <1>1, <1>2, <1>3 DEF GitInv, OneWriter
<1>7. WalksFresh'
  BY <1>1, <1>2, <1>3 DEF GitInv, WalksFresh
<1>8. TableListed'
  <2>1. gpast' = {} => gpast = {}
    BY <1>1
  <2> QED
    BY <1>1, <2>1 DEF GitInv, TableListed
<1> QED
  BY <1>4, <1>5, <1>6, <1>7, <1>8 DEF GitInv

LEMMA GitStep ==
    ASSUME GitInv, H!HNext \/ UNCHANGED hvars
    PROVE  GitInv'
<1>1. CASE \E c \in Clients :
             \/ H!ResolveRepoFromURL(c) \/ H!PerRepoMutex(c) \/ H!RejectMirrorPush(c) \/ H!ReceivePack(c)
             \/ H!PushSizeLimit(c) \/ H!dispatchToBackend(c) \/ H!WalkAndReplace(c)
  BY <1>1, PushBegins, PushLocks, PushRejected, PushReceives, PushTooLarge, PushWalks, PushLists
<1>2. CASE \/ H!UpstreamPush \/ H!Handle \/ H!FetchContext \/ H!walkMirrorRefs \/ H!ReplaceAllTx
           \/ H!fail \/ H!Restart
  BY <1>2, UpstreamMoves, SyncBegins, SyncFetches, SyncWalks, SyncLists, SyncFails, GitRestarts
<1>3. CASE UNCHANGED hvars
  <2>1. H!HTypeOK'
    BY <1>3 DEF GitInv, H!HTypeOK, hvars
  <2>2. PushHoldsLock' /\ OneWriter' /\ WalksFresh' /\ TableListed'
    BY <1>3 DEF GitInv, PushHoldsLock, OneWriter, WalksFresh, TableListed, hvars
  <2> QED
    BY <2>1, <2>2 DEF GitInv
<1> QED
  BY <1>1, <1>2, <1>3 DEF H!HNext

LEMMA GitShows == ASSUME GitInv PROVE H!RefsListed
<1>1. SUFFICES ASSUME H!GitQuiet, gpast = {}
               PROVE  table = H!Advertised /\ (sync.pc = "done" => table = sync.want)
  BY DEF H!RefsListed
<1>2. table = disk /\ (exists = "no" => disk = H!NoRefs)
  BY <1>1 DEF GitInv, TableListed, OneWriter
<1>3. table = H!Advertised
  BY <1>2 DEF H!Advertised
<1>4. ASSUME sync.pc = "done" PROVE table = sync.want
  <2>1. \A r \in GitRefs : disk[r] = sync.want[r]
    BY <1>4 DEF GitInv, WalksFresh
  <2>2. disk \in H!Refs /\ sync.want \in H!Refs
    BY GitTypes DEF SyncRecord
  <2> QED
    BY <1>2, <2>1, <2>2 DEF H!Refs
<1> QED
  BY <1>3, <1>4

(* What the repository page lists is what a clone gets (git/middleware.go: *)
(* PerRepoMutex is held from the push to the rewrite of git_refs;          *)
(* sync_handler.go: one sync of a mirror at a time, and no push), and a    *)
(* successful sync lists what the upstream had: for every set of clients   *)
(* and references and every number of commits.                             *)
THEOREM RefsAlwaysListed == Spec => []RefsListed
<1>1. Init => (part = "git" => GitInv)
  BY GitInit DEF Init
<1>2. (part = "git" => GitInv) /\ [Next]_vars => (part = "git" => GitInv)'
  BY PartSteps, GitStep
<1>3. (part = "git" => GitInv) => RefsListed
  BY GitShows DEF RefsListed, GitInv
<1> QED
  BY <1>1, <1>2, <1>3, PTL DEF Spec

-----------------------------------------------------------------------------
(* The attempt limiter.                                                    *)

Bucket == [units : Int, updated : 0 .. MaxTicks, lastSeen : 0 .. MaxTicks]
Attempt == [pc : {"idle", "slot", "verify", "serve"}, once : {"no", "yes"}]
Window == [peer : Peers \cup {0}, from : 0 .. MaxTicks, passed : Nat]

(* A tracked peer has at least nothing and at most a full bucket.          *)
BucketsSound(t) ==
    \A p \in Peers : t[p] # Q!Outside => /\ 0 <= t[p].units /\ t[p].units <= Burst * 2
                                         /\ t[p].updated <= ticks

(* The tokens a watched peer took and those it has left are a full bucket  *)
(* and what flowed in since the window opened, up to its last attempt.     *)
WindowCounted(t, w) ==
    /\ w.from <= ticks
    /\ w.passed > 0 => /\ w.peer \in Peers /\ t[w.peer] # Q!Outside
                       /\ w.passed * 2 + t[w.peer].units <= Burst * 2 + (t[w.peer].updated - w.from)

TrackedIn(t) == {p \in Peers : t[p] # Q!Outside}
Verifying == {c \in Clients : try[c].pc = "verify"}

SlotsHeld ==
    /\ slots = Cardinality(Verifying)
    /\ \A c \in Clients : try[c].once = "yes" <=> try[c].pc = "serve"

LimiterInv ==
    /\ Q!QTypeOK /\ window \in Window
    /\ BucketsSound(buckets) /\ WindowCounted(buckets, window)
    /\ Cardinality(TrackedIn(buckets)) <= MaxPeers
    /\ SlotsHeld

LEMMA LimiterCardinality == \A S : Q!Cardinality(S) = Cardinality(S)
BY DEF Q!Cardinality, Cardinality

LEMMA LimiterTypes ==
    ASSUME LimiterInv
    PROVE  /\ buckets \in [Peers -> Bucket] /\ try \in [Clients -> Attempt] /\ window \in Window
           /\ ticks \in 0 .. MaxTicks /\ slots \in 0 .. MaxConcurrent
BY DEF LimiterInv, Q!QTypeOK, Bucket, Attempt

LEMMA OutsideIsBucket == Q!Outside \in Bucket /\ Q!Outside.units = -1 /\ Q!Unwatched \in Window
BY LimiterAssumption DEF Q!Outside, Q!Unwatched, Bucket, Window

LEMMA MinOfTwo ==
    ASSUME NEW a \in Int, NEW b \in Int
    PROVE  Q!Min({a, b}) \in {a, b} /\ Q!Min({a, b}) <= a /\ Q!Min({a, b}) <= b
<1>1. \E x \in {a, b} : \A y \in {a, b} : x <= y
  BY SMT
<1> QED
  BY <1>1 DEF Q!Min

\* A refilled bucket: at most full, at most what flowed in more than before.
LEMMA RefillFacts ==
    ASSUME NEW e \in Bucket, ticks \in 0 .. MaxTicks, 0 <= e.units, e.updated <= ticks
    PROVE  \E u \in Int : /\ Q!Refill(e) = [units |-> u, updated |-> ticks, lastSeen |-> ticks]
                          /\ 0 <= u /\ u <= Burst * 2 /\ u <= e.units + (ticks - e.updated)
<1>1. PICK a \in Int : a = e.units + (ticks - e.updated)
  BY LimiterAssumption DEF Bucket
<1>2. PICK b \in Int : b = Burst * 2
  BY LimiterAssumption
<1>3. 0 <= a /\ 0 <= b
  BY <1>1, <1>2, LimiterAssumption DEF Bucket
<1>4. PICK u : u = Q!Min({a, b})
  OBVIOUS
<1>5. u \in {a, b} /\ u <= a /\ u <= b
  BY <1>4, MinOfTwo
<1>6. Q!Refill(e) = [units |-> u, updated |-> ticks, lastSeen |-> ticks]
  BY <1>1, <1>2, <1>4 DEF Q!Refill, Q!Unit
<1>7. u \in Int /\ 0 <= u
  BY <1>3, <1>5
<1> QED
  BY <1>1, <1>2, <1>5, <1>6, <1>7

\* The peer's entry when it asks: refilled, or full at its first attempt.
LEMMA EntryFacts ==
    ASSUME NEW t \in [Peers -> Bucket], NEW p \in Peers, BucketsSound(t), ticks \in 0 .. MaxTicks
    PROVE  \E u \in Int :
             /\ Q!Refill(IF t[p] = Q!Outside THEN Q!NewPeer ELSE t[p])
                  = [units |-> u, updated |-> ticks, lastSeen |-> ticks]
             /\ 0 <= u /\ u <= Burst * 2
             /\ t[p] # Q!Outside => u <= t[p].units + (ticks - t[p].updated)
<1>1. CASE t[p] = Q!Outside
  <2>1. PICK b \in Int : b = Burst * 2 /\ 0 <= b
    BY LimiterAssumption
  <2>2. PICK e : e = [units |-> b, updated |-> ticks, lastSeen |-> ticks]
    OBVIOUS
  <2>3. e \in Bucket /\ 0 <= e.units /\ e.updated <= ticks
    BY <2>1, <2>2 DEF Bucket
  <2>4. Q!NewPeer = e
    BY <2>1, <2>2 DEF Q!NewPeer, Q!Unit
  <2> QED
    BY <1>1, <2>3, <2>4, RefillFacts
<1>2. CASE t[p] # Q!Outside
  <2>1. t[p] \in Bucket /\ 0 <= t[p].units /\ t[p].updated <= ticks
    BY <1>2 DEF BucketsSound
  <2> QED
    BY <1>2, <2>1, RefillFacts
<1> QED
  BY <1>1, <1>2

LEMMA TakeStep ==
    ASSUME NEW t \in [Peers -> Bucket], NEW w \in Window, NEW c \in Clients, NEW p \in Peers,
           BucketsSound(t), WindowCounted(t, w), ticks \in 0 .. MaxTicks, ticks' = ticks,
           Q!Take(c, p, t, w)
    PROVE  /\ buckets' \in [Peers -> Bucket] /\ window' \in Window
           /\ BucketsSound(buckets)' /\ WindowCounted(buckets, window)'
           /\ TrackedIn(buckets)' = TrackedIn(t) \cup {p}
           /\ try' = try \/ try' = [try EXCEPT ![c] = [pc |-> "slot", once |-> "no"]]
<1>1. PICK u \in Int :
        /\ Q!Refill(IF t[p] = Q!Outside THEN Q!NewPeer ELSE t[p])
             = [units |-> u, updated |-> ticks, lastSeen |-> ticks]
        /\ 0 <= u /\ u <= Burst * 2
        /\ t[p] # Q!Outside => u <= t[p].units + (ticks - t[p].updated)
  BY EntryFacts
<1>2. PICK e : e = [units |-> u, updated |-> ticks, lastSeen |-> ticks]
  OBVIOUS
<1>3. e \in Bucket /\ e.units = u /\ e.updated = ticks
  BY <1>2 DEF Bucket
<1>4. PICK g \in Bucket : buckets' = [t EXCEPT ![p] = g] /\ g.updated = ticks
        /\ 0 <= g.units /\ g.units <= u
        /\ \/ window' = w /\ try' = try
           \/ /\ g.units = u - 2
              /\ window' = IF p = w.peer THEN [w EXCEPT !.passed = @ + 1] ELSE w
              /\ try' = [try EXCEPT ![c] = [pc |-> "slot", once |-> "no"]]
  <2>1. \/ e.units < 2 /\ buckets' = [t EXCEPT ![p] = e] /\ window' = w /\ try' = try
        \/ /\ ~(e.units < 2)
           /\ buckets' = [t EXCEPT ![p] = [e EXCEPT !.units = @ - 2]]
           /\ window' = IF p = w.peer THEN [w EXCEPT !.passed = @ + 1] ELSE w
           /\ try' = [try EXCEPT ![c] = [pc |-> "slot", once |-> "no"]]
    BY <1>1, <1>2 DEF Q!Take, Q!Unit
  <2>2. CASE e.units < 2 /\ buckets' = [t EXCEPT ![p] = e] /\ window' = w /\ try' = try
    <3>1. 0 <= e.units /\ e.units <= u
      BY <1>1, <1>3
    <3> QED
      BY <1>3, <2>2, <3>1
  <2>3. CASE /\ ~(e.units < 2)
             /\ buckets' = [t EXCEPT ![p] = [e EXCEPT !.units = @ - 2]]
             /\ window' = IF p = w.peer THEN [w EXCEPT !.passed = @ + 1] ELSE w
             /\ try' = [try EXCEPT ![c] = [pc |-> "slot", once |-> "no"]]
    <3>1. PICK v \in Int : v = u - 2
      OBVIOUS
    <3>2. PICK g : g = [e EXCEPT !.units = v]
      OBVIOUS
    <3>3. g \in Bucket /\ g.units = v /\ g.updated = ticks
      BY <1>3, <3>2 DEF Bucket
    <3>4. buckets' = [t EXCEPT ![p] = g]
      BY <2>3, <1>3, <3>1, <3>2
    <3>5. 0 <= v /\ v <= u
      BY <1>3, <2>3, <3>1
    <3> QED
      BY <2>3, <3>1, <3>3, <3>4, <3>5
  <2> QED
    BY <2>1, <2>2, <2>3
<1>5. /\ buckets' \in [Peers -> Bucket] /\ buckets'[p] = g /\ g # Q!Outside
      /\ \A q \in Peers \ {p} : buckets'[q] = t[q]
  BY <1>4, OutsideIsBucket
<1>6. BucketsSound(buckets)'
  <2>1. \A q \in Peers : buckets'[q] # Q!Outside =>
          0 <= buckets'[q].units /\ buckets'[q].units <= Burst * 2 /\ buckets'[q].updated <= ticks'
    <3>1. SUFFICES ASSUME NEW q \in Peers, buckets'[q] # Q!Outside
                   PROVE  0 <= buckets'[q].units /\ buckets'[q].units <= Burst * 2 /\ buckets'[q].updated <= ticks'
      OBVIOUS
    <3>2. CASE q = p
      <4>1. g.units \in Int /\ Burst * 2 \in Int
        BY LimiterAssumption DEF Bucket
      <4> QED
        BY <1>1, <1>4, <1>5, <3>2, <4>1
    <3>3. CASE q # p
      BY <1>5, <3>1, <3>3 DEF BucketsSound
    <3> QED
      BY <3>2, <3>3
  <2> QED
    BY <2>1 DEF BucketsSound, Q!Outside
<1>7. TrackedIn(buckets)' = TrackedIn(t) \cup {p}
  BY <1>5 DEF TrackedIn, Q!Outside
<1>8. PICK n \in Nat : n = w.passed
  BY DEF Window
<1>9. CASE window' = w
  <2>1. WindowCounted(buckets, window)'
    <3>1. CASE w.passed > 0 /\ w.peer = p
      <4>1. /\ t[p] # Q!Outside /\ w.from <= ticks
            /\ w.passed * 2 + t[p].units <= Burst * 2 + (t[p].updated - w.from)
        BY <3>1 DEF WindowCounted
      <4>2. /\ t[p].units \in Int /\ t[p].updated \in Int /\ w.from \in Int /\ g.units \in Int
            /\ Burst * 2 \in Int
        BY LimiterAssumption DEF Bucket, Window
      <4>3. w.passed * 2 + g.units <= Burst * 2 + (ticks - w.from)
        BY <1>1, <1>4, <1>8, <4>1, <4>2
      <4> QED
        BY <1>4, <1>5, <1>9, <3>1, <4>1, <4>3 DEF WindowCounted, Q!Outside
    <3>2. CASE ~(w.passed > 0 /\ w.peer = p)
      BY <1>5, <1>9, <3>2 DEF WindowCounted, Q!Outside
    <3> QED
      BY <3>1, <3>2
  <2> QED
    BY <1>4, <1>5, <1>6, <1>7, <1>9, <2>1
<1>10. CASE window' # w
  <2>1. w.peer = p /\ g.units = u - 2 /\ window' = [w EXCEPT !.passed = @ + 1]
    BY <1>4, <1>10
  <2>2. PICK m \in Nat : m = n + 1
    OBVIOUS
  <2>3. window' \in Window /\ window'.passed = m /\ window'.peer = p /\ window'.from = w.from
    BY <1>8, <2>1, <2>2 DEF Window
  <2>4. w.from \in Int /\ g.units \in Int /\ Burst * 2 \in Int /\ w.from <= ticks
    BY LimiterAssumption DEF Window, WindowCounted, Bucket
  <2>5. m * 2 + g.units <= Burst * 2 + (ticks - w.from)
    <3>1. CASE w.passed > 0
      <4>1. t[p] # Q!Outside /\ n * 2 + t[p].units <= Burst * 2 + (t[p].updated - w.from)
        BY <1>8, <2>1, <3>1 DEF WindowCounted
      <4>2. t[p].units \in Int /\ t[p].updated \in Int
        BY DEF Bucket
      <4> QED
        BY <1>1, <2>1, <2>2, <2>4, <4>1, <4>2
    <3>2. CASE ~(w.passed > 0)
      BY <1>1, <1>8, <2>1, <2>2, <2>4, <3>2
    <3> QED
      BY <3>1, <3>2
  <2>6. WindowCounted(buckets, window)'
    BY <1>4, <1>5, <2>3, <2>4, <2>5 DEF WindowCounted, Q!Outside
  <2> QED
    BY <1>4, <1>5, <1>6, <1>7, <2>3, <2>6
<1> QED
  BY <1>9, <1>10

\* The slots while no request starts or ends a verification.
LEMMA SlotsSame ==
    ASSUME LimiterInv, NEW c \in Clients, slots' = slots, try[c].pc # "verify",
           NEW r \in Attempt, try' = [try EXCEPT ![c] = r], r.pc # "verify",
           r.once = "yes" <=> r.pc = "serve"
    PROVE  SlotsHeld' /\ try' \in [Clients -> Attempt]
<1>1. try \in [Clients -> Attempt]
  BY LimiterTypes
<1>2. \A d \in Clients : try'[d] = IF d = c THEN r ELSE try[d]
  BY <1>1
<1>3. Verifying' = Verifying
  BY <1>2 DEF Verifying
<1>4. \A d \in Clients : try'[d].once = "yes" <=> try'[d].pc = "serve"
  BY <1>2 DEF LimiterInv, SlotsHeld
<1>5. SlotsHeld'
  BY <1>3, <1>4 DEF LimiterInv, SlotsHeld
<1> QED
  BY <1>1, <1>5

LEMMA AcquireKeeps ==
    ASSUME LimiterInv, NEW c \in Clients, NEW p \in Peers, Q!Acquire(c, p)
    PROVE  LimiterInv'
<1>1. try[c] = Q!NoTry /\ UNCHANGED <<ticks, slots>>
  BY DEF Q!Acquire
<1>2. /\ buckets \in [Peers -> Bucket] /\ try \in [Clients -> Attempt] /\ window \in Window
      /\ ticks \in 0 .. MaxTicks /\ slots \in 0 .. MaxConcurrent
  BY LimiterTypes
<1>3. /\ BucketsSound(buckets) /\ WindowCounted(buckets, window)
      /\ Cardinality(TrackedIn(buckets)) <= MaxPeers /\ Q!Tracked = TrackedIn(buckets)
  BY DEF LimiterInv, TrackedIn, Q!Tracked
<1>4. /\ IsFiniteSet(TrackedIn(buckets)) /\ Cardinality(TrackedIn(buckets)) \in Nat
  <2>1. TrackedIn(buckets) \in SUBSET Peers
    BY DEF TrackedIn
  <2> QED
    BY <2>1, LimiterAssumption, FS_Subset, FS_CardinalityType
<1>5. /\ buckets' \in [Peers -> Bucket] /\ window' \in Window
      /\ BucketsSound(buckets)' /\ WindowCounted(buckets, window)'
      /\ try' = try \/ try' = [try EXCEPT ![c] = [pc |-> "slot", once |-> "no"]]
      /\ Cardinality(TrackedIn(buckets)') <= MaxPeers
  <2>1. CASE p \notin Q!Tracked /\ Q!Cardinality(Q!Tracked) >= MaxPeers
    <3>1. PICK o \in Q!evictOldestLocked :
            Q!Take(c, p, [buckets EXCEPT ![o] = Q!Outside], IF o = window.peer THEN Q!Unwatched ELSE window)
      BY <2>1 DEF Q!Acquire
    <3>2. o \in TrackedIn(buckets) /\ o \in Peers
      BY <3>1 DEF Q!evictOldestLocked, Q!Tracked, TrackedIn
    <3>3. PICK t : t = [buckets EXCEPT ![o] = Q!Outside]
      OBVIOUS
    <3>4. PICK w : w = IF o = window.peer THEN Q!Unwatched ELSE window
      OBVIOUS
    <3>5. t \in [Peers -> Bucket] /\ w \in Window /\ \A q \in Peers : t[q] = IF q = o THEN Q!Outside ELSE buckets[q]
      BY <1>2, <3>2, <3>3, <3>4, OutsideIsBucket
    <3>6. BucketsSound(t)
      BY <1>3, <3>5 DEF BucketsSound
    <3>7. WindowCounted(t, w)
      <4>1. CASE o = window.peer
        BY <1>2, <3>4, <4>1 DEF WindowCounted, Q!Unwatched
      <4>2. CASE o # window.peer
        BY <1>3, <3>4, <3>5, <4>2 DEF WindowCounted
      <4> QED
        BY <4>1, <4>2
    <3>8. TrackedIn(t) = TrackedIn(buckets) \ {o}
      BY <3>5 DEF TrackedIn
    <3>9. Q!Take(c, p, t, w)
      BY <3>1, <3>3, <3>4
    <3>10. /\ buckets' \in [Peers -> Bucket] /\ window' \in Window
           /\ BucketsSound(buckets)' /\ WindowCounted(buckets, window)'
           /\ TrackedIn(buckets)' = TrackedIn(t) \cup {p}
           /\ try' = try \/ try' = [try EXCEPT ![c] = [pc |-> "slot", once |-> "no"]]
      BY <1>1, <1>2, <3>5, <3>6, <3>7, <3>9, TakeStep
    <3>11. IsFiniteSet(TrackedIn(t)) /\ Cardinality(TrackedIn(t)) = Cardinality(TrackedIn(buckets)) - 1
      BY <1>4, <3>2, <3>8, FS_RemoveElement
    <3>12. Cardinality(TrackedIn(t) \cup {p}) <= Cardinality(TrackedIn(t)) + 1
      <4>1. Cardinality(TrackedIn(t)) \in Int
        BY <1>4, <3>11
      <4> QED
        BY <3>11, <4>1, FS_AddElement
    <3>13. Cardinality(TrackedIn(t) \cup {p}) \in Int
      BY <1>4, <3>11, FS_AddElement
    <3> QED
      BY <1>3, <1>4, <3>10, <3>11, <3>12, <3>13, LimiterAssumption
  <2>2. CASE ~(p \notin Q!Tracked /\ Q!Cardinality(Q!Tracked) >= MaxPeers)
    <3>1. Q!Take(c, p, buckets, window)
      BY <2>2 DEF Q!Acquire
    <3>2. /\ buckets' \in [Peers -> Bucket] /\ window' \in Window
          /\ BucketsSound(buckets)' /\ WindowCounted(buckets, window)'
          /\ TrackedIn(buckets)' = TrackedIn(buckets) \cup {p}
          /\ try' = try \/ try' = [try EXCEPT ![c] = [pc |-> "slot", once |-> "no"]]
      BY <1>1, <1>2, <1>3, <3>1, TakeStep
    <3>3. Cardinality(TrackedIn(buckets) \cup {p})
            = IF p \in TrackedIn(buckets) THEN Cardinality(TrackedIn(buckets))
                                          ELSE Cardinality(TrackedIn(buckets)) + 1
      BY <1>4, FS_AddElement
    <3>4. p \in TrackedIn(buckets) \/ ~(Cardinality(TrackedIn(buckets)) >= MaxPeers)
      BY <1>3, <2>2, LimiterCardinality
    <3>5. Cardinality(TrackedIn(buckets) \cup {p}) <= MaxPeers
      BY <1>3, <1>4, <3>3, <3>4, LimiterAssumption
    <3> QED
      BY <3>2, <3>5
  <2> QED
    BY <2>1, <2>2
<1>6. SlotsHeld' /\ try' \in [Clients -> Attempt]
  <2>1. try[c].pc = "idle"
    BY <1>1 DEF Q!NoTry
  <2>2. CASE try' = try
    BY <1>1, <1>2, <2>2 DEF LimiterInv, SlotsHeld, Verifying
  <2>3. CASE try' = [try EXCEPT ![c] = [pc |-> "slot", once |-> "no"]]
    <3>1. PICK r : r = [pc |-> "slot", once |-> "no"]
      OBVIOUS
    <3>2. r \in Attempt /\ r.pc = "slot" /\ r.once = "no"
      BY <3>1 DEF Attempt
    <3>3. try' = [try EXCEPT ![c] = r]
      BY <2>3, <3>1
    <3> QED
      BY <1>1, <2>1, <3>2, <3>3, SlotsSame
  <2> QED
    BY <1>5, <2>2, <2>3
<1>7. Q!QTypeOK'
  BY <1>1, <1>2, <1>5, <1>6 DEF Q!QTypeOK, Bucket, Attempt
<1> QED
  BY <1>5, <1>6, <1>7 DEF LimiterInv

\* A step that touches neither buckets nor the window.
LEMMA PermitsOnly ==
    ASSUME LimiterInv, UNCHANGED <<ticks, buckets, window>>, SlotsHeld', slots' \in 0 .. MaxConcurrent,
           try' \in [Clients -> Attempt]
    PROVE  LimiterInv'
<1>1. Q!QTypeOK'
  BY DEF LimiterInv, Q!QTypeOK, Attempt
<1>2. window' \in Window /\ BucketsSound(buckets)' /\ WindowCounted(buckets, window)'
      /\ Cardinality(TrackedIn(buckets)') <= MaxPeers
  BY DEF LimiterInv, BucketsSound, WindowCounted, TrackedIn, Q!Outside
<1> QED
  BY <1>1, <1>2 DEF LimiterInv

\* The number of verifications when one begins, and when one ends.
LEMMA VerifyBegins ==
    ASSUME LimiterInv, NEW c \in Clients, try[c].pc = "slot", slots < MaxConcurrent, slots' = slots + 1,
           try' = [try EXCEPT ![c].pc = "verify"]
    PROVE  SlotsHeld' /\ try' \in [Clients -> Attempt] /\ slots' \in 0 .. MaxConcurrent
<1>1. /\ try \in [Clients -> Attempt] /\ slots \in 0 .. MaxConcurrent /\ slots = Cardinality(Verifying)
      /\ \A d \in Clients : try[d].once = "yes" <=> try[d].pc = "serve"
  BY LimiterTypes DEF LimiterInv, SlotsHeld
<1>2. PICK r : r = [try[c] EXCEPT !.pc = "verify"]
  OBVIOUS
<1>3. r \in Attempt /\ r.pc = "verify" /\ r.once = try[c].once
  BY <1>1, <1>2 DEF Attempt
<1>4. try' \in [Clients -> Attempt] /\ \A d \in Clients : try'[d] = IF d = c THEN r ELSE try[d]
  BY <1>1, <1>2, <1>3
<1>5. Verifying' = Verifying \cup {c} /\ c \notin Verifying
  BY <1>3, <1>4 DEF Verifying
<1>6. IsFiniteSet(Verifying)
  <2>1. Verifying \in SUBSET Clients
    BY DEF Verifying
  <2> QED
    BY <2>1, FS_Subset, LimiterAssumption
<1>7. Cardinality(Verifying') = Cardinality(Verifying) + 1
  BY <1>5, <1>6, FS_AddElement
<1>8. \A d \in Clients : try'[d].once = "yes" <=> try'[d].pc = "serve"
  BY <1>1, <1>3, <1>4
<1>9. slots' \in 0 .. MaxConcurrent
  BY <1>1, LimiterAssumption
<1> QED
  BY <1>1, <1>4, <1>7, <1>8, <1>9 DEF SlotsHeld

LEMMA VerifyEnds ==
    ASSUME LimiterInv, NEW c \in Clients, try[c].pc = "verify", Q!Release(c),
           NEW r \in Attempt, try' = [try EXCEPT ![c] = r], r.pc # "verify",
           r.once = "yes" <=> r.pc = "serve"
    PROVE  SlotsHeld' /\ try' \in [Clients -> Attempt] /\ slots' \in 0 .. MaxConcurrent
<1>1. /\ try \in [Clients -> Attempt] /\ slots \in 0 .. MaxConcurrent /\ slots = Cardinality(Verifying)
      /\ \A d \in Clients : try[d].once = "yes" <=> try[d].pc = "serve"
  BY LimiterTypes DEF LimiterInv, SlotsHeld
<1>2. slots' = slots - 1
  BY <1>1 DEF Q!Release, Attempt
<1>3. try' \in [Clients -> Attempt] /\ \A d \in Clients : try'[d] = IF d = c THEN r ELSE try[d]
  BY <1>1
<1>4. Verifying' = Verifying \ {c} /\ c \in Verifying
  BY <1>3 DEF Verifying
<1>5. IsFiniteSet(Verifying) /\ IsFiniteSet(Verifying \ {c})
  <2>1. Verifying \in SUBSET Clients
    BY DEF Verifying
  <2>2. IsFiniteSet(Verifying)
    BY <2>1, FS_Subset, LimiterAssumption
  <2> QED
    BY <2>2, FS_RemoveElement
<1>6. Cardinality(Verifying') = Cardinality(Verifying) - 1 /\ Cardinality(Verifying') \in Nat
  <2>1. Cardinality(Verifying \ {c}) = Cardinality(Verifying) - 1
    BY <1>4, <1>5, FS_RemoveElement
  <2>2. Cardinality(Verifying \ {c}) \in Nat
    BY <1>5, FS_CardinalityType
  <2> QED
    BY <1>4, <2>1, <2>2
<1>7. \A d \in Clients : try'[d].once = "yes" <=> try'[d].pc = "serve"
  BY <1>1, <1>3
<1>8. slots' \in 0 .. MaxConcurrent
  BY <1>1, <1>2, <1>6, LimiterAssumption
<1> QED
  BY <1>1, <1>2, <1>3, <1>6, <1>7, <1>8 DEF SlotsHeld

LEMMA SlotKeeps ==
    ASSUME LimiterInv, NEW c \in Clients, Q!AcquireSlot(c)
    PROVE  LimiterInv'
<1>1. try[c].pc = "slot" /\ UNCHANGED <<ticks, buckets, window>>
  BY DEF Q!AcquireSlot
<1>2. slots \in 0 .. MaxConcurrent
  BY LimiterTypes
<1>3. CASE slots < MaxConcurrent
  <2>1. slots' = slots + 1 /\ try' = [try EXCEPT ![c].pc = "verify"]
    BY <1>3 DEF Q!AcquireSlot
  <2> QED
    BY <1>1, <1>3, <2>1, VerifyBegins, PermitsOnly
<1>4. CASE ~(slots < MaxConcurrent)
  <2>1. slots' = slots /\ try' = [try EXCEPT ![c] = Q!NoTry]
    BY <1>4 DEF Q!AcquireSlot
  <2>2. Q!NoTry \in Attempt /\ Q!NoTry.pc = "idle" /\ Q!NoTry.once = "no"
    BY DEF Q!NoTry, Attempt
  <2>3. SlotsHeld' /\ try' \in [Clients -> Attempt]
    BY <1>1, <2>1, <2>2, SlotsSame
  <2> QED
    BY <1>1, <1>2, <2>1, <2>3, PermitsOnly
<1> QED
  BY <1>3, <1>4

LEMMA EarlyReleaseKeeps ==
    ASSUME LimiterInv, NEW c \in Clients, Q!releaseAttemptPermit(c)
    PROVE  LimiterInv'
<1>1. /\ try[c].pc = "verify" /\ Q!Release(c) /\ UNCHANGED <<ticks, buckets, window>>
      /\ try' = [try EXCEPT ![c] = [pc |-> "serve", once |-> "yes"]]
  BY DEF Q!releaseAttemptPermit
<1>2. PICK r : r = [pc |-> "serve", once |-> "yes"]
  OBVIOUS
<1>3. r \in Attempt /\ r.pc = "serve" /\ r.once = "yes"
  BY <1>2 DEF Attempt
<1>4. try' = [try EXCEPT ![c] = r]
  BY <1>1, <1>2
<1> QED
  BY <1>1, <1>3, <1>4, VerifyEnds, PermitsOnly

LEMMA DeferredReleaseKeeps ==
    ASSUME LimiterInv, NEW c \in Clients, Q!PasswordAttemptThrottle(c)
    PROVE  LimiterInv'
<1>1. /\ try[c].pc \in {"verify", "serve"} /\ Q!Release(c) /\ UNCHANGED <<ticks, buckets, window>>
      /\ try' = [try EXCEPT ![c] = Q!NoTry]
  BY DEF Q!PasswordAttemptThrottle
<1>2. Q!NoTry \in Attempt /\ Q!NoTry.pc = "idle" /\ Q!NoTry.once = "no"
  BY DEF Q!NoTry, Attempt
<1>3. CASE try[c].pc = "verify"
  BY <1>1, <1>2, <1>3, VerifyEnds, PermitsOnly
<1>4. CASE try[c].pc = "serve"
  <2>1. slots' = slots /\ slots \in 0 .. MaxConcurrent
    BY <1>1, <1>4, LimiterTypes DEF Q!Release, LimiterInv, SlotsHeld
  <2>2. SlotsHeld' /\ try' \in [Clients -> Attempt]
    BY <1>1, <1>2, <1>4, <2>1, SlotsSame
  <2> QED
    BY <1>1, <2>1, <2>2, PermitsOnly
<1> QED
  BY <1>1, <1>3, <1>4

LEMMA TickKeeps == ASSUME LimiterInv, Q!Tick PROVE LimiterInv'
<1>1. ticks < MaxTicks /\ ticks' = ticks + 1 /\ UNCHANGED <<buckets, slots, try, window>>
  BY DEF Q!Tick
<1>2. buckets \in [Peers -> Bucket] /\ window \in Window /\ ticks \in 0 .. MaxTicks
  BY LimiterTypes
<1>3. ticks' \in 0 .. MaxTicks /\ \A n \in 0 .. MaxTicks : n <= ticks => n <= ticks'
  BY <1>1, <1>2, LimiterAssumption
<1>4. Q!QTypeOK'
  BY <1>1, <1>3 DEF LimiterInv, Q!QTypeOK
<1>5. BucketsSound(buckets)'
  BY <1>1, <1>2, <1>3 DEF LimiterInv, BucketsSound, Bucket, Q!Outside
<1>6. WindowCounted(buckets, window)'
  BY <1>1, <1>2, <1>3 DEF LimiterInv, WindowCounted, Window, Q!Outside
<1>7. SlotsHeld' /\ Cardinality(TrackedIn(buckets)') <= MaxPeers
  BY <1>1 DEF LimiterInv, SlotsHeld, Verifying, TrackedIn, Q!Outside
<1> QED
  BY <1>1, <1>4, <1>5, <1>6, <1>7 DEF LimiterInv

LEMMA WatchKeeps == ASSUME LimiterInv, NEW p \in Peers, Q!Watch(p) PROVE LimiterInv'
<1>1. window' = [peer |-> p, from |-> ticks, passed |-> 0] /\ UNCHANGED <<ticks, buckets, slots, try>>
  BY DEF Q!Watch
<1>2. ticks \in 0 .. MaxTicks
  BY LimiterTypes
<1>3. window' \in Window /\ window'.from = ticks /\ window'.passed = 0
  BY <1>1, <1>2 DEF Window
<1>4. WindowCounted(buckets, window)'
  BY <1>1, <1>2, <1>3 DEF WindowCounted
<1>5. Q!QTypeOK'
  BY <1>1 DEF LimiterInv, Q!QTypeOK
<1>6. BucketsSound(buckets)' /\ SlotsHeld' /\ Cardinality(TrackedIn(buckets)') <= MaxPeers
  BY <1>1 DEF LimiterInv, BucketsSound, SlotsHeld, Verifying, TrackedIn, Q!Outside
<1> QED
  BY <1>3, <1>4, <1>5, <1>6 DEF LimiterInv

LEMMA LimiterInit == ASSUME Q!QInit PROVE LimiterInv
<1>1. /\ ticks = 0 /\ buckets = [p \in Peers |-> Q!Outside] /\ slots = 0
      /\ try = [c \in Clients |-> Q!NoTry] /\ window = Q!Unwatched
  BY DEF Q!QInit
<1>2. Q!NoTry \in Attempt /\ Q!NoTry.pc = "idle" /\ Q!NoTry.once = "no"
  BY DEF Q!NoTry, Attempt
<1>3. buckets \in [Peers -> Bucket] /\ try \in [Clients -> Attempt]
  BY <1>1, <1>2, OutsideIsBucket
<1>4. ticks \in 0 .. MaxTicks /\ slots \in 0 .. MaxConcurrent
  BY <1>1, LimiterAssumption
<1>5. Q!QTypeOK
  BY <1>3, <1>4 DEF Q!QTypeOK, Bucket, Attempt
<1>6. TrackedIn(buckets) = {} /\ Verifying = {}
  BY <1>1, <1>2 DEF TrackedIn, Verifying
<1>7. Cardinality(TrackedIn(buckets)) <= MaxPeers
  BY <1>6, FS_EmptySet, LimiterAssumption
<1>8. SlotsHeld
  BY <1>1, <1>2, <1>6, FS_EmptySet DEF SlotsHeld
<1>9. window \in Window /\ WindowCounted(buckets, window)
  BY <1>1, OutsideIsBucket DEF WindowCounted, Q!Unwatched
<1>10. BucketsSound(buckets)
  BY <1>1 DEF BucketsSound
<1> QED
  BY <1>5, <1>7, <1>8, <1>9, <1>10 DEF LimiterInv

LEMMA LimiterStep == ASSUME LimiterInv, Q!QNext \/ UNCHANGED qvars PROVE LimiterInv'
<1>1. CASE UNCHANGED qvars
  <2>1. UNCHANGED <<ticks, buckets, window, slots, try>>
    BY <1>1 DEF qvars
  <2>2. SlotsHeld' /\ slots' \in 0 .. MaxConcurrent /\ try' \in [Clients -> Attempt]
    BY <2>1, LimiterTypes DEF LimiterInv, SlotsHeld, Verifying
  <2> QED
    BY <2>1, <2>2, PermitsOnly
<1>2. CASE Q!QNext
  BY <1>2, TickKeeps, WatchKeeps, AcquireKeeps, SlotKeeps, EarlyReleaseKeeps, DeferredReleaseKeeps
  DEF Q!QNext
<1> QED
  BY <1>1, <1>2

LEMMA LimiterShows == ASSUME LimiterInv PROVE Q!AttemptsBounded
<1>1. /\ buckets \in [Peers -> Bucket] /\ window \in Window
      /\ ticks \in 0 .. MaxTicks /\ slots \in 0 .. MaxConcurrent
  BY LimiterTypes
<1>2. window.passed * 2 <= Burst * 2 + (ticks - window.from)
  <2>1. /\ window.passed \in Nat /\ window.from \in Int /\ window.from <= ticks /\ Burst * 2 \in Nat
        /\ ticks \in Int
    BY <1>1, LimiterAssumption DEF LimiterInv, WindowCounted, Window
  <2>2. CASE window.passed > 0
    <3>1. PICK b \in Bucket : b = buckets[window.peer] /\ 0 <= b.units /\ b.updated <= ticks
            /\ window.passed * 2 + b.units <= Burst * 2 + (b.updated - window.from)
      BY <1>1, <2>2 DEF LimiterInv, WindowCounted, BucketsSound
    <3>2. b.units \in Int /\ b.updated \in Int
      BY DEF Bucket
    <3> QED
      BY <2>1, <3>1, <3>2
  <2>3. CASE ~(window.passed > 0)
    BY <2>1, <2>3
  <2> QED
    BY <2>2, <2>3
<1>3. slots = Cardinality(Verifying) /\ slots <= MaxConcurrent /\ Cardinality(TrackedIn(buckets)) <= MaxPeers
  BY <1>1, LimiterAssumption DEF LimiterInv, SlotsHeld
<1> QED
  BY <1>2, <1>3, LimiterCardinality DEF Q!AttemptsBounded, Q!Unit, Q!Tracked, TrackedIn, Verifying

(* AttemptLimiter: in a window of time a peer that is not evicted gets at  *)
(* most a full bucket and what flowed in; a permit released twice gives    *)
(* one slot back; table and slots keep their limits.  For every burst,     *)
(* table size and number of slots (attempt_limiter.go:56, 87, 106).        *)
THEOREM AttemptsStayBounded == Spec => []AttemptsBounded
<1>1. Init => (part = "limiter" => LimiterInv)
  BY LimiterInit DEF Init
<1>2. (part = "limiter" => LimiterInv) /\ [Next]_vars => (part = "limiter" => LimiterInv)'
  BY PartSteps, LimiterStep
<1>3. (part = "limiter" => LimiterInv) => AttemptsBounded
  BY LimiterShows DEF AttemptsBounded, LimiterInv
<1> QED
  BY <1>1, <1>2, <1>3, PTL DEF Spec

-----------------------------------------------------------------------------
(* The S3 gateway.                                                         *)

S3Request == [op : B!Ops \cup {"idle", "create"}, b : Buckets \cup {None},
              pc : {"idle", "read", "resolve", "lock", "tx", "commit", "unlink", "mkdir", "row", "clean"},
              i : Uploads \cup {None}, v : B!Content, e : B!Content, cond : B!Conds, old : B!Content]
S3Upload == [row : {"none", "open", "gone"}, b : Buckets \cup {None}, part : B!Content, staged : B!Content]

Locking == {"commit", "unlink", "row"}

(* What a request has resolved by the step it is at.                       *)
Resolved(r) ==
    /\ r.op \in {"start", "part", "complete", "abort"} => r.i \in Uploads
    /\ r.op = "complete" => r.e # 0
    /\ r.pc \in {"commit", "unlink", "tx", "mkdir"} => r.b \in Buckets
    /\ r.pc = "lock" /\ r.op \in {"put", "copy", "delete", "complete"} => r.b \in Buckets
    /\ r.pc = "row" => r.op = "part"
    /\ r.pc = "tx" => r.op \in {"start", "abort"}
    /\ r.pc = "clean" => r.op = "abort"
    /\ r.pc = "unlink" => r.op = "delete"

RequestsResolved == \A c \in Clients : Resolved(breq[c])

LockHeld == \A c \in Clients : breq[c].pc \in Locking <=> block = c

RowsDropped == \A b \in Buckets : ~B!RowExists(b) => obj[b] = 0

(* The parts of an upload go with its row, which never comes back; an      *)
(* upload that was published has no row.                                   *)
UploadSound(u, n) ==
    /\ u.row # "open" => u.part = 0
    /\ u.row = "open" => u.b \in Buckets
    /\ n \in {0, 1}
    /\ n = 1 => u.row = "gone"

UploadsSound == \A i \in Uploads : UploadSound(up[i], published[i])

(* A part's file is what its row says, unless its row is being written.    *)
PartsStaged ==
    /\ \A i \in Uploads :
         up[i].part # 0 /\ (\A c \in Clients : breq[c].pc = "row" => breq[c].i # i)
           => up[i].staged \in {up[i].part, B!Torn, 0}
    /\ \A c \in Clients : breq[c].pc = "row" => up[breq[c].i].staged \in {breq[c].v, 0}

(* The rows of the buckets not touched through another id have content x.  *)
RowsHave(x) ==
    \A b \in Buckets \ foreign : B!RowExists(b) /\ obj[b] # 0 => x \in {obj[b], B!Torn}

(* The file belongs to the rows, or the lock's holder is about to make it  *)
(* so: by its commit, by putting the old file back, or by the unlink.      *)
FileBelongs ==
    /\ (\A c \in Clients : breq[c].pc \notin {"commit", "unlink"}) => RowsHave(bfile)
    /\ \A c \in Clients : breq[c].pc = "commit" =>
         /\ bfile = breq[c].v /\ breq[c].v \in {breq[c].e, B!Torn} /\ RowsHave(breq[c].old)
         /\ breq[c].op = "complete" => up[breq[c].i].row # "none" /\ published[breq[c].i] = 0
    /\ \A c \in Clients : breq[c].pc = "unlink" => obj[breq[c].b] = 0

S3Inv ==
    /\ B!S3TypeOK /\ RequestsResolved /\ LockHeld /\ RowsDropped /\ UploadsSound
    /\ PartsStaged /\ FileBelongs

LEMMA S3Facts ==
    /\ 0 \in B!Content /\ B!Torn \in B!Content /\ B!Torn # 0
    /\ B!Idle \in S3Request /\ B!Idle.pc = "idle" /\ B!Idle.op = "idle" /\ Resolved(B!Idle)
    /\ B!NoUpload \in S3Upload /\ None \notin Clients
<1>1. 0 \in B!Content /\ B!Torn \in B!Content /\ B!Torn # 0
  BY BoundsAssumption DEF B!Content, B!Torn
<1>2. B!Idle \in S3Request /\ B!Idle.pc = "idle" /\ B!Idle.op = "idle"
  BY <1>1 DEF B!Idle, S3Request, B!Conds
<1>3. Resolved(B!Idle)
  BY <1>2 DEF Resolved
<1>4. B!NoUpload \in S3Upload
  BY <1>1 DEF B!NoUpload, S3Upload
<1> QED
  BY <1>1, <1>2, <1>3, <1>4, ClientsAssumption

LEMMA S3Types ==
    ASSUME S3Inv
    PROVE  /\ breq \in [Clients -> S3Request] /\ up \in [Uploads -> S3Upload]
           /\ bst \in [Buckets -> {"none", "live", "deleted", "gone"}]
           /\ obj \in [Buckets -> B!Content] /\ bfile \in B!Content
           /\ block \in Clients \cup {None} /\ fresh \in 0 .. MaxContent
           /\ foreign \subseteq Buckets /\ published \in [Uploads -> Nat]
BY DEF S3Inv, B!S3TypeOK, S3Request, S3Upload

LEMMA S3Initial == ASSUME B!S3Init PROVE S3Inv
<1>1. /\ bst = [b \in Buckets |-> "none"] /\ obj = [b \in Buckets |-> 0] /\ bfile = 0
      /\ up = [i \in Uploads |-> B!NoUpload] /\ block = None /\ breq = [c \in Clients |-> B!Idle]
      /\ fresh = 0 /\ foreign = {} /\ published = [i \in Uploads |-> 0]
  BY DEF B!S3Init
<1>2. fresh \in 0 .. MaxContent
  BY <1>1, BoundsAssumption
<1>3. B!S3TypeOK
  BY <1>1, <1>2, S3Facts DEF B!S3TypeOK, S3Request, S3Upload
<1>4. RequestsResolved /\ LockHeld
  BY <1>1, S3Facts DEF RequestsResolved, LockHeld, Locking
<1>5. RowsDropped /\ UploadsSound
  BY <1>1 DEF RowsDropped, UploadsSound, UploadSound, B!NoUpload
<1>6. PartsStaged /\ FileBelongs
  BY <1>1, S3Facts DEF PartsStaged, FileBelongs, RowsHave, B!NoUpload
<1> QED
  BY <1>3, <1>4, <1>5, <1>6 DEF S3Inv

(* What a step without the lock may do to an upload.                       *)
MayBecome(u, w) ==
    /\ w.row # "open" => w.part = 0
    /\ w.row = "open" => w.b \in Buckets
    /\ u.row # "none" => w.row # "none"
    /\ u.row = "gone" => w.row = "gone"
    /\ w.part \in {u.part, 0} /\ w.staged \in {u.staged, 0}

\* Steps that do not take or give back the lock: rows are dropped, uploads
\* move on, requests that hold no lock proceed.
LEMMA WithoutLock ==
    ASSUME S3Inv, UNCHANGED <<bfile, block, foreign, published>>, fresh' \in 0 .. MaxContent,
           breq' \in [Clients -> S3Request],
           \A c \in Clients : \/ breq'[c] = breq[c]
                              \/ /\ breq[c].pc \notin Locking /\ breq'[c].pc \notin Locking
                                 /\ Resolved(breq'[c]),
           bst' \in [Buckets -> {"none", "live", "deleted", "gone"}],
           obj' \in [Buckets -> B!Content],
           \A b \in Buckets : obj'[b] # 0 => obj'[b] = obj[b] /\ B!RowExists(b)' /\ B!RowExists(b),
           up' \in [Uploads -> S3Upload], \A i \in Uploads : MayBecome(up[i], up'[i])
    PROVE  S3Inv'
<1>1. B!S3TypeOK'
  BY DEF S3Inv, B!S3TypeOK, S3Request, S3Upload
<1>2. RequestsResolved' /\ LockHeld'
  BY DEF S3Inv, RequestsResolved, LockHeld
<1>3. RowsDropped'
  BY DEF RowsDropped
<1>4. UploadsSound'
  BY DEF S3Inv, UploadsSound, UploadSound, MayBecome
<1>5. \A c \in Clients : breq'[c].pc \in Locking \/ breq[c].pc \in Locking => breq'[c] = breq[c]
  OBVIOUS
<1>6. PartsStaged'
  <2>1. ASSUME NEW i \in Uploads, up'[i].part # 0, \A c \in Clients : breq'[c].pc = "row" => breq'[c].i # i
        PROVE  up'[i].staged \in {up'[i].part, B!Torn, 0}
    <3>1. \A c \in Clients : breq[c].pc = "row" => breq[c].i # i
      BY <1>5, <2>1 DEF Locking
    <3>2. up'[i].part = up[i].part /\ up'[i].staged \in {up[i].staged, 0}
      BY <2>1 DEF MayBecome
    <3> QED
      BY <2>1, <3>1, <3>2 DEF S3Inv, PartsStaged
  <2>2. ASSUME NEW c \in Clients, breq'[c].pc = "row"
        PROVE  up'[breq'[c].i].staged \in {breq'[c].v, 0}
    <3>1. breq'[c] = breq[c] /\ breq[c].i \in Uploads
      BY <1>5, <2>2 DEF Locking, S3Inv, RequestsResolved, Resolved
    <3> QED
      BY <2>2, <3>1 DEF S3Inv, PartsStaged, MayBecome
  <2> QED
    BY <2>1, <2>2 DEF PartsStaged, B!Torn
<1>7. ASSUME NEW x, RowsHave(x) PROVE \A b \in Buckets \ foreign' : B!RowExists(b)' /\ obj'[b] # 0 => x \in {obj'[b], B!Torn}
  BY <1>7 DEF RowsHave
<1>8. FileBelongs'
  <2>1. (\A c \in Clients : breq'[c].pc \notin {"commit", "unlink"}) => RowsHave(bfile)'
    <3>1. SUFFICES ASSUME \A c \in Clients : breq'[c].pc \notin {"commit", "unlink"}
                   PROVE  RowsHave(bfile)'
      OBVIOUS
    <3>2. RowsHave(bfile)
      BY <1>5, <3>1 DEF S3Inv, FileBelongs, Locking
    <3> QED
      BY <1>7, <3>2 DEF RowsHave, B!Torn
  <2>2. ASSUME NEW c \in Clients, breq'[c].pc = "commit"
        PROVE  /\ bfile' = breq'[c].v /\ breq'[c].v \in {breq'[c].e, B!Torn} /\ RowsHave(breq[c].old)'
               /\ breq'[c].op = "complete" => up'[breq'[c].i].row # "none" /\ published'[breq'[c].i] = 0
    <3>1. breq'[c] = breq[c] /\ Resolved(breq[c])
      BY <1>5, <2>2 DEF Locking, S3Inv, RequestsResolved
    <3>2. /\ bfile = breq[c].v /\ breq[c].v \in {breq[c].e, B!Torn} /\ RowsHave(breq[c].old)
          /\ breq[c].op = "complete" => up[breq[c].i].row # "none" /\ published[breq[c].i] = 0
      BY <2>2, <3>1 DEF S3Inv, FileBelongs
    <3>3. RowsHave(breq[c].old)'
      BY <1>7, <3>1, <3>2 DEF RowsHave, B!Torn
    <3> QED
      BY <3>1, <3>2, <3>3 DEF Resolved, MayBecome
  <2>3. ASSUME NEW c \in Clients, breq'[c].pc = "unlink"
        PROVE  obj'[breq'[c].b] = 0
    <3>1. breq'[c] = breq[c] /\ breq[c].b \in Buckets
      BY <1>5, <2>3 DEF Locking, S3Inv, RequestsResolved, Resolved
    <3> QED
      BY <2>3, <3>1 DEF S3Inv, FileBelongs
  <2> QED
    BY <2>1, <2>2, <2>3 DEF FileBelongs, B!Torn
<1> QED
  BY <1>1, <1>2, <1>3, <1>4, <1>6, <1>8 DEF S3Inv

LEMMA UploadsStay == ASSUME S3Inv PROVE \A i \in Uploads : MayBecome(up[i], up[i])
BY DEF S3Inv, UploadsSound, UploadSound, MayBecome

LEMMA RequestMoves ==
    ASSUME S3Inv, NEW c \in Clients, NEW r \in S3Request, breq' = [breq EXCEPT ![c] = r]
    PROVE  /\ breq' \in [Clients -> S3Request] /\ breq'[c] = r
           /\ \A d \in Clients \ {c} : breq'[d] = breq[d]
BY S3Types

\* A request without the lock proceeds, and rows are dropped or uploads move on.
LEMMA RequestStep ==
    ASSUME S3Inv, NEW c \in Clients, NEW r \in S3Request, breq' = [breq EXCEPT ![c] = r],
           breq[c].pc \notin Locking, r.pc \notin Locking, Resolved(r),
           UNCHANGED <<bfile, block, foreign, published>>, fresh' \in 0 .. MaxContent,
           bst' \in [Buckets -> {"none", "live", "deleted", "gone"}],
           obj' \in [Buckets -> B!Content],
           \A b \in Buckets : obj'[b] # 0 => obj'[b] = obj[b] /\ B!RowExists(b)' /\ B!RowExists(b),
           up' \in [Uploads -> S3Upload], \A i \in Uploads : MayBecome(up[i], up'[i])
    PROVE  S3Inv'
<1>1. /\ breq' \in [Clients -> S3Request] /\ breq'[c] = r
      /\ \A d \in Clients \ {c} : breq'[d] = breq[d]
  BY RequestMoves
<1>2. \A d \in Clients : \/ breq'[d] = breq[d]
                         \/ /\ breq[d].pc \notin Locking /\ breq'[d].pc \notin Locking
                            /\ Resolved(breq'[d])
  BY <1>1
<1> QED
  BY <1>1, <1>2, WithoutLock

LEMMA RequestOnly ==
    ASSUME S3Inv, NEW c \in Clients, NEW r \in S3Request, breq' = [breq EXCEPT ![c] = r],
           breq[c].pc \notin Locking, r.pc \notin Locking, Resolved(r),
           UNCHANGED <<bst, obj, bfile, up, block, foreign, published>>, fresh' \in 0 .. MaxContent
    PROVE  S3Inv'
<1>1. bst' \in [Buckets -> {"none", "live", "deleted", "gone"}] /\ obj' \in [Buckets -> B!Content]
      /\ up' \in [Uploads -> S3Upload]
  BY S3Types
<1>2. \A b \in Buckets : obj'[b] # 0 => obj'[b] = obj[b] /\ B!RowExists(b)' /\ B!RowExists(b)
  BY DEF S3Inv, RowsDropped, B!RowExists
<1>3. \A i \in Uploads : MayBecome(up[i], up'[i])
  BY UploadsStay
<1> QED
  BY <1>1, <1>2, <1>3, RequestStep

LEMMA RequestEnds ==
    ASSUME S3Inv, NEW c \in Clients, B!Done(c), breq[c].pc \notin Locking,
           UNCHANGED <<bst, obj, bfile, up, block, fresh, foreign, published>>
    PROVE  S3Inv'
<1>1. breq' = [breq EXCEPT ![c] = B!Idle] /\ B!Idle \in S3Request /\ B!Idle.pc \notin Locking /\ Resolved(B!Idle)
  BY S3Facts DEF B!Done, Locking
<1>2. fresh' \in 0 .. MaxContent
  BY S3Types
<1> QED
  BY <1>1, <1>2, RequestOnly

LEMMA BeginKeeps ==
    ASSUME S3Inv, NEW c \in Clients, NEW own \in Buckets, NEW r \in S3Request, r.pc \notin Locking,
           Resolved(r), B!Begin(c, own, r)
    PROVE  S3Inv'
<1>1. breq[c] = B!Idle /\ UNCHANGED <<bst, obj, bfile, up, block, foreign, published>>
  BY DEF B!Begin
<1>2. fresh' \in 0 .. MaxContent
  <2>1. fresh \in 0 .. MaxContent
    BY S3Types
  <2>2. (fresh < MaxContent /\ fresh' = fresh + 1) \/ fresh' = fresh
    BY DEF B!Begin
  <2> QED
    BY <2>1, <2>2, BoundsAssumption
<1>3. PICK v \in B!Content : v = IF r.op \in {"put", "part"} THEN fresh' ELSE 0
  BY <1>2, S3Facts DEF B!Content
<1>4. PICK w : w = [r EXCEPT !.v = v]
  OBVIOUS
<1>5. w \in S3Request /\ w.op = r.op /\ w.pc = r.pc /\ w.b = r.b /\ w.i = r.i /\ w.e = r.e
  BY <1>3, <1>4 DEF S3Request
<1>6. Resolved(w)
  BY <1>5 DEF Resolved
<1>7. breq' = [breq EXCEPT ![c] = w]
  <2>1. breq' = [breq EXCEPT ![c] = [r EXCEPT !.v = IF r.op \in {"put", "part"} THEN fresh' ELSE 0]]
    BY DEF B!Begin
  <2> QED
    BY <1>3, <1>4, <2>1
<1>8. breq[c].pc \notin Locking
  BY <1>1, S3Facts DEF Locking
<1> QED
  BY <1>1, <1>2, <1>5, <1>6, <1>7, <1>8, RequestOnly

LEMMA FreshIsContent == ASSUME S3Inv PROVE 0 .. fresh \subseteq B!Content
<1>1. fresh \in 0 .. MaxContent
  BY S3Types
<1> QED
  BY <1>1, BoundsAssumption DEF B!Content

LEMMA PutBegins ==
    ASSUME S3Inv, NEW c \in Clients, NEW own \in Buckets, NEW cond \in B!Conds,
           B!interceptPutObject(c, own, cond)
    PROVE  S3Inv'
<1>1. PICK e \in 0 .. fresh :
        B!Begin(c, own, [B!Idle EXCEPT !.op = "put", !.pc = "resolve", !.cond = cond, !.e = e])
  BY DEF B!interceptPutObject
<1>2. PICK r : r = [B!Idle EXCEPT !.op = "put", !.pc = "resolve", !.cond = cond, !.e = e]
  OBVIOUS
<1>3. e \in B!Content
  BY <1>1, FreshIsContent
<1>4. r \in S3Request /\ r.op = "put" /\ r.pc = "resolve"
  BY <1>2, <1>3, S3Facts DEF S3Request, B!Idle, B!Ops
<1>5. Resolved(r) /\ r.pc \notin Locking
  BY <1>4 DEF Resolved, Locking
<1> QED
  BY <1>1, <1>2, <1>4, <1>5, BeginKeeps

LEMMA UploadBegins ==
    ASSUME S3Inv, NEW c \in Clients, NEW own \in Buckets, NEW i \in Uploads,
           B!interceptCreateMultipartUpload(c, own, i)
    PROVE  S3Inv'
<1>1. PICK r : r = [B!Idle EXCEPT !.op = "start", !.pc = "resolve", !.i = i]
  OBVIOUS
<1>2. r \in S3Request /\ r.op = "start" /\ r.pc = "resolve" /\ r.i = i
  BY <1>1, S3Facts DEF S3Request, B!Idle, B!Ops
<1>3. Resolved(r) /\ r.pc \notin Locking
  BY <1>2 DEF Resolved, Locking
<1>4. B!Begin(c, own, r)
  BY <1>1 DEF B!interceptCreateMultipartUpload
<1> QED
  BY <1>2, <1>3, <1>4, BeginKeeps

LEMMA RequestBegins ==
    ASSUME S3Inv, NEW c \in Clients, NEW own \in Buckets, NEW i \in Uploads,
           NEW op \in B!Ops \ {"put", "start"}, B!Request(c, own, op, i)
    PROVE  S3Inv'
<1>1. PICK pc : pc = CASE op = "copy"                   -> "read"
                       [] op \in {"delbucket", "force"} -> "lock"
                       [] OTHER                         -> "resolve"
  OBVIOUS
<1>2. pc \in {"read", "lock", "resolve"} /\ (pc = "lock" => op \in {"delbucket", "force"})
  BY <1>1
<1>3. PICK e \in 0 .. fresh :
        /\ (e # 0) <=> (op = "complete")
        /\ B!Begin(c, own, [B!Idle EXCEPT !.op = op, !.e = e, !.i = i, !.pc = pc])
  BY <1>1 DEF B!Request
<1>4. PICK r : r = [B!Idle EXCEPT !.op = op, !.e = e, !.i = i, !.pc = pc]
  OBVIOUS
<1>5. e \in B!Content
  BY <1>3, FreshIsContent
<1>6. r \in S3Request /\ r.op = op /\ r.pc = pc /\ r.i = i /\ r.e = e
  BY <1>2, <1>4, <1>5, S3Facts DEF S3Request, B!Idle, B!Ops
<1>7. Resolved(r) /\ r.pc \notin Locking
  BY <1>2, <1>3, <1>6 DEF Resolved, Locking
<1> QED
  BY <1>3, <1>4, <1>6, <1>7, BeginKeeps

LEMMA CopyReads ==
    ASSUME S3Inv, NEW c \in Clients, B!CopyObject(c)
    PROVE  S3Inv'
<1>1. breq[c].pc = "read" /\ UNCHANGED <<bst, obj, bfile, up, block, fresh, foreign, published>>
      /\ breq[c] \in S3Request /\ Resolved(breq[c])
  BY S3Types DEF B!CopyObject, S3Inv, RequestsResolved
<1>2. CASE B!Done(c)
  BY <1>1, <1>2, RequestEnds DEF Locking
<1>3. CASE breq' = [breq EXCEPT ![c].pc = "resolve", ![c].v = bfile]
  <2>1. PICK r : r = [breq[c] EXCEPT !.pc = "resolve", !.v = bfile]
    OBVIOUS
  <2>2. /\ r \in S3Request /\ r.op = breq[c].op /\ r.pc = "resolve" /\ r.b = breq[c].b /\ r.i = breq[c].i
        /\ r.e = breq[c].e
    BY <1>1, <2>1, S3Types DEF S3Request
  <2>3. breq' = [breq EXCEPT ![c] = r]
    BY <1>3, <2>1, <1>1, S3Types DEF S3Request
  <2>4. Resolved(r) /\ r.pc \notin Locking /\ breq[c].pc \notin Locking /\ fresh' \in 0 .. MaxContent
    BY <1>1, <2>2, S3Types DEF Resolved, Locking
  <2> QED
    BY <1>1, <2>2, <2>3, <2>4, RequestOnly
<1> QED
  BY <1>2, <1>3 DEF B!CopyObject

\* A request without the lock goes on to a step without it.
LEMMA GotoKeeps ==
    ASSUME S3Inv, NEW c \in Clients, NEW pc \in {"clean"}, B!Goto(c, pc), breq[c].pc \notin Locking,
           breq[c].op = "abort",
           UNCHANGED <<bfile, block, fresh, foreign, published, bst, obj>>,
           up' \in [Uploads -> S3Upload], \A i \in Uploads : MayBecome(up[i], up'[i])
    PROVE  S3Inv'
<1>1. breq[c] \in S3Request /\ Resolved(breq[c]) /\ breq' = [breq EXCEPT ![c].pc = pc]
  BY S3Types DEF S3Inv, RequestsResolved, B!Goto
<1>2. PICK r : r = [breq[c] EXCEPT !.pc = pc]
  OBVIOUS
<1>3. r \in S3Request /\ r.op = "abort" /\ r.pc = pc /\ r.i = breq[c].i
  BY <1>1, <1>2 DEF S3Request
<1>4. breq' = [breq EXCEPT ![c] = r]
  BY <1>1, <1>2
<1>5. Resolved(r) /\ r.pc \notin Locking
  BY <1>1, <1>3 DEF Resolved, Locking
<1>6. fresh' \in 0 .. MaxContent /\ bst' \in [Buckets -> {"none", "live", "deleted", "gone"}]
      /\ obj' \in [Buckets -> B!Content]
  BY S3Types
<1>7. \A b \in Buckets : obj'[b] # 0 => obj'[b] = obj[b] /\ B!RowExists(b)' /\ B!RowExists(b)
  BY DEF S3Inv, RowsDropped, B!RowExists
<1> QED
  BY <1>3, <1>4, <1>5, <1>6, <1>7, RequestStep

LEMMA ResolveKeeps ==
    ASSUME S3Inv, NEW c \in Clients, B!Resolve(c)
    PROVE  S3Inv'
<1>1. breq[c].pc = "resolve" /\ UNCHANGED <<bst, obj, bfile, up, block, fresh, foreign, published>>
      /\ breq[c] \in S3Request /\ Resolved(breq[c]) /\ breq[c].pc \notin Locking
  BY S3Types DEF B!Resolve, S3Inv, RequestsResolved, Locking
<1>2. PICK id : id = CHOOSE b \in B!FindBucketProjectID : TRUE
  OBVIOUS
<1>3. PICK usable \in BOOLEAN :
        usable = IF breq[c].op \in {"part", "complete", "abort"} THEN B!verifyUploadOwnership(breq[c].i)
                 ELSE ~B!NoBucket
  BY DEF B!verifyUploadOwnership, B!NoBucket, B!FindUpload
<1>4. IF usable
      THEN breq' = [breq EXCEPT ![c].b = id,
                                ![c].pc = IF breq[c].op \in {"start", "abort"} THEN "tx" ELSE "lock"]
      ELSE IF breq[c].op = "abort" THEN B!Goto(c, "clean") ELSE B!Done(c)
  BY <1>2, <1>3 DEF B!Resolve
<1>5. CASE usable
  <2>1. \E b \in Buckets : B!findBucketID(b)
    <3>1. CASE breq[c].op \in {"part", "complete", "abort"}
      <4>1. breq[c].i \in Uploads /\ B!FindUpload(breq[c].i) /\ B!findBucketID(up[breq[c].i].b)
        BY <1>1, <1>3, <1>5, <3>1 DEF B!verifyUploadOwnership, Resolved
      <4>2. up[breq[c].i].b \in Buckets
        BY <4>1 DEF S3Inv, UploadsSound, UploadSound, B!FindUpload
      <4> QED
        BY <4>1, <4>2
    <3>2. CASE breq[c].op \notin {"part", "complete", "abort"}
      BY <1>3, <1>5, <3>2 DEF B!NoBucket, B!FindBucketProjectID
    <3> QED
      BY <3>1, <3>2
  <2>2. id \in Buckets
    BY <1>2, <2>1 DEF B!FindBucketProjectID
  <2>3. PICK pc : pc = IF breq[c].op \in {"start", "abort"} THEN "tx" ELSE "lock"
    OBVIOUS
  <2>4. PICK r : r = [breq[c] EXCEPT !.b = id, !.pc = pc]
    OBVIOUS
  <2>5. r \in S3Request /\ r.op = breq[c].op /\ r.pc = pc /\ r.b = id /\ r.i = breq[c].i /\ r.e = breq[c].e
    BY <1>1, <2>2, <2>3, <2>4 DEF S3Request
  <2>6. breq' = [breq EXCEPT ![c] = r]
    <3>1. breq' = [breq EXCEPT ![c].b = id, ![c].pc = pc]
      BY <1>4, <1>5, <2>3
    <3>2. breq \in [Clients -> S3Request]
      BY S3Types
    <3> QED
      BY <3>1, <3>2, <2>4 DEF S3Request
  <2>7. Resolved(r) /\ r.pc \notin Locking
    BY <1>1, <2>2, <2>3, <2>5 DEF Resolved, Locking
  <2>8. fresh' \in 0 .. MaxContent
    BY <1>1, S3Types
  <2> QED
    BY <1>1, <2>5, <2>6, <2>7, <2>8, RequestOnly
<1>6. CASE ~usable /\ breq[c].op = "abort"
  <2>1. up' \in [Uploads -> S3Upload] /\ \A i \in Uploads : MayBecome(up[i], up'[i])
    BY <1>1, S3Types, UploadsStay
  <2> QED
    BY <1>1, <1>4, <1>6, <2>1, GotoKeeps
<1>7. CASE ~usable /\ breq[c].op # "abort"
  BY <1>1, <1>4, <1>7, RequestEnds
<1> QED
  BY <1>5, <1>6, <1>7

\* A request without the lock ends, having changed rows or uploads.
LEMMA EndStep ==
    ASSUME S3Inv, NEW c \in Clients, B!Done(c), breq[c].pc \notin Locking,
           UNCHANGED <<bfile, block, fresh, foreign, published>>,
           bst' \in [Buckets -> {"none", "live", "deleted", "gone"}],
           obj' \in [Buckets -> B!Content],
           \A b \in Buckets : obj'[b] # 0 => obj'[b] = obj[b] /\ B!RowExists(b)' /\ B!RowExists(b),
           up' \in [Uploads -> S3Upload], \A i \in Uploads : MayBecome(up[i], up'[i])
    PROVE  S3Inv'
<1>1. breq' = [breq EXCEPT ![c] = B!Idle] /\ B!Idle \in S3Request /\ B!Idle.pc \notin Locking /\ Resolved(B!Idle)
  BY S3Facts DEF B!Done, Locking
<1>2. fresh' \in 0 .. MaxContent
  BY S3Types
<1> QED
  BY <1>1, <1>2, RequestStep

\* An upload's row goes, with its parts.
LEMMA DeleteUploadFacts ==
    ASSUME S3Inv, NEW i \in Uploads
    PROVE  B!DeleteUpload(up[i]) \in S3Upload /\ MayBecome(up[i], B!DeleteUpload(up[i]))
<1>1. up[i] \in S3Upload /\ UploadSound(up[i], published[i])
  BY S3Types DEF S3Inv, UploadsSound
<1>2. PICK w : w = B!DeleteUpload(up[i])
  OBVIOUS
<1>3. PICK left : left = IF up[i].row = "open" THEN "gone" ELSE up[i].row
  OBVIOUS
<1>4. w = [up[i] EXCEPT !.row = left, !.part = 0]
  BY <1>2, <1>3 DEF B!DeleteUpload
<1>5. /\ w \in S3Upload /\ w.row = left /\ w.part = 0 /\ w.staged = up[i].staged /\ w.b = up[i].b
  BY <1>1, <1>3, <1>4, S3Facts DEF S3Upload
<1>6. MayBecome(up[i], w)
  BY <1>1, <1>3, <1>5 DEF MayBecome, S3Upload
<1> QED
  BY <1>2, <1>5, <1>6

LEMMA DropFacts ==
    ASSUME S3Inv, NEW b \in Buckets, B!DropBucket(b)
    PROVE  /\ bst' \in [Buckets -> {"none", "live", "deleted", "gone"}]
           /\ obj' \in [Buckets -> B!Content] /\ obj'[b] = 0
           /\ \A x \in Buckets \ {b} : obj'[x] = obj[x] /\ bst'[x] = bst[x]
           /\ \A x \in Buckets : obj'[x] # 0 => obj'[x] = obj[x] /\ B!RowExists(x)' /\ B!RowExists(x)
           /\ up' \in [Uploads -> S3Upload] /\ \A i \in Uploads : MayBecome(up[i], up'[i])
<1>1. bst' = [bst EXCEPT ![b] = "gone"] /\ obj' = [obj EXCEPT ![b] = 0]
  BY DEF B!DropBucket, B!Delete
<1>2. /\ bst' \in [Buckets -> {"none", "live", "deleted", "gone"}]
      /\ obj' \in [Buckets -> B!Content] /\ obj'[b] = 0
      /\ \A x \in Buckets \ {b} : obj'[x] = obj[x] /\ bst'[x] = bst[x]
  BY <1>1, S3Types, S3Facts
<1>3. \A x \in Buckets : obj'[x] # 0 => obj'[x] = obj[x] /\ B!RowExists(x)' /\ B!RowExists(x)
  BY <1>2 DEF S3Inv, RowsDropped, B!RowExists
<1>4. /\ up' = [i \in Uploads |-> IF B!FindUpload(i) /\ up[i].b = b THEN B!DeleteUpload(up[i]) ELSE up[i]]
  BY DEF B!DropBucket
<1>5. \A i \in Uploads : up'[i] \in S3Upload /\ MayBecome(up[i], up'[i])
  BY <1>4, DeleteUploadFacts, UploadsStay, S3Types
<1>6. up' \in [Uploads -> S3Upload]
  BY <1>4, <1>5
<1> QED
  BY <1>2, <1>3, <1>5, <1>6

LEMMA CreateKeeps ==
    ASSUME S3Inv, NEW c \in Clients, NEW b \in Buckets, B!CreateBucketForProject(c, b)
    PROVE  S3Inv'
<1>1. /\ breq[c] = B!Idle /\ bst[b] = "none" /\ bst' = [bst EXCEPT ![b] = "live"]
      /\ breq' = [breq EXCEPT ![c] = [B!Idle EXCEPT !.op = "create", !.pc = "mkdir", !.b = b]]
      /\ UNCHANGED <<obj, bfile, up, block, fresh, foreign, published>>
  BY DEF B!CreateBucketForProject
<1>2. PICK r : r = [B!Idle EXCEPT !.op = "create", !.pc = "mkdir", !.b = b]
  OBVIOUS
<1>3. r \in S3Request /\ r.op = "create" /\ r.pc = "mkdir" /\ r.b = b
  BY <1>2, S3Facts DEF S3Request, B!Idle
<1>4. Resolved(r) /\ r.pc \notin Locking /\ breq[c].pc \notin Locking
  BY <1>1, <1>3, S3Facts DEF Resolved, Locking
<1>5. breq' = [breq EXCEPT ![c] = r]
  BY <1>1, <1>2
<1>6. /\ bst' \in [Buckets -> {"none", "live", "deleted", "gone"}] /\ obj' \in [Buckets -> B!Content]
      /\ fresh' \in 0 .. MaxContent /\ up' \in [Uploads -> S3Upload]
      /\ \A x \in Buckets \ {b} : bst'[x] = bst[x]
  BY <1>1, S3Types
<1>7. \A x \in Buckets : obj'[x] # 0 => obj'[x] = obj[x] /\ B!RowExists(x)' /\ B!RowExists(x)
  BY <1>1, <1>6 DEF S3Inv, RowsDropped, B!RowExists
<1>8. \A i \in Uploads : MayBecome(up[i], up'[i])
  BY <1>1, UploadsStay
<1> QED
  BY <1>1, <1>3, <1>4, <1>5, <1>6, <1>7, <1>8, RequestStep

LEMMA MkdirKeeps ==
    ASSUME S3Inv, NEW c \in Clients, B!CreateBucketDir(c)
    PROVE  S3Inv'
<1>1. breq[c].pc = "mkdir" /\ B!Done(c) /\ UNCHANGED <<bfile, block, fresh, foreign, published>>
      /\ breq[c].b \in Buckets
  BY DEF B!CreateBucketDir, S3Inv, RequestsResolved, Resolved
<1>2. CASE UNCHANGED <<bst, obj, up>>
  BY <1>1, <1>2, RequestEnds DEF Locking
<1>3. CASE B!DropBucket(breq[c].b)
  BY <1>1, <1>3, DropFacts, EndStep DEF Locking
<1> QED
  BY <1>2, <1>3 DEF B!CreateBucketDir

LEMMA DeleteBucketKeeps ==
    ASSUME S3Inv, NEW c \in Clients, B!DeleteBucket(c)
    PROVE  S3Inv'
<1>1. breq[c].pc = "lock" /\ B!Done(c) /\ UNCHANGED <<bfile, block, fresh, foreign, published>>
  BY DEF B!DeleteBucket
<1>2. CASE UNCHANGED <<bst, obj, up>>
  BY <1>1, <1>2, RequestEnds DEF Locking
<1>3. CASE \E b \in Buckets : B!DropBucket(b)
  BY <1>1, <1>3, DropFacts, EndStep DEF Locking
<1> QED
  BY <1>2, <1>3 DEF B!DeleteBucket, B!FindBucketProjectID

\* The project's deletion and restore move the bucket between two states
\* in which it has its row.
LEMMA ProjectKeeps ==
    ASSUME S3Inv, NEW b \in Buckets,
           B!SoftDeleteAllBucketsForProject(b) \/ B!RestoreCascadedBucketsForProject(b)
    PROVE  S3Inv'
<1>1. PICK x \in {"live", "deleted"} : bst' = [bst EXCEPT ![b] = x] /\ bst[b] \in {"live", "deleted"}
  BY DEF B!SoftDeleteAllBucketsForProject, B!RestoreCascadedBucketsForProject
<1>2. UNCHANGED <<obj, bfile, up, block, breq, fresh, foreign, published>>
  BY DEF B!SoftDeleteAllBucketsForProject, B!RestoreCascadedBucketsForProject
<1>3. /\ bst' \in [Buckets -> {"none", "live", "deleted", "gone"}] /\ obj' \in [Buckets -> B!Content]
      /\ fresh' \in 0 .. MaxContent /\ up' \in [Uploads -> S3Upload] /\ breq' \in [Clients -> S3Request]
      /\ \A y \in Buckets : bst'[y] = IF y = b THEN x ELSE bst[y]
  BY <1>1, <1>2, S3Types
<1>4. \A y \in Buckets : obj'[y] # 0 => obj'[y] = obj[y] /\ B!RowExists(y)' /\ B!RowExists(y)
  BY <1>1, <1>2, <1>3 DEF S3Inv, RowsDropped, B!RowExists
<1>5. \A i \in Uploads : MayBecome(up[i], up'[i])
  BY <1>2, UploadsStay
<1> QED
  BY <1>2, <1>3, <1>4, <1>5, WithoutLock

LEMMA StartKeeps ==
    ASSUME S3Inv, NEW c \in Clients, B!CreateMultipartUploadCtx(c)
    PROVE  S3Inv'
<1>1. /\ breq[c].pc = "tx" /\ breq[c].op = "start" /\ B!Done(c)
      /\ UNCHANGED <<bst, obj, bfile, block, fresh, foreign, published>>
      /\ breq[c].b \in Buckets /\ breq[c].i \in Uploads
  BY DEF B!CreateMultipartUploadCtx, S3Inv, RequestsResolved, Resolved
<1>2. CASE up' = up
  BY <1>1, <1>2, RequestEnds DEF Locking
<1>3. CASE up[breq[c].i].row = "none" /\ up' = B!StartUpload(breq[c].i, breq[c].b)
  <2>1. PICK w : w = [B!NoUpload EXCEPT !.row = "open", !.b = breq[c].b]
    OBVIOUS
  <2>2. w \in S3Upload /\ w.row = "open" /\ w.b = breq[c].b /\ w.part = 0 /\ w.staged = 0
    BY <1>1, <2>1, S3Facts DEF S3Upload, B!NoUpload
  <2>3. up' = [up EXCEPT ![breq[c].i] = w]
    BY <1>3, <2>1 DEF B!StartUpload
  <2>4. MayBecome(up[breq[c].i], w)
    BY <1>1, <1>3, <2>2 DEF MayBecome
  <2>5. up' \in [Uploads -> S3Upload] /\ \A i \in Uploads : MayBecome(up[i], up'[i])
    BY <1>1, <2>2, <2>3, <2>4, S3Types, UploadsStay
  <2>6. bst' \in [Buckets -> {"none", "live", "deleted", "gone"}] /\ obj' \in [Buckets -> B!Content]
    BY <1>1, S3Types
  <2>7. \A b \in Buckets : obj'[b] # 0 => obj'[b] = obj[b] /\ B!RowExists(b)' /\ B!RowExists(b)
    BY <1>1 DEF S3Inv, RowsDropped, B!RowExists
  <2> QED
    BY <1>1, <2>5, <2>6, <2>7, EndStep DEF Locking
<1> QED
  BY <1>2, <1>3 DEF B!CreateMultipartUploadCtx

LEMMA AbortKeeps ==
    ASSUME S3Inv, NEW c \in Clients, B!AbortMultipartUpload(c)
    PROVE  S3Inv'
<1>1. /\ breq[c].pc = "tx" /\ breq[c].op = "abort" /\ B!Goto(c, "clean") /\ breq[c].i \in Uploads
      /\ up' = [up EXCEPT ![breq[c].i] = B!DeleteUpload(up[breq[c].i])]
      /\ UNCHANGED <<bst, obj, bfile, block, fresh, foreign, published>>
  BY DEF B!AbortMultipartUpload, S3Inv, RequestsResolved, Resolved
<1>2. up' \in [Uploads -> S3Upload] /\ \A i \in Uploads : MayBecome(up[i], up'[i])
  BY <1>1, DeleteUploadFacts, UploadsStay, S3Types
<1> QED
  BY <1>1, <1>2, GotoKeeps DEF Locking

LEMMA CleanKeeps ==
    ASSUME S3Inv, NEW c \in Clients, B!RemoveStaging(c)
    PROVE  S3Inv'
<1>1. /\ breq[c].pc = "clean" /\ B!Done(c) /\ breq[c].i \in Uploads
      /\ up' = [up EXCEPT ![breq[c].i].staged = 0]
      /\ UNCHANGED <<bst, obj, bfile, block, fresh, foreign, published>>
  BY DEF B!RemoveStaging, S3Inv, RequestsResolved, Resolved
<1>2. up[breq[c].i] \in S3Upload /\ MayBecome(up[breq[c].i], up[breq[c].i])
  BY <1>1, S3Types, UploadsStay
<1>3. PICK w : w = [up[breq[c].i] EXCEPT !.staged = 0]
  OBVIOUS
<1>4. /\ w \in S3Upload /\ w.row = up[breq[c].i].row /\ w.b = up[breq[c].i].b /\ w.part = up[breq[c].i].part
      /\ w.staged = 0
  BY <1>2, <1>3, S3Facts DEF S3Upload
<1>5. MayBecome(up[breq[c].i], w)
  BY <1>2, <1>4 DEF MayBecome
<1>6. up' = [up EXCEPT ![breq[c].i] = w]
  BY <1>1, <1>3
<1>7. up' \in [Uploads -> S3Upload] /\ \A i \in Uploads : MayBecome(up[i], up'[i])
  BY <1>1, <1>4, <1>5, <1>6, S3Types, UploadsStay
<1>8. bst' \in [Buckets -> {"none", "live", "deleted", "gone"}] /\ obj' \in [Buckets -> B!Content]
  BY <1>1, S3Types
<1>9. \A b \in Buckets : obj'[b] # 0 => obj'[b] = obj[b] /\ B!RowExists(b)' /\ B!RowExists(b)
  BY <1>1 DEF S3Inv, RowsDropped, B!RowExists
<1> QED
  BY <1>1, <1>7, <1>8, <1>9, EndStep DEF Locking

LEMMA SweepKeeps ==
    ASSUME S3Inv, NEW c \in Clients, NEW i \in Uploads, B!SweepOrphanMultiparts(c, i)
    PROVE  S3Inv'
<1>1. /\ breq[c] = B!Idle /\ UNCHANGED <<bst, obj, bfile, up, block, fresh, foreign, published>>
      /\ breq' = [breq EXCEPT ![c] = [B!Idle EXCEPT !.op = "abort", !.pc = "resolve", !.i = i]]
  BY DEF B!SweepOrphanMultiparts
<1>2. PICK r : r = [B!Idle EXCEPT !.op = "abort", !.pc = "resolve", !.i = i]
  OBVIOUS
<1>3. r \in S3Request /\ r.op = "abort" /\ r.pc = "resolve" /\ r.i = i
  BY <1>2, S3Facts DEF S3Request, B!Idle, B!Ops
<1>4. Resolved(r) /\ r.pc \notin Locking /\ breq[c].pc \notin Locking
  BY <1>1, <1>3, S3Facts DEF Resolved, Locking
<1>5. breq' = [breq EXCEPT ![c] = r] /\ fresh' \in 0 .. MaxContent
  BY <1>1, <1>2, S3Types
<1> QED
  BY <1>1, <1>3, <1>4, <1>5, RequestOnly

-----------------------------------------------------------------------------
\* With the lock free nobody is between a file and its row.
LEMMA LockFree ==
    ASSUME S3Inv, block = None
    PROVE  /\ \A c \in Clients : breq[c].pc \notin Locking
           /\ RowsHave(bfile)
           /\ \A i \in Uploads : up[i].part # 0 => up[i].staged \in {up[i].part, B!Torn, 0}
<1>1. \A c \in Clients : breq[c].pc \notin Locking
  BY S3Facts DEF S3Inv, LockHeld
<1>2. \A c \in Clients : breq[c].pc \notin {"commit", "unlink"} /\ breq[c].pc # "row"
  BY <1>1 DEF Locking
<1> QED
  BY <1>1, <1>2 DEF S3Inv, FileBelongs, PartsStaged

\* The lock's holder is the only one between a file and its row.
LEMMA OneHolder ==
    ASSUME S3Inv, NEW c \in Clients, breq[c].pc \in Locking
    PROVE  block = c /\ \A d \in Clients \ {c} : breq[d].pc \notin Locking
BY DEF S3Inv, LockHeld

\* The file is replaced under the lock, before its row is written.
LEMMA PlacedKeeps ==
    ASSUME S3Inv, NEW c \in Clients, NEW r \in S3Request, block = None, block' = c,
           breq' = [breq EXCEPT ![c] = r], r.pc = "commit", Resolved(r),
           r.v \in {r.e, B!Torn}, r.old = bfile, bfile' = r.v,
           r.op = "complete" => up[r.i].row # "none" /\ published[r.i] = 0,
           UNCHANGED <<bst, obj, up, fresh, foreign, published>>
    PROVE  S3Inv'
<1>1. /\ breq' \in [Clients -> S3Request] /\ breq'[c] = r
      /\ \A d \in Clients \ {c} : breq'[d] = breq[d]
  BY RequestMoves
<1>2. /\ \A d \in Clients : breq[d].pc \notin Locking
      /\ RowsHave(bfile)
      /\ \A i \in Uploads : up[i].part # 0 => up[i].staged \in {up[i].part, B!Torn, 0}
  BY LockFree
<1>3. B!S3TypeOK'
  <2>1. bfile' \in B!Content
    BY DEF S3Request
  <2> QED
    BY <1>1, <2>1 DEF S3Inv, B!S3TypeOK, S3Request
<1>4. RequestsResolved'
  BY <1>1 DEF S3Inv, RequestsResolved
<1>5. LockHeld'
  BY <1>1, <1>2 DEF LockHeld, Locking
<1>6. RowsDropped' /\ UploadsSound'
  BY DEF S3Inv, RowsDropped, UploadsSound, B!RowExists
<1>7. PartsStaged'
  BY <1>1, <1>2 DEF PartsStaged, Locking, B!Torn
<1>8. RowsHave(r.old)'
  BY <1>1, <1>2 DEF RowsHave, B!RowExists, B!Torn
<1>9. FileBelongs'
  BY <1>1, <1>2, <1>8 DEF FileBelongs, Locking, B!Torn
<1> QED
  BY <1>3, <1>4, <1>5, <1>6, <1>7, <1>9 DEF S3Inv

LEMMA PutKeeps ==
    ASSUME S3Inv, NEW c \in Clients, B!PutObject(c)
    PROVE  S3Inv'
<1>1. /\ block = None /\ breq[c].pc = "lock" /\ breq[c].op \in {"put", "copy"}
      /\ UNCHANGED <<bst, obj, up, fresh, foreign, published>>
      /\ breq[c] \in S3Request /\ Resolved(breq[c])
  BY S3Types DEF B!PutObject, S3Inv, RequestsResolved
<1>2. CASE B!Done(c) /\ UNCHANGED <<block, bfile>>
  BY <1>1, <1>2, RequestEnds DEF Locking
<1>3. CASE /\ block' = c /\ bfile' = breq[c].v
           /\ breq' = [breq EXCEPT ![c].pc = "commit", ![c].e = breq[c].v, ![c].old = bfile]
  <2>1. PICK r : r = [breq[c] EXCEPT !.pc = "commit", !.e = breq[c].v, !.old = bfile]
    OBVIOUS
  <2>2. /\ r \in S3Request /\ r.op = breq[c].op /\ r.pc = "commit" /\ r.b = breq[c].b /\ r.i = breq[c].i
        /\ r.v = breq[c].v /\ r.e = breq[c].v /\ r.old = bfile
    BY <1>1, <2>1, S3Types DEF S3Request
  <2>3. breq' = [breq EXCEPT ![c] = r]
    BY <1>3, <2>1, S3Types DEF S3Request
  <2>4. Resolved(r)
    BY <1>1, <2>2 DEF Resolved
  <2> QED
    BY <1>1, <1>3, <2>2, <2>3, <2>4, PlacedKeeps
<1> QED
  BY <1>2, <1>3 DEF B!PutObject

LEMMA CompleteKeeps ==
    ASSUME S3Inv, NEW c \in Clients, B!CompleteMultipartUpload(c)
    PROVE  S3Inv'
<1>1. /\ block = None /\ breq[c].pc = "lock" /\ breq[c].op = "complete"
      /\ UNCHANGED <<bst, obj, up, fresh, foreign, published>>
      /\ breq[c] \in S3Request /\ Resolved(breq[c])
  BY S3Types DEF B!CompleteMultipartUpload, S3Inv, RequestsResolved
<1>2. PICK u : u = up[breq[c].i]
  OBVIOUS
<1>3. CASE B!Done(c) /\ UNCHANGED <<block, bfile>>
  BY <1>1, <1>3, RequestEnds DEF Locking
<1>4. CASE /\ u.part = breq[c].e /\ u.staged # 0 /\ block' = c /\ bfile' = u.staged
           /\ breq' = [breq EXCEPT ![c].pc = "commit", ![c].v = u.staged, ![c].old = bfile]
  <2>1. PICK r : r = [breq[c] EXCEPT !.pc = "commit", !.v = u.staged, !.old = bfile]
    OBVIOUS
  <2>2. breq[c].i \in Uploads /\ breq[c].e # 0 /\ u \in S3Upload
    BY <1>1, <1>2, S3Types DEF Resolved
  <2>3. /\ r \in S3Request /\ r.op = "complete" /\ r.pc = "commit" /\ r.b = breq[c].b /\ r.i = breq[c].i
        /\ r.v = u.staged /\ r.e = breq[c].e /\ r.old = bfile
    BY <1>1, <2>1, <2>2, S3Types DEF S3Request, S3Upload
  <2>4. breq' = [breq EXCEPT ![c] = r]
    BY <1>4, <2>1, S3Types DEF S3Request
  <2>5. Resolved(r)
    BY <1>1, <2>3 DEF Resolved
  <2>6. u.staged \in {u.part, B!Torn}
    BY <1>1, <1>2, <1>4, <2>2, LockFree
  <2>7. u.row = "open" /\ published[breq[c].i] = 0
    BY <1>2, <1>4, <2>2 DEF S3Inv, UploadsSound, UploadSound
  <2> QED
    BY <1>1, <1>2, <1>4, <2>3, <2>4, <2>5, <2>6, <2>7, PlacedKeeps
<1> QED
  BY <1>2, <1>3, <1>4 DEF B!CompleteMultipartUpload

\* A request ends and the lock is free.
LEMMA FreeKeeps ==
    ASSUME S3Inv, NEW c \in Clients, B!Done(c), block' = None, fresh' = fresh,
           \A d \in Clients \ {c} : breq[d].pc \notin Locking,
           bst' \in [Buckets -> {"none", "live", "deleted", "gone"}], obj' \in [Buckets -> B!Content],
           bfile' \in B!Content, up' \in [Uploads -> S3Upload], foreign' \subseteq Buckets,
           published' \in [Uploads -> Nat], RowsDropped', UploadsSound', RowsHave(bfile)',
           \A i \in Uploads : up'[i].part # 0 => up'[i].staged \in {up'[i].part, B!Torn, 0}
    PROVE  S3Inv'
<1>1. breq' = [breq EXCEPT ![c] = B!Idle] /\ B!Idle \in S3Request /\ B!Idle.pc = "idle" /\ Resolved(B!Idle)
  BY S3Facts DEF B!Done
<1>2. /\ breq' \in [Clients -> S3Request] /\ breq'[c] = B!Idle
      /\ \A d \in Clients \ {c} : breq'[d] = breq[d]
  BY <1>1, RequestMoves
<1>3. B!S3TypeOK'
  BY <1>2 DEF S3Inv, B!S3TypeOK, S3Request, S3Upload
<1>4. RequestsResolved'
  BY <1>1, <1>2 DEF S3Inv, RequestsResolved
<1>5. \A d \in Clients : breq'[d].pc \notin Locking
  BY <1>1, <1>2 DEF Locking
<1>6. LockHeld'
  BY <1>5, S3Facts DEF LockHeld
<1>7. PartsStaged'
  BY <1>5 DEF PartsStaged, Locking, B!Torn
<1>8. FileBelongs'
  BY <1>5 DEF FileBelongs, Locking
<1> QED
  BY <1>3, <1>4, <1>6, <1>7, <1>8 DEF S3Inv

\* The rows whose file an operation under another id has touched.
LEMMA TouchedFacts ==
    ASSUME S3Inv, NEW b \in Buckets
    PROVE  /\ B!Touched(b) \subseteq Buckets
           /\ \A x \in Buckets \ {b} : B!RowExists(x) /\ obj[x] # 0 => x \in B!Touched(b)
BY S3Types DEF B!Touched

LEMMA CommitKeeps ==
    ASSUME S3Inv, NEW c \in Clients, B!ReplaceCommit(c)
    PROVE  S3Inv'
<1>1. /\ breq[c].pc = "commit" /\ B!RowExists(breq[c].b) /\ B!Done(c) /\ block' = None
      /\ obj' = [obj EXCEPT ![breq[c].b] = breq[c].e] /\ foreign' = B!Touched(breq[c].b)
      /\ UNCHANGED <<bst, bfile, fresh>>
  BY DEF B!ReplaceCommit, B!Upsert
<1>2. breq[c] \in S3Request /\ Resolved(breq[c]) /\ breq[c].b \in Buckets /\ breq[c].e \in B!Content
  BY <1>1, S3Types DEF S3Inv, RequestsResolved, Resolved, S3Request
<1>3. \A d \in Clients \ {c} : breq[d].pc \notin Locking
  BY <1>1, OneHolder DEF Locking
<1>4. /\ bfile = breq[c].v /\ breq[c].v \in {breq[c].e, B!Torn}
      /\ breq[c].op = "complete" => up[breq[c].i].row # "none" /\ published[breq[c].i] = 0
  BY <1>1 DEF S3Inv, FileBelongs
<1>5. /\ obj' \in [Buckets -> B!Content] /\ obj'[breq[c].b] = breq[c].e
      /\ \A x \in Buckets \ {breq[c].b} : obj'[x] = obj[x]
  BY <1>1, <1>2, S3Types
<1>6. RowsHave(bfile)'
  BY <1>1, <1>2, <1>4, <1>5, TouchedFacts DEF RowsHave, B!RowExists, B!Torn
<1>7. RowsDropped'
  BY <1>1, <1>2, <1>5 DEF S3Inv, RowsDropped, B!RowExists
<1>8. /\ up' \in [Uploads -> S3Upload] /\ published' \in [Uploads -> Nat] /\ UploadsSound'
      /\ \A i \in Uploads : up'[i].part # 0 => up'[i].staged \in {up'[i].part, B!Torn, 0}
  <2>1. \A i \in Uploads : up[i].part # 0 => up[i].staged \in {up[i].part, B!Torn, 0}
    <3>1. \A d \in Clients : breq[d].pc # "row"
      BY <1>1, <1>3 DEF Locking
    <3> QED
      BY <3>1 DEF S3Inv, PartsStaged
  <2>2. CASE breq[c].op = "complete"
    <3>1. PICK j \in Uploads : j = breq[c].i
      BY <1>2, <2>2 DEF Resolved
    <3>2. PICK d : d = B!DeleteUpload(up[j])
      OBVIOUS
    <3>3. d \in S3Upload /\ MayBecome(up[j], d) /\ d.row = "gone"
      <4>1. d \in S3Upload /\ MayBecome(up[j], d)
        BY <3>2, DeleteUploadFacts
      <4>2. up[j] \in S3Upload /\ up[j].row # "none"
        BY <1>4, <2>2, <3>1, S3Types
      <4>3. d.row = "gone"
        BY <3>2, <4>2 DEF B!DeleteUpload, S3Upload
      <4> QED
        BY <4>1, <4>3
    <3>4. PICK w : w = [d EXCEPT !.staged = 0]
      OBVIOUS
    <3>5. w \in S3Upload /\ w.row = "gone" /\ w.part = 0
      <4>1. d.part = 0
        BY <3>3 DEF MayBecome
      <4> QED
        BY <3>3, <3>4, <4>1, S3Facts DEF S3Upload
    <3>6. up' = [up EXCEPT ![j] = w] /\ published' = [published EXCEPT ![j] = published[j] + 1]
      BY <2>2, <3>1, <3>2, <3>4 DEF B!ReplaceCommit
    <3>7. published[j] = 0
      BY <1>4, <2>2, <3>1
    <3>8. /\ up' \in [Uploads -> S3Upload] /\ up'[j] = w /\ \A i \in Uploads \ {j} : up'[i] = up[i]
      BY <3>5, <3>6, S3Types
    <3>9. /\ published' \in [Uploads -> Nat] /\ published'[j] = 1
          /\ \A i \in Uploads \ {j} : published'[i] = published[i]
      BY <3>6, <3>7, S3Types
    <3>10. UploadsSound'
      BY <3>5, <3>8, <3>9 DEF S3Inv, UploadsSound, UploadSound
    <3>11. \A i \in Uploads : up'[i].part # 0 => up'[i].staged \in {up'[i].part, B!Torn, 0}
      BY <2>1, <3>5, <3>8
    <3> QED
      BY <3>8, <3>9, <3>10, <3>11
  <2>3. CASE breq[c].op # "complete"
    <3>1. UNCHANGED <<up, published>>
      BY <2>3 DEF B!ReplaceCommit
    <3> QED
      BY <2>1, <3>1, S3Types DEF S3Inv, UploadsSound
  <2> QED
    BY <2>2, <2>3
<1>9. /\ bst' \in [Buckets -> {"none", "live", "deleted", "gone"}] /\ bfile' \in B!Content
      /\ foreign' \subseteq Buckets
  BY <1>1, <1>2, S3Types, TouchedFacts
<1> QED
  BY <1>1, <1>3, <1>5, <1>6, <1>7, <1>8, <1>9, FreeKeeps

\* The lock's holder ends without touching an upload.
LEMMA HolderEnds ==
    ASSUME S3Inv, NEW c \in Clients, breq[c].pc \in {"commit", "unlink"}, B!Done(c), block' = None,
           UNCHANGED <<bst, obj, up, fresh, published>>, bfile' \in B!Content,
           foreign' \subseteq Buckets, RowsHave(bfile)'
    PROVE  S3Inv'
<1>1. \A d \in Clients \ {c} : breq[d].pc \notin Locking
  BY OneHolder DEF Locking
<1>2. \A i \in Uploads : up'[i].part # 0 => up'[i].staged \in {up'[i].part, B!Torn, 0}
  <2>1. \A d \in Clients : breq[d].pc # "row"
    BY <1>1 DEF Locking
  <2> QED
    BY <2>1 DEF S3Inv, PartsStaged
<1>3. RowsDropped' /\ UploadsSound'
  BY DEF S3Inv, RowsDropped, UploadsSound, B!RowExists
<1>4. /\ bst' \in [Buckets -> {"none", "live", "deleted", "gone"}] /\ obj' \in [Buckets -> B!Content]
      /\ up' \in [Uploads -> S3Upload] /\ published' \in [Uploads -> Nat]
  BY S3Types
<1> QED
  BY <1>1, <1>2, <1>3, <1>4, FreeKeeps

LEMMA RollbackKeeps ==
    ASSUME S3Inv, NEW c \in Clients, B!ReplaceRollback(c)
    PROVE  S3Inv'
<1>1. /\ breq[c].pc = "commit" /\ bfile' = breq[c].old /\ B!Done(c) /\ block' = None
      /\ UNCHANGED <<bst, obj, up, fresh, foreign, published>>
  BY DEF B!ReplaceRollback
<1>2. RowsHave(breq[c].old) /\ breq[c].old \in B!Content /\ foreign' \subseteq Buckets
  BY <1>1, S3Types DEF S3Inv, FileBelongs, S3Request
<1>3. RowsHave(bfile)'
  BY <1>1, <1>2 DEF RowsHave, B!RowExists, B!Torn
<1> QED
  BY <1>1, <1>2, <1>3, HolderEnds

LEMMA UnlinkKeeps ==
    ASSUME S3Inv, NEW c \in Clients, B!DeleteFile(c)
    PROVE  S3Inv'
<1>1. /\ breq[c].pc = "unlink" /\ bfile' = 0 /\ B!Done(c) /\ block' = None
      /\ foreign' = B!Touched(breq[c].b) /\ UNCHANGED <<bst, obj, up, fresh, published>>
  BY DEF B!DeleteFile
<1>2. breq[c].b \in Buckets /\ obj[breq[c].b] = 0
  BY <1>1 DEF S3Inv, FileBelongs, RequestsResolved, Resolved
<1>3. foreign' \subseteq Buckets /\ bfile' \in B!Content
  BY <1>1, <1>2, TouchedFacts, S3Facts
<1>4. RowsHave(bfile)'
  BY <1>1, <1>2, TouchedFacts DEF RowsHave, B!RowExists
<1> QED
  BY <1>1, <1>3, <1>4, HolderEnds

LEMMA DeleteObjectKeeps ==
    ASSUME S3Inv, NEW c \in Clients, B!DeleteObject(c)
    PROVE  S3Inv'
<1>1. /\ breq[c].pc = "lock" /\ breq[c].op = "delete" /\ block = None
      /\ UNCHANGED <<bst, bfile, up, fresh, foreign, published>>
      /\ breq[c] \in S3Request /\ Resolved(breq[c])
  BY S3Types DEF B!DeleteObject, S3Inv, RequestsResolved
<1>2. CASE B!Done(c) /\ UNCHANGED <<obj, block>>
  BY <1>1, <1>2, RequestEnds DEF Locking
<1>3. CASE B!Delete(breq[c].b) /\ block' = c /\ B!Goto(c, "unlink")
  <2>1. PICK r : r = [breq[c] EXCEPT !.pc = "unlink"]
    OBVIOUS
  <2>2. r \in S3Request /\ r.op = "delete" /\ r.pc = "unlink" /\ r.b = breq[c].b /\ r.b \in Buckets
    BY <1>1, <2>1 DEF S3Request, Resolved
  <2>3. breq' = [breq EXCEPT ![c] = r]
    BY <1>3, <2>1 DEF B!Goto
  <2>4. /\ breq' \in [Clients -> S3Request] /\ breq'[c] = r
        /\ \A d \in Clients \ {c} : breq'[d] = breq[d]
    BY <2>2, <2>3, RequestMoves
  <2>5. obj' \in [Buckets -> B!Content] /\ obj'[r.b] = 0 /\ \A x \in Buckets \ {r.b} : obj'[x] = obj[x]
    BY <1>3, <2>2, S3Types, S3Facts DEF B!Delete
  <2>6. /\ \A d \in Clients : breq[d].pc \notin Locking
        /\ \A i \in Uploads : up[i].part # 0 => up[i].staged \in {up[i].part, B!Torn, 0}
    BY <1>1, LockFree
  <2>7. B!S3TypeOK'
    BY <1>1, <1>3, <2>4, <2>5 DEF S3Inv, B!S3TypeOK, S3Request
  <2>8. RequestsResolved'
    BY <2>2, <2>4 DEF S3Inv, RequestsResolved, Resolved
  <2>9. LockHeld'
    BY <1>3, <2>2, <2>4, <2>6 DEF LockHeld, Locking
  <2>10. RowsDropped'
    BY <1>1, <2>5 DEF S3Inv, RowsDropped, B!RowExists
  <2>11. UploadsSound'
    BY <1>1 DEF S3Inv, UploadsSound
  <2>12. PartsStaged'
    BY <1>1, <2>2, <2>4, <2>6 DEF PartsStaged, Locking, B!Torn
  <2>13. FileBelongs'
    BY <2>2, <2>4, <2>5, <2>6 DEF FileBelongs, Locking
  <2> QED
    BY <2>7, <2>8, <2>9, <2>10, <2>11, <2>12, <2>13 DEF S3Inv
<1> QED
  BY <1>2, <1>3 DEF B!DeleteObject

LEMMA ForceKeeps ==
    ASSUME S3Inv, NEW c \in Clients, B!ForceDeleteBucket(c)
    PROVE  S3Inv'
<1>1. breq[c].pc = "lock" /\ block = None /\ B!Done(c) /\ UNCHANGED <<block, fresh, published>>
  BY DEF B!ForceDeleteBucket
<1>2. CASE UNCHANGED <<bst, obj, up, bfile, foreign>>
  BY <1>1, <1>2, RequestEnds DEF Locking
<1>3. CASE \E b \in Buckets : B!DropBucket(b) /\ foreign' = B!Touched(b) /\ bfile' = 0
  <2>1. PICK b \in Buckets : B!DropBucket(b) /\ foreign' = B!Touched(b) /\ bfile' = 0
    BY <1>3
  <2>2. /\ bst' \in [Buckets -> {"none", "live", "deleted", "gone"}]
        /\ obj' \in [Buckets -> B!Content] /\ obj'[b] = 0
        /\ \A x \in Buckets \ {b} : obj'[x] = obj[x] /\ bst'[x] = bst[x]
        /\ \A x \in Buckets : obj'[x] # 0 => obj'[x] = obj[x] /\ B!RowExists(x)' /\ B!RowExists(x)
        /\ up' \in [Uploads -> S3Upload] /\ \A i \in Uploads : MayBecome(up[i], up'[i])
    BY <2>1, DropFacts
  <2>3. /\ \A d \in Clients : breq[d].pc \notin Locking
        /\ \A i \in Uploads : up[i].part # 0 => up[i].staged \in {up[i].part, B!Torn, 0}
    BY <1>1, LockFree
  <2>4. RowsDropped' /\ UploadsSound'
    BY <1>1, <2>2 DEF RowsDropped, S3Inv, UploadsSound, UploadSound, MayBecome
  <2>5. RowsHave(bfile)'
    BY <2>1, <2>2, TouchedFacts DEF RowsHave
  <2>6. \A i \in Uploads : up'[i].part # 0 => up'[i].staged \in {up'[i].part, B!Torn, 0}
    BY <2>2, <2>3 DEF MayBecome
  <2>7. bfile' \in B!Content /\ foreign' \subseteq Buckets /\ published' \in [Uploads -> Nat]
        /\ block' = None /\ fresh' = fresh
    BY <1>1, <2>1, S3Facts, TouchedFacts, S3Types
  <2> QED
    BY <1>1, <2>2, <2>3, <2>4, <2>5, <2>6, <2>7, FreeKeeps
<1> QED
  BY <1>2, <1>3 DEF B!ForceDeleteBucket

LEMMA UploadPartKeeps ==
    ASSUME S3Inv, NEW c \in Clients, B!UploadPart(c)
    PROVE  S3Inv'
<1>1. /\ breq[c].pc = "lock" /\ breq[c].op = "part" /\ block = None /\ block' = c /\ B!Goto(c, "row")
      /\ up' = [up EXCEPT ![breq[c].i].staged = breq[c].v]
      /\ UNCHANGED <<bst, obj, bfile, fresh, foreign, published>>
      /\ breq[c] \in S3Request /\ Resolved(breq[c])
  BY S3Types DEF B!UploadPart, S3Inv, RequestsResolved
<1>2. PICK j \in Uploads : j = breq[c].i
  BY <1>1 DEF Resolved
<1>3. PICK r : r = [breq[c] EXCEPT !.pc = "row"]
  OBVIOUS
<1>4. r \in S3Request /\ r.op = "part" /\ r.pc = "row" /\ r.i = j /\ r.v = breq[c].v /\ r.v \in B!Content
  BY <1>1, <1>2, <1>3 DEF S3Request
<1>5. breq' = [breq EXCEPT ![c] = r]
  BY <1>1, <1>3 DEF B!Goto
<1>6. /\ breq' \in [Clients -> S3Request] /\ breq'[c] = r
      /\ \A d \in Clients \ {c} : breq'[d] = breq[d]
  BY <1>4, <1>5, RequestMoves
<1>7. PICK w : w = [up[j] EXCEPT !.staged = r.v]
  OBVIOUS
<1>8. up[j] \in S3Upload
  BY S3Types
<1>9. w \in S3Upload /\ w.row = up[j].row /\ w.b = up[j].b /\ w.part = up[j].part /\ w.staged = r.v
  BY <1>4, <1>7, <1>8 DEF S3Upload
<1>10. up' \in [Uploads -> S3Upload] /\ up'[j] = w /\ \A i \in Uploads \ {j} : up'[i] = up[i]
  BY <1>1, <1>2, <1>4, <1>7, <1>9, S3Types
<1>11. /\ \A d \in Clients : breq[d].pc \notin Locking
       /\ RowsHave(bfile)
       /\ \A i \in Uploads : up[i].part # 0 => up[i].staged \in {up[i].part, B!Torn, 0}
  BY <1>1, LockFree
<1>12. B!S3TypeOK'
  BY <1>1, <1>6, <1>10 DEF S3Inv, B!S3TypeOK, S3Request, S3Upload
<1>13. RequestsResolved'
  BY <1>4, <1>6 DEF S3Inv, RequestsResolved, Resolved
<1>14. LockHeld'
  BY <1>1, <1>4, <1>6, <1>11 DEF LockHeld, Locking
<1>15. RowsDropped'
  BY <1>1 DEF S3Inv, RowsDropped, B!RowExists
<1>16. UploadsSound'
  BY <1>1, <1>9, <1>10 DEF S3Inv, UploadsSound, UploadSound
<1>17. PartsStaged'
  BY <1>4, <1>6, <1>9, <1>10, <1>11 DEF PartsStaged, Locking, B!Torn
<1>18. FileBelongs'
  <2>1. RowsHave(bfile)'
    BY <1>1, <1>11 DEF RowsHave, B!RowExists, B!Torn
  <2> QED
    BY <1>4, <1>6, <1>11, <2>1 DEF FileBelongs, Locking
<1> QED
  BY <1>12, <1>13, <1>14, <1>15, <1>16, <1>17, <1>18 DEF S3Inv

\* The row of a part is written, or its file is given up.
LEMMA PartEnds ==
    ASSUME S3Inv, NEW c \in Clients, breq[c].pc = "row", B!Done(c), block' = None,
           UNCHANGED <<bst, obj, bfile, fresh, foreign, published>>,
           NEW w \in S3Upload, up' = [up EXCEPT ![breq[c].i] = w],
           w.row = up[breq[c].i].row, w.b = up[breq[c].i].b,
           w.row # "open" => w.part = 0, w.part # 0 => w.staged \in {w.part, B!Torn, 0}
    PROVE  S3Inv'
<1>1. PICK j \in Uploads : j = breq[c].i
  BY DEF S3Inv, RequestsResolved, Resolved
<1>2. up' \in [Uploads -> S3Upload] /\ up'[j] = w /\ \A i \in Uploads \ {j} : up'[i] = up[i]
  BY <1>1, S3Types
<1>3. \A d \in Clients \ {c} : breq[d].pc \notin Locking
  BY OneHolder DEF Locking
<1>4. \A i \in Uploads : up'[i].part # 0 => up'[i].staged \in {up'[i].part, B!Torn, 0}
  <2>1. SUFFICES ASSUME NEW i \in Uploads \ {j}, up[i].part # 0
                 PROVE  up[i].staged \in {up[i].part, B!Torn, 0}
    BY <1>2
  <2>2. \A d \in Clients : breq[d].pc = "row" => breq[d].i # i
    BY <1>1, <1>3, <2>1 DEF Locking
  <2> QED
    BY <2>1, <2>2 DEF S3Inv, PartsStaged
<1>5. UploadsSound'
  BY <1>1, <1>2 DEF S3Inv, UploadsSound, UploadSound
<1>6. RowsDropped'
  BY DEF S3Inv, RowsDropped, B!RowExists
<1>7. RowsHave(bfile)'
  <2>1. \A d \in Clients : breq[d].pc \notin {"commit", "unlink"}
    BY <1>3 DEF Locking
  <2>2. RowsHave(bfile)
    BY <2>1 DEF S3Inv, FileBelongs
  <2> QED
    BY <2>2 DEF RowsHave, B!RowExists, B!Torn
<1>8. /\ bst' \in [Buckets -> {"none", "live", "deleted", "gone"}] /\ obj' \in [Buckets -> B!Content]
      /\ bfile' \in B!Content /\ foreign' \subseteq Buckets /\ published' \in [Uploads -> Nat]
  BY S3Types
<1> QED
  BY <1>2, <1>3, <1>4, <1>5, <1>6, <1>7, <1>8, FreeKeeps

LEMMA AddPartKeeps ==
    ASSUME S3Inv, NEW c \in Clients, B!AddPart(c)
    PROVE  S3Inv'
<1>1. /\ breq[c].pc = "row" /\ B!Done(c) /\ block' = None
      /\ up' = (IF B!FindUpload(breq[c].i) THEN [up EXCEPT ![breq[c].i].part = breq[c].v] ELSE up)
      /\ UNCHANGED <<bst, obj, bfile, fresh, foreign, published>>
  BY DEF B!AddPart
<1>2. PICK j \in Uploads : j = breq[c].i
  BY <1>1 DEF S3Inv, RequestsResolved, Resolved
<1>3. /\ up[j] \in S3Upload /\ breq[c].v \in B!Content /\ up[j].staged \in {breq[c].v, 0}
      /\ (up[j].row # "open" => up[j].part = 0)
  BY <1>1, <1>2, S3Types DEF S3Inv, PartsStaged, S3Request, UploadsSound, UploadSound
<1>4. CASE B!FindUpload(j)
  <2>1. PICK w : w = [up[j] EXCEPT !.part = breq[c].v]
    OBVIOUS
  <2>2. /\ w \in S3Upload /\ w.row = up[j].row /\ w.b = up[j].b /\ w.part = breq[c].v
        /\ w.staged = up[j].staged
    BY <1>3, <2>1 DEF S3Upload
  <2>3. up' = [up EXCEPT ![j] = w] /\ w.row = "open"
    BY <1>1, <1>2, <1>4, <2>1, <2>2 DEF B!FindUpload
  <2>4. /\ up' = [up EXCEPT ![breq[c].i] = w] /\ w.row = up[breq[c].i].row /\ w.b = up[breq[c].i].b
        /\ w.staged \in {w.part, B!Torn, 0} /\ w.row = "open"
    BY <1>2, <1>3, <2>2, <2>3
  <2> QED
    BY <1>1, <2>2, <2>4, PartEnds
<1>5. CASE ~B!FindUpload(j)
  <2>1. up' = [up EXCEPT ![j] = up[j]] /\ up[j].part = 0
    BY <1>1, <1>2, <1>3, <1>5, S3Types DEF B!FindUpload
  <2> QED
    BY <1>1, <1>2, <1>3, <2>1, PartEnds
<1> QED
  BY <1>4, <1>5

LEMMA AddPartFailsKeeps ==
    ASSUME S3Inv, NEW c \in Clients, B!AddPartFails(c)
    PROVE  S3Inv'
<1>1. /\ breq[c].pc = "row" /\ B!Done(c) /\ block' = None /\ B!FindUpload(breq[c].i)
      /\ up' = [up EXCEPT ![breq[c].i].staged = IF @ = 0 THEN 0 ELSE B!Torn]
      /\ UNCHANGED <<bst, obj, bfile, fresh, foreign, published>>
  BY DEF B!AddPartFails
<1>2. PICK j \in Uploads : j = breq[c].i
  BY <1>1 DEF S3Inv, RequestsResolved, Resolved
<1>3. up[j] \in S3Upload /\ up[j].row = "open"
  BY <1>1, <1>2, S3Types DEF B!FindUpload
<1>4. PICK s \in B!Content : s = IF up[j].staged = 0 THEN 0 ELSE B!Torn
  BY S3Facts
<1>5. PICK w : w = [up[j] EXCEPT !.staged = s]
  OBVIOUS
<1>6. w \in S3Upload /\ w.row = "open" /\ w.b = up[j].b /\ w.part = up[j].part /\ w.staged = s
  BY <1>3, <1>4, <1>5 DEF S3Upload
<1>7. up' = [up EXCEPT ![j] = w]
  BY <1>1, <1>2, <1>4, <1>5
<1>8. /\ up' = [up EXCEPT ![breq[c].i] = w] /\ w.row = up[breq[c].i].row /\ w.b = up[breq[c].i].b
      /\ w.staged \in {w.part, B!Torn, 0}
  BY <1>2, <1>3, <1>4, <1>6, <1>7
<1> QED
  BY <1>1, <1>6, <1>8, PartEnds

LEMMA S3Step == ASSUME S3Inv, B!S3Next \/ UNCHANGED bvars PROVE S3Inv'
<1>1. CASE UNCHANGED bvars
  <2>1. UNCHANGED <<bst, obj, bfile, up, block, breq, fresh, foreign, published>>
    BY <1>1 DEF bvars
  <2>2. B!S3TypeOK' /\ RequestsResolved' /\ LockHeld'
    BY <2>1 DEF S3Inv, B!S3TypeOK, RequestsResolved, LockHeld
  <2>3. RowsDropped' /\ UploadsSound' /\ PartsStaged' /\ FileBelongs'
    BY <2>1 DEF S3Inv, RowsDropped, UploadsSound, PartsStaged, FileBelongs, RowsHave, B!RowExists, B!Torn
  <2> QED
    BY <2>2, <2>3 DEF S3Inv
<1>2. CASE \E c \in Clients, own \in Buckets :
             \/ \E cond \in B!Conds : B!interceptPutObject(c, own, cond)
             \/ \E i \in Uploads :
                  \/ B!interceptCreateMultipartUpload(c, own, i)
                  \/ \E op \in B!Ops \ {"put", "start"} : B!Request(c, own, op, i)
  BY <1>2, PutBegins, UploadBegins, RequestBegins
<1>3. ASSUME NEW c \in Clients,
             \/ B!CopyObject(c) \/ B!Resolve(c) \/ B!PutObject(c) \/ B!ReplaceCommit(c)
             \/ B!ReplaceRollback(c) \/ B!DeleteObject(c) \/ B!DeleteFile(c) \/ B!CreateBucketDir(c)
      PROVE  S3Inv'
  BY <1>3, CopyReads, ResolveKeeps, PutKeeps, CommitKeeps, RollbackKeeps, DeleteObjectKeeps, UnlinkKeeps,
     MkdirKeeps
<1>4. ASSUME NEW c \in Clients,
             \/ B!DeleteBucket(c) \/ B!ForceDeleteBucket(c) \/ B!CreateMultipartUploadCtx(c)
             \/ B!UploadPart(c) \/ B!AddPart(c) \/ B!AddPartFails(c) \/ B!CompleteMultipartUpload(c)
             \/ B!AbortMultipartUpload(c) \/ B!RemoveStaging(c)
             \/ \E b \in Buckets : B!CreateBucketForProject(c, b)
             \/ \E i \in Uploads : B!SweepOrphanMultiparts(c, i)
      PROVE  S3Inv'
  BY <1>4, DeleteBucketKeeps, ForceKeeps, StartKeeps, UploadPartKeeps, AddPartKeeps, AddPartFailsKeeps,
     CompleteKeeps, AbortKeeps, CleanKeeps, CreateKeeps, SweepKeeps
<1>5. CASE \E b \in Buckets : B!SoftDeleteAllBucketsForProject(b) \/ B!RestoreCascadedBucketsForProject(b)
  BY <1>5, ProjectKeeps
<1> QED
  BY <1>1, <1>2, <1>3, <1>4, <1>5 DEF B!S3Next

LEMMA S3Shows == ASSUME S3Inv PROVE B!ObjectsIntact /\ B!PublishedOnce
<1>1. B!ObjectsIntact
  BY LockFree DEF B!ObjectsIntact, RowsHave
<1>2. B!PublishedOnce
  BY DEF S3Inv, UploadsSound, UploadSound, B!PublishedOnce
<1> QED
  BY <1>1, <1>2

(* The S3 gateway keeps each object's row and file together, whatever      *)
(* puts, copies, deletes, uploads, failed commits and bucket deletions     *)
(* overlap, and publishes an upload at most once, also when aborts and     *)
(* other completions race with it (backend.go:443, multipart.go:224, 250): *)
(* for every number of buckets of a name, uploads, requests and contents.  *)
THEOREM ObjectsStayIntact == Spec => []ObjectsIntact
<1>1. Init => (part = "s3" => S3Inv)
  BY S3Initial DEF Init
<1>2. (part = "s3" => S3Inv) /\ [Next]_vars => (part = "s3" => S3Inv)'
  BY PartSteps, S3Step
<1>3. (part = "s3" => S3Inv) => ObjectsIntact
  BY S3Shows DEF ObjectsIntact, S3Inv
<1> QED
  BY <1>1, <1>2, <1>3, PTL DEF Spec

-----------------------------------------------------------------------------
(* Scans and the gate.                                                     *)

ScanRow == [st : {"none", "pending", "running", "done", "failed", "pruned"},
            pc : {"none", "start", "ready", "commit", "invalidate", "lost"},
            seen : 0 .. MaxVer, sev : G!Rank, fin : Nat]
GateReader == [pc : {"idle", "miss", "set"}, thr : G!Rank, id : ScanIds \cup {0}, blocked : {"yes", "no"}]
GateEntry == [has : {"yes", "no"}, blocked : {"yes", "no"}, id : ScanIds \cup {0}]

(* A scan that has read the artifact, and whose result is or may be kept.  *)
HasRead(r) == r.pc \in {"ready", "commit"} \/ (r.st = "done" /\ r.fin # 0)

Expected(v) == IF scannable = "yes" THEN worst[v] ELSE 0

ScanSound(r) ==
    /\ r.pc = "invalidate" => r.st = "done"
    /\ r.st # "running" => r.pc \in {"none", "invalidate"}
    /\ r.st # "none" => ver # 0
    /\ r.pc = "ready" => scannable = "yes"
    /\ HasRead(r) => r.seen \in 1 .. MaxVer
    /\ r.pc = "commit" \/ (r.st = "done" /\ r.fin # 0) => r.sev = Expected(r.seen)

ScansSound == \A i \in ScanIds : ScanSound(scan[i])

(* Ids are given in order, and the newest scan sees the content stored     *)
(* now; every scan of an image does.                                       *)
InOrder == \A i, j \in ScanIds : j < i /\ scan[i].st # "none" => scan[j].st # "none"
Newest(m) == \A i \in ScanIds : scan[i].st # "none" => i <= m
SeesCurrent ==
    \A m \in ScanIds : HasRead(scan[m]) /\ (skind = "docker" \/ Newest(m)) => scan[m].seen = ver

ImagesFixed ==
    /\ skind = "docker" => ver \in {0, 1}
    /\ skind # "docker" => scannable = "yes"

GateInv ==
    /\ G!GTypeOK /\ ScansSound /\ InOrder /\ SeesCurrent /\ ImagesFixed
    /\ G!CacheFollowsScans

LEMMA ScanFacts ==
    /\ 0 \in G!Rank /\ G!NoScan \in ScanRow /\ G!NoScan.st = "none" /\ G!NoScan.pc = "none"
    /\ G!NoEntry \in GateEntry /\ G!NoEntry.has = "no" /\ G!AtRest \in GateReader
<1>1. 0 \in G!Rank /\ 0 \in 0 .. MaxVer
  BY ScansAssumption DEF G!Rank
<1> QED
  BY <1>1 DEF G!NoScan, ScanRow, G!NoEntry, GateEntry, G!AtRest, GateReader

LEMMA GateTypes ==
    ASSUME GateInv
    PROVE  /\ scan \in [ScanIds -> ScanRow] /\ cache \in GateEntry /\ reader \in [Clients -> GateReader]
           /\ worst \in [1 .. MaxVer -> G!Rank] /\ ver \in 0 .. MaxVer /\ thr \in G!Rank
           /\ stored \in [thr : G!Rank, raced : {"yes", "no"}, pruned : {"yes", "no"}]
BY DEF GateInv, G!GTypeOK, ScanRow, GateEntry, GateReader

LEMMA GateInit == ASSUME G!GInit PROVE GateInv
<1>1. /\ scan = [i \in ScanIds |-> G!NoScan] /\ cache = G!NoEntry /\ ver = 0
      /\ reader = [r \in Clients |-> G!AtRest] /\ stored = G!NotStored
      /\ scannable \in {"yes", "no"} /\ (scannable = "no" => skind = "docker")
  BY DEF G!GInit
<1>2. G!GTypeOK
  <2>1. G!NotStored \in [thr : G!Rank, raced : {"yes", "no"}, pruned : {"yes", "no"}]
    BY ScanFacts DEF G!NotStored
  <2>2. 0 \in 0 .. MaxVer
    BY ScansAssumption
  <2> QED
    BY <1>1, <2>1, <2>2, ScanFacts DEF G!GInit, G!GTypeOK, ScanRow, GateEntry, GateReader
<1>3. \A i \in ScanIds : scan[i].st = "none" /\ scan[i].pc = "none"
  BY <1>1, ScanFacts
<1>4. ScansSound /\ InOrder /\ SeesCurrent /\ ImagesFixed
  BY <1>1, <1>3 DEF ScansSound, ScanSound, HasRead, InOrder, SeesCurrent, ImagesFixed
<1>5. G!CacheFollowsScans
  BY <1>1, ScanFacts DEF G!CacheFollowsScans
<1> QED
  BY <1>2, <1>4, <1>5 DEF GateInv

\* The handler moves an existing row on.  The cache is cleared, or is about
\* to be, or the row has no result that counts.
LEMMA RowMoves ==
    ASSUME GateInv, NEW i \in ScanIds, NEW r \in ScanRow, scan' = [scan EXCEPT ![i] = r],
           UNCHANGED <<skind, scannable, worst, ver, thr, reader, stored>>,
           scan[i].st # "none", r.st # "none", ScanSound(r),
           HasRead(r) => r.seen = ver \/ (HasRead(scan[i]) /\ r.seen = scan[i].seen),
           \/ cache' = G!NoEntry
           \/ /\ cache' = cache /\ scan[i].pc # "invalidate" /\ scan[i].st # "done"
              /\ r.pc = "invalidate" \/ r.st # "done" \/ r.fin = 0
    PROVE  GateInv'
<1>1. scan' \in [ScanIds -> ScanRow] /\ scan'[i] = r /\ \A j \in ScanIds \ {i} : scan'[j] = scan[j]
  BY GateTypes
<1>2. G!GTypeOK'
  <2>1. cache' \in GateEntry
    BY GateTypes, ScanFacts
  <2> QED
    BY <1>1, <2>1 DEF GateInv, G!GTypeOK, ScanRow, GateEntry
<1>3. ScansSound'
  BY <1>1 DEF GateInv, ScansSound, ScanSound, Expected, HasRead
<1>4. \A j \in ScanIds : scan'[j].st = "none" <=> scan[j].st = "none"
  BY <1>1
<1>5. InOrder' /\ \A m \in ScanIds : Newest(m)' <=> Newest(m)
  BY <1>4 DEF GateInv, InOrder, Newest
<1>6. SeesCurrent'
  <2>1. SUFFICES ASSUME NEW m \in ScanIds, HasRead(scan'[m]), skind = "docker" \/ Newest(m)
                 PROVE  scan'[m].seen = ver
    BY <1>5 DEF SeesCurrent, HasRead
  <2>2. CASE m = i
    BY <1>1, <2>1, <2>2 DEF GateInv, SeesCurrent
  <2>3. CASE m # i
    BY <1>1, <2>1, <2>3 DEF GateInv, SeesCurrent
  <2> QED
    BY <2>2, <2>3
<1>7. ImagesFixed'
  BY DEF GateInv, ImagesFixed
<1>8. G!CacheFollowsScans'
  <2>1. CASE cache' = G!NoEntry
    BY <2>1, ScanFacts DEF G!CacheFollowsScans
  <2>2. CASE r.pc = "invalidate"
    BY <1>1, <2>2 DEF G!CacheFollowsScans, G!Settled
  <2>3. CASE /\ cache' = cache /\ scan[i].pc # "invalidate" /\ r.pc # "invalidate" /\ scan[i].st # "done"
             /\ r.st # "done" \/ r.fin = 0
    <3>1. SUFFICES ASSUME cache.has = "yes", G!Settled', stored.raced = "no", stored.pruned = "no"
                   PROVE  \/ cache.id = 0 /\ G!WithResult' = {}
                          \/ cache.id \in G!LatestForArtifact'
      BY <2>3 DEF G!CacheFollowsScans
    <3>2. G!Settled
      BY <1>1, <2>3, <3>1 DEF G!Settled
    <3>3. \/ cache.id = 0 /\ G!WithResult = {}
          \/ cache.id \in G!LatestForArtifact
      BY <3>1, <3>2 DEF GateInv, G!CacheFollowsScans
    <3>4. G!WithResult' = G!WithResult
      BY <1>1, <2>3 DEF G!WithResult, G!Done
    <3>5. CASE cache.id \in G!LatestForArtifact
      <4>1. PICK k \in ScanIds : k = cache.id /\ scan[k].st = "done" /\ k # i
              /\ \A j \in G!Done : scan[j].fin <= scan[k].fin
        BY <2>3, <3>5 DEF G!LatestForArtifact, G!Done
      <4>2. scan'[k] = scan[k] /\ scan[k].fin \in Nat
        BY <1>1, <4>1, GateTypes DEF ScanRow
      <4>3. ASSUME NEW j \in ScanIds, scan'[j].st = "done" PROVE scan'[j].fin <= scan'[k].fin
        <5>1. CASE j = i
          BY <1>1, <2>3, <4>2, <4>3, <5>1
        <5>2. CASE j # i
          BY <1>1, <4>1, <4>2, <4>3, <5>2 DEF G!Done
        <5> QED
          BY <5>1, <5>2
      <4> QED
        BY <4>1, <4>2, <4>3 DEF G!LatestForArtifact, G!Done
    <3> QED
      BY <3>3, <3>4, <3>5
  <2> QED
    BY <2>1, <2>2, <2>3
<1> QED
  BY <1>2, <1>3, <1>5, <1>6, <1>7, <1>8 DEF GateInv

\* A row that exists, and the row that a step of the handler makes of it.
LEMMA RowFacts ==
    ASSUME GateInv, NEW i \in ScanIds
    PROVE  /\ scan[i] \in ScanRow /\ ScanSound(scan[i]) /\ ver \in 0 .. MaxVer
           /\ scan[i].st # "none" => ver \in 1 .. MaxVer
<1>1. scan[i] \in ScanRow /\ ScanSound(scan[i]) /\ ver \in 0 .. MaxVer
  BY GateTypes DEF GateInv, ScansSound
<1>2. scan[i].st # "none" => ver # 0
  BY <1>1 DEF ScanSound
<1> QED
  BY <1>1, <1>2, ScansAssumption

\* Lease, failure, retry and giving up: no result comes or goes.
LEMMA ToKeeps ==
    ASSUME GateInv, NEW i \in ScanIds, scan[i].st \in {"pending", "running"},
           NEW to \in {"pending", "running", "failed"}, NEW pc \in {"none", "start", "lost"},
           pc # "none" => to = "running", G!To(i, to, pc), UNCHANGED cache, G!GateFrame
    PROVE  GateInv'
<1>1. scan[i] \in ScanRow /\ ScanSound(scan[i]) /\ ver # 0
  BY RowFacts DEF ScanSound
<1>2. PICK r : r = [scan[i] EXCEPT !.st = to, !.pc = pc]
  OBVIOUS
<1>3. r \in ScanRow /\ r.st = to /\ r.pc = pc
  BY <1>1, <1>2 DEF ScanRow
<1>4. scan' = [scan EXCEPT ![i] = r]
  BY <1>2, GateTypes DEF G!To, ScanRow
<1>5. ScanSound(r) /\ ~HasRead(r)
  BY <1>1, <1>3 DEF ScanSound, HasRead
<1>6. scan[i].pc # "invalidate"
  BY <1>1 DEF ScanSound
<1> QED
  BY <1>3, <1>4, <1>5, <1>6, RowMoves DEF G!GateFrame

LEMMA LeaseKeeps == ASSUME GateInv, NEW i \in ScanIds, G!LeaseOne(i) PROVE GateInv'
BY ToKeeps DEF G!LeaseOne

LEMMA FailKeeps == ASSUME GateInv, NEW i \in ScanIds, G!failScan(i) PROVE GateInv'
BY ToKeeps DEF G!failScan

LEMMA PermFailKeeps == ASSUME GateInv, NEW i \in ScanIds, G!permFailScan(i) PROVE GateInv'
BY ToKeeps DEF G!permFailScan, G!AtStep

LEMMA ClassifyKeeps == ASSUME GateInv, NEW i \in ScanIds, G!classifyDocker(i) PROVE GateInv'
<1>1. /\ scan[i].st = "running" /\ scan[i].pc = "start" /\ scannable # "yes"
      /\ scan' = [scan EXCEPT ![i].pc = "commit", ![i].seen = ver, ![i].sev = 0]
      /\ UNCHANGED cache /\ G!GateFrame
  BY DEF G!classifyDocker, G!AtStep, G!IsScannableManifest
<1>2. scan[i] \in ScanRow /\ ver \in 0 .. MaxVer /\ ver \in 1 .. MaxVer /\ ver # 0
  BY <1>1, RowFacts, ScansAssumption
<1>3. PICK r : r = [scan[i] EXCEPT !.pc = "commit", !.seen = ver, !.sev = 0]
  OBVIOUS
<1>4. r \in ScanRow /\ r.st = "running" /\ r.pc = "commit" /\ r.seen = ver /\ r.sev = 0
  BY <1>1, <1>2, <1>3, ScanFacts DEF ScanRow
<1>5. scan' = [scan EXCEPT ![i] = r]
  BY <1>1, <1>3, GateTypes DEF ScanRow
<1>6. ScanSound(r)
  BY <1>1, <1>2, <1>4 DEF ScanSound, Expected
<1> QED
  BY <1>1, <1>4, <1>5, <1>6, RowMoves DEF G!GateFrame

LEMMA MaterializeKeeps == ASSUME GateInv, NEW i \in ScanIds, NEW k, G!Materialize(i, k) PROVE GateInv'
<1>1. /\ scan[i].st = "running" /\ scan[i].pc = "start" /\ scannable = "yes"
      /\ scan' = [scan EXCEPT ![i].pc = "ready", ![i].seen = ver]
      /\ UNCHANGED cache /\ G!GateFrame
  BY DEF G!Materialize, G!AtStep, G!IsScannableManifest
<1>2. scan[i] \in ScanRow /\ ver \in 0 .. MaxVer /\ ver \in 1 .. MaxVer /\ ver # 0
  BY <1>1, RowFacts, ScansAssumption
<1>3. PICK r : r = [scan[i] EXCEPT !.pc = "ready", !.seen = ver]
  OBVIOUS
<1>4. r \in ScanRow /\ r.st = "running" /\ r.pc = "ready" /\ r.seen = ver
  BY <1>1, <1>2, <1>3 DEF ScanRow
<1>5. scan' = [scan EXCEPT ![i] = r]
  BY <1>1, <1>3, GateTypes DEF ScanRow
<1>6. ScanSound(r)
  BY <1>1, <1>2, <1>4 DEF ScanSound
<1> QED
  BY <1>1, <1>4, <1>5, <1>6, RowMoves DEF G!GateFrame

LEMMA ParseKeeps == ASSUME GateInv, NEW i \in ScanIds, G!ParseTrivyJSON(i) PROVE GateInv'
<1>1. /\ scan[i].st = "running" /\ scan[i].pc = "ready"
      /\ scan' = [scan EXCEPT ![i].pc = "commit", ![i].sev = worst[scan[i].seen]]
      /\ UNCHANGED cache /\ G!GateFrame
  BY DEF G!ParseTrivyJSON, G!AtStep
<1>2. scan[i] \in ScanRow /\ scannable = "yes" /\ scan[i].seen \in 1 .. MaxVer /\ ver # 0 /\ HasRead(scan[i])
  BY <1>1, RowFacts DEF ScanSound, HasRead
<1>3. PICK w \in G!Rank : w = worst[scan[i].seen]
  BY <1>2, GateTypes
<1>4. PICK r : r = [scan[i] EXCEPT !.pc = "commit", !.sev = w]
  OBVIOUS
<1>5. r \in ScanRow /\ r.st = "running" /\ r.pc = "commit" /\ r.seen = scan[i].seen /\ r.sev = w
  BY <1>1, <1>2, <1>3, <1>4 DEF ScanRow
<1>6. scan' = [scan EXCEPT ![i] = r]
  BY <1>1, <1>3, <1>4, GateTypes DEF ScanRow
<1>7. ScanSound(r)
  BY <1>2, <1>3, <1>5 DEF ScanSound, Expected
<1> QED
  BY <1>1, <1>2, <1>5, <1>6, <1>7, RowMoves DEF G!GateFrame

LEMMA MarkDoneKeeps == ASSUME GateInv, NEW i \in ScanIds, G!MarkDone(i) PROVE GateInv'
<1>1. scan[i].st = "running" /\ scan[i].pc = "commit" /\ UNCHANGED cache /\ G!GateFrame
  BY DEF G!MarkDone, G!AtStep
<1>2. PICK t \in G!Now : scan' = [scan EXCEPT ![i].st = "done", ![i].pc = "invalidate", ![i].fin = t]
  BY DEF G!MarkDone
<1>3. t \in Nat
  <2>1. \A j \in ScanIds : scan[j].fin \in Nat
    BY GateTypes DEF ScanRow
  <2> QED
    BY <1>2, <2>1 DEF G!Now, G!WithResult, G!Done
<1>4. /\ scan[i] \in ScanRow /\ HasRead(scan[i]) /\ scan[i].seen \in 1 .. MaxVer /\ ver # 0
      /\ scan[i].sev = Expected(scan[i].seen)
  BY <1>1, RowFacts DEF ScanSound, HasRead
<1>5. PICK r : r = [scan[i] EXCEPT !.st = "done", !.pc = "invalidate", !.fin = t]
  OBVIOUS
<1>6. r \in ScanRow /\ r.st = "done" /\ r.pc = "invalidate" /\ r.seen = scan[i].seen /\ r.sev = scan[i].sev
  BY <1>3, <1>4, <1>5 DEF ScanRow
<1>7. scan' = [scan EXCEPT ![i] = r]
  BY <1>2, <1>5, GateTypes DEF ScanRow
<1>8. ScanSound(r)
  BY <1>4, <1>6 DEF ScanSound
<1> QED
  BY <1>1, <1>4, <1>6, <1>7, <1>8, RowMoves DEF G!GateFrame

LEMMA InvalidateKeeps == ASSUME GateInv, NEW i \in ScanIds, G!Invalidate(i) PROVE GateInv'
<1>1. /\ scan[i].pc = "invalidate" /\ scan' = [scan EXCEPT ![i].pc = "none"] /\ cache' = G!NoEntry
      /\ G!GateFrame
  BY DEF G!Invalidate
<1>2. scan[i] \in ScanRow /\ ScanSound(scan[i]) /\ scan[i].st = "done"
  BY <1>1, RowFacts DEF ScanSound
<1>3. PICK r : r = [scan[i] EXCEPT !.pc = "none"]
  OBVIOUS
<1>4. r \in ScanRow /\ r.st = "done" /\ r.pc = "none" /\ r.seen = scan[i].seen /\ r.sev = scan[i].sev
      /\ r.fin = scan[i].fin
  BY <1>2, <1>3 DEF ScanRow
<1>5. scan' = [scan EXCEPT ![i] = r]
  BY <1>1, <1>3
<1>6. ScanSound(r) /\ (HasRead(r) => HasRead(scan[i]))
  BY <1>2, <1>4 DEF ScanSound, HasRead
<1> QED
  BY <1>1, <1>2, <1>4, <1>5, <1>6, RowMoves DEF G!GateFrame

LEMMA FallbackKeeps == ASSUME GateInv, NEW i \in ScanIds, G!FallbackDone(i) PROVE GateInv'
<1>1. /\ scan[i].st = "running" /\ scan[i].pc = "lost" /\ UNCHANGED cache /\ G!GateFrame
      /\ scan' = [scan EXCEPT ![i].st = "done", ![i].pc = "none", ![i].sev = 0, ![i].fin = 0]
  BY DEF G!FallbackDone, G!AtStep
<1>2. scan[i] \in ScanRow /\ ver # 0
  BY <1>1, RowFacts DEF ScanSound
<1>3. PICK r : r = [scan[i] EXCEPT !.st = "done", !.pc = "none", !.sev = 0, !.fin = 0]
  OBVIOUS
<1>4. r \in ScanRow /\ r.st = "done" /\ r.pc = "none" /\ r.fin = 0
  BY <1>2, <1>3, ScanFacts DEF ScanRow
<1>5. scan' = [scan EXCEPT ![i] = r]
  BY <1>1, <1>3, GateTypes DEF ScanRow
<1>6. ScanSound(r) /\ ~HasRead(r)
  BY <1>2, <1>4 DEF ScanSound, HasRead
<1> QED
  BY <1>1, <1>4, <1>5, <1>6, RowMoves DEF G!GateFrame

\* A scan that has read exists, and so does the artifact.
LEMMA ReadExists ==
    ASSUME GateInv, NEW m \in ScanIds, HasRead(scan[m])
    PROVE  scan[m].st # "none" /\ ver # 0
BY RowFacts DEF ScanSound, HasRead

LEMMA EnqueueKeeps ==
    ASSUME GateInv, NEW i \in ScanIds, G!Enqueue(i), ver' \in 1 .. MaxVer,
           skind = "docker" => ver' = 1,
           UNCHANGED <<skind, scannable, worst, thr, cache, reader, stored>>
    PROVE  GateInv'
<1>1. /\ scan[i].st = "none" /\ \A j \in ScanIds : j < i => scan[j].st # "none"
      /\ scan' = [scan EXCEPT ![i].st = "pending"]
  BY DEF G!Enqueue
<1>2. scan[i] \in ScanRow /\ scan[i].pc = "none"
  BY <1>1, RowFacts DEF ScanSound
<1>3. PICK r : r = [scan[i] EXCEPT !.st = "pending"]
  OBVIOUS
<1>4. r \in ScanRow /\ r.st = "pending" /\ r.pc = "none"
  BY <1>2, <1>3 DEF ScanRow
<1>5. scan' \in [ScanIds -> ScanRow] /\ scan'[i] = r /\ \A j \in ScanIds \ {i} : scan'[j] = scan[j]
  BY <1>1, <1>3, <1>4, GateTypes
<1>6. ver' \in 0 .. MaxVer /\ ver' # 0
  BY ScansAssumption
<1>7. G!GTypeOK'
  BY <1>5, <1>6 DEF GateInv, G!GTypeOK, ScanRow
<1>8. ScansSound'
  BY <1>4, <1>5, <1>6 DEF GateInv, ScansSound, ScanSound, HasRead, Expected
<1>9. InOrder'
  <2>1. SUFFICES ASSUME NEW a \in ScanIds, NEW b \in ScanIds, b < a, scan'[a].st # "none"
                 PROVE  scan'[b].st # "none"
    BY DEF InOrder
  <2>2. CASE a = i
    BY <1>1, <1>4, <1>5, <2>1, <2>2
  <2>3. CASE a # i
    BY <1>4, <1>5, <2>1, <2>3 DEF GateInv, InOrder
  <2> QED
    BY <2>2, <2>3
<1>10. SeesCurrent'
  <2>1. SUFFICES ASSUME NEW m \in ScanIds, HasRead(scan'[m]), skind = "docker" \/ Newest(m)'
                 PROVE  scan'[m].seen = ver'
    BY DEF SeesCurrent, HasRead
  <2>2. m # i /\ scan'[m] = scan[m] /\ HasRead(scan[m]) /\ scan[m].st # "none" /\ ver # 0
    BY <1>4, <1>5, <2>1, ReadExists DEF HasRead
  <2>3. CASE skind = "docker"
    BY <2>2, <2>3 DEF GateInv, SeesCurrent, ImagesFixed
  <2>4. CASE Newest(m)'
    <3>1. i <= m
      BY <1>4, <1>5, <2>4 DEF Newest
    <3>2. i < m
      BY <2>2, <3>1, ScansAssumption
    <3> QED
      BY <1>1, <2>2, <3>2 DEF GateInv, InOrder
  <2> QED
    BY <2>1, <2>3, <2>4
<1>11. ImagesFixed'
  BY DEF GateInv, ImagesFixed
<1>12. G!CacheFollowsScans'
  <2>1. G!Done' = G!Done /\ \A j \in G!Done : scan'[j] = scan[j]
    BY <1>1, <1>4, <1>5 DEF G!Done
  <2>2. G!WithResult' = G!WithResult /\ G!LatestForArtifact' = G!LatestForArtifact
    BY <2>1 DEF G!WithResult, G!LatestForArtifact
  <2>3. G!Settled' => G!Settled
    BY <1>2, <1>5 DEF G!Settled
  <2> QED
    BY <2>2, <2>3 DEF GateInv, G!CacheFollowsScans
<1> QED
  BY <1>7, <1>8, <1>9, <1>10, <1>11, <1>12 DEF GateInv

LEMMA UploadScannedKeeps == ASSUME GateInv, NEW i \in ScanIds, G!UploadScanned(i) PROVE GateInv'
<1>1. /\ skind # "docker" => ver < MaxVer
      /\ ver' = (IF skind = "docker" THEN 1 ELSE ver + 1) /\ G!Enqueue(i)
      /\ UNCHANGED <<skind, scannable, worst, thr, cache, reader, stored>>
  BY DEF G!UploadScanned
<1>2. ver \in 0 .. MaxVer
  BY GateTypes
<1>3. ver' \in 1 .. MaxVer
  BY <1>1, <1>2, ScansAssumption
<1> QED
  BY <1>1, <1>3, EnqueueKeeps

LEMMA RescanKeeps ==
    ASSUME GateInv, NEW i \in ScanIds, G!handleRescan(i) \/ G!handleRescanRepo(i)
    PROVE  GateInv'
<1>1. ver # 0 /\ G!Enqueue(i) /\ UNCHANGED <<skind, scannable, worst, ver, thr, cache, reader, stored>>
  BY DEF G!handleRescan, G!handleRescanRepo
<1>2. ver \in 0 .. MaxVer /\ (skind = "docker" => ver = 1)
  BY <1>1, GateTypes DEF GateInv, ImagesFixed
<1>3. ver' \in 1 .. MaxVer
  BY <1>1, <1>2, ScansAssumption
<1> QED
  BY <1>1, <1>2, <1>3, EnqueueKeeps

\* Rows end up without a step of a handler, and keep what they had seen if
\* they have a result: a prune, a restart.
LEMMA RowsSettle ==
    ASSUME GateInv, UNCHANGED <<skind, scannable, worst, ver, thr>>,
           scan' \in [ScanIds -> ScanRow], cache' \in GateEntry, reader' \in [Clients -> GateReader],
           stored' \in [thr : G!Rank, raced : {"yes", "no"}, pruned : {"yes", "no"}],
           \A i \in ScanIds : /\ ScanSound(scan'[i])
                              /\ scan'[i].st = "none" <=> scan[i].st = "none"
                              /\ HasRead(scan'[i]) => HasRead(scan[i]) /\ scan'[i].seen = scan[i].seen,
           cache'.has = "no" \/ stored'.pruned = "yes"
    PROVE  GateInv'
<1>1. G!GTypeOK'
  BY DEF GateInv, G!GTypeOK, ScanRow, GateEntry, GateReader
<1>2. ScansSound'
  BY DEF ScansSound, ScanSound, HasRead, Expected
<1>3. InOrder' /\ \A m \in ScanIds : Newest(m)' <=> Newest(m)
  BY DEF GateInv, InOrder, Newest
<1>4. SeesCurrent'
  BY <1>3 DEF GateInv, SeesCurrent, HasRead
<1>5. ImagesFixed' /\ G!CacheFollowsScans'
  BY DEF GateInv, ImagesFixed, G!CacheFollowsScans
<1> QED
  BY <1>1, <1>2, <1>3, <1>4, <1>5 DEF GateInv

LEMMA PruneKeeps == ASSUME GateInv, G!handleScanPrune PROVE GateInv'
<1>1. PICK old \in SUBSET G!Finished :
        scan' = [i \in ScanIds |-> IF i \in old THEN [G!NoScan EXCEPT !.st = "pruned"] ELSE scan[i]]
  BY DEF G!handleScanPrune
<1>2. /\ stored' = [stored EXCEPT !.pruned = "yes"]
      /\ UNCHANGED <<skind, scannable, worst, ver, thr, cache, reader>>
  BY DEF G!handleScanPrune
<1>3. PICK r : r = [G!NoScan EXCEPT !.st = "pruned"]
  OBVIOUS
<1>4. r \in ScanRow /\ r.st = "pruned" /\ r.pc = "none"
  BY <1>3, ScanFacts DEF ScanRow, G!NoScan
<1>5. \A i \in ScanIds : \/ scan'[i] = scan[i]
                         \/ scan'[i] = r /\ scan[i].st \in {"done", "failed"}
  BY <1>1, <1>3 DEF G!Finished
<1>6. \A i \in ScanIds : scan'[i] \in ScanRow
  BY <1>4, <1>5, GateTypes
<1>7. scan' \in [ScanIds -> ScanRow]
  BY <1>1, <1>6
<1>8. \A i \in ScanIds : /\ ScanSound(scan'[i])
                         /\ scan'[i].st = "none" <=> scan[i].st = "none"
                         /\ HasRead(scan'[i]) => HasRead(scan[i]) /\ scan'[i].seen = scan[i].seen
  <2>1. SUFFICES ASSUME NEW i \in ScanIds, scan'[i] = r, scan[i].st \in {"done", "failed"}
                 PROVE  /\ ScanSound(r) /\ ~HasRead(r)
    BY <1>4, <1>5, RowFacts
  <2>2. ver # 0
    BY <2>1, RowFacts DEF ScanSound
  <2> QED
    BY <1>4, <2>2 DEF ScanSound, HasRead
<1>9. stored' \in [thr : G!Rank, raced : {"yes", "no"}, pruned : {"yes", "no"}] /\ stored'.pruned = "yes"
  BY <1>2, GateTypes
<1>10. cache' \in GateEntry /\ reader' \in [Clients -> GateReader]
  BY <1>2, GateTypes
<1> QED
  BY <1>2, <1>7, <1>8, <1>9, <1>10, RowsSettle

LEMMA GateRestarts == ASSUME GateInv, G!Restart PROVE GateInv'
<1>1. /\ scan' = [i \in ScanIds |-> IF scan[i].st = "running"
                                   THEN [scan[i] EXCEPT !.st = "pending", !.pc = "none"]
                                   ELSE [scan[i] EXCEPT !.pc = "none"]]
      /\ cache' = G!NoEntry /\ reader' = [r \in Clients |-> G!AtRest]
      /\ UNCHANGED <<skind, scannable, worst, ver, thr, stored>>
  BY DEF G!Restart
<1>2. ASSUME NEW i \in ScanIds
      PROVE  /\ scan'[i] \in ScanRow /\ ScanSound(scan'[i])
             /\ scan'[i].st = "none" <=> scan[i].st = "none"
             /\ HasRead(scan'[i]) => HasRead(scan[i]) /\ scan'[i].seen = scan[i].seen
  <2>1. scan[i] \in ScanRow /\ ScanSound(scan[i])
    BY RowFacts
  <2>2. PICK r : r = scan'[i]
    OBVIOUS
  <2>3. CASE scan[i].st = "running"
    <3>1. r = [scan[i] EXCEPT !.st = "pending", !.pc = "none"]
      BY <1>1, <2>2, <2>3
    <3>2. r \in ScanRow /\ r.st = "pending" /\ r.pc = "none"
      BY <2>1, <3>1 DEF ScanRow
    <3> QED
      BY <2>1, <2>2, <2>3, <3>2 DEF ScanSound, HasRead
  <2>4. CASE scan[i].st # "running"
    <3>1. r = [scan[i] EXCEPT !.pc = "none"]
      BY <1>1, <2>2, <2>4
    <3>2. /\ r \in ScanRow /\ r.st = scan[i].st /\ r.pc = "none" /\ r.seen = scan[i].seen
          /\ r.sev = scan[i].sev /\ r.fin = scan[i].fin
      BY <2>1, <3>1 DEF ScanRow
    <3> QED
      BY <2>1, <2>2, <2>4, <3>2 DEF ScanSound, HasRead
  <2> QED
    BY <2>3, <2>4
<1>3. scan' \in [ScanIds -> ScanRow]
  BY <1>1, <1>2
<1>4. /\ cache' \in GateEntry /\ cache'.has = "no" /\ reader' \in [Clients -> GateReader]
      /\ stored' \in [thr : G!Rank, raced : {"yes", "no"}, pruned : {"yes", "no"}]
  BY <1>1, ScanFacts, GateTypes
<1> QED
  BY <1>1, <1>2, <1>3, <1>4, RowsSettle

\* Downloads at the gate leave the rows alone.
LEMMA ReadersOnly ==
    ASSUME GateInv, UNCHANGED <<skind, scannable, worst, ver, scan>>, thr' \in G!Rank,
           cache' \in GateEntry, reader' \in [Clients -> GateReader],
           stored' \in [thr : G!Rank, raced : {"yes", "no"}, pruned : {"yes", "no"}],
           \/ UNCHANGED <<cache, stored>>
           \/ cache'.has = "no"
           \/ stored'.raced = "no" => \/ cache'.id = 0 /\ G!WithResult = {}
                                      \/ cache'.id \in G!LatestForArtifact
    PROVE  GateInv'
<1>1. G!GTypeOK'
  BY DEF GateInv, G!GTypeOK, ScanRow, GateEntry, GateReader
<1>2. ScansSound' /\ InOrder' /\ ImagesFixed'
  BY DEF GateInv, ScansSound, ScanSound, HasRead, Expected, InOrder, ImagesFixed
<1>3. SeesCurrent'
  BY DEF GateInv, SeesCurrent, HasRead, Newest
<1>4. G!Done' = G!Done /\ G!Settled' = G!Settled
  BY DEF G!Done, G!Settled
<1>5. G!WithResult' = G!WithResult /\ G!LatestForArtifact' = G!LatestForArtifact
  BY <1>4 DEF G!WithResult, G!LatestForArtifact
<1>6. G!CacheFollowsScans'
  BY <1>4, <1>5 DEF GateInv, G!CacheFollowsScans
<1> QED
  BY <1>1, <1>2, <1>3, <1>6 DEF GateInv

LEMMA CacheGetKeeps ==
    ASSUME GateInv, NEW c \in Clients, G!CacheGet(c) \/ G!ReadFails(c) \/ G!ReadLatest(c)
    PROVE  GateInv'
<1>1. UNCHANGED <<skind, scannable, worst, ver, thr, scan, cache, stored>>
  BY DEF G!CacheGet, G!ReadFails, G!ReadLatest
<1>2. PICK q \in GateReader : reader' = [reader EXCEPT ![c] = q]
  <2>1. CASE G!CacheGet(c)
    <3>1. PICK q : q = [G!AtRest EXCEPT !.pc = "miss", !.thr = thr]
      OBVIOUS
    <3>2. q \in GateReader
      BY <3>1, ScanFacts, GateTypes DEF GateReader, G!AtRest
    <3>3. reader' = [reader EXCEPT ![c] = q]
      BY <2>1, <3>1 DEF G!CacheGet
    <3> QED
      BY <3>2, <3>3
  <2>2. CASE G!ReadFails(c)
    BY <2>2, ScanFacts DEF G!ReadFails
  <2>3. CASE G!ReadLatest(c)
    <3>1. PICK i \in G!LatestForArtifact \cup {x \in {0} : G!Done = {}} :
            reader' = [reader EXCEPT ![c].pc = "set", ![c].id = i,
                                     ![c].blocked = G!BlockedBy(i, reader[c].thr)]
      BY <2>3 DEF G!ReadLatest
    <3>2. i \in ScanIds \cup {0} /\ reader[c] \in GateReader
      BY <3>1, GateTypes DEF G!LatestForArtifact, G!Done
    <3>3. PICK y \in {"yes", "no"} : y = G!BlockedBy(i, reader[c].thr)
      BY DEF G!BlockedBy
    <3>4. PICK q : q = [reader[c] EXCEPT !.pc = "set", !.id = i, !.blocked = y]
      OBVIOUS
    <3>5. q \in GateReader
      BY <3>2, <3>3, <3>4 DEF GateReader
    <3>6. reader' = [reader EXCEPT ![c] = q]
      BY <3>1, <3>3, <3>4, GateTypes DEF GateReader
    <3> QED
      BY <3>5, <3>6
  <2> QED
    BY <2>1, <2>2, <2>3
<1>3. /\ reader' \in [Clients -> GateReader] /\ cache' \in GateEntry /\ thr' \in G!Rank
      /\ stored' \in [thr : G!Rank, raced : {"yes", "no"}, pruned : {"yes", "no"}]
  BY <1>1, <1>2, GateTypes
<1> QED
  BY <1>1, <1>3, ReadersOnly

LEMMA CacheSetKeeps == ASSUME GateInv, NEW c \in Clients, G!CacheSet(c) PROVE GateInv'
<1>1. PICK q \in GateReader : q = reader[c]
  BY GateTypes
<1>2. /\ UNCHANGED <<skind, scannable, worst, ver, thr, scan>> /\ reader' = [reader EXCEPT ![c] = G!AtRest]
      /\ cache' = [has |-> "yes", blocked |-> q.blocked, id |-> q.id]
  BY <1>1 DEF G!CacheSet
<1>3. PICK pr \in {"yes", "no"}, ra \in {"yes", "no"} :
        /\ stored' = [thr |-> q.thr, pruned |-> pr, raced |-> ra]
        /\ ra = "no" => q.id \in G!LatestForArtifact \/ (q.id = 0 /\ G!WithResult = {})
  BY <1>1 DEF G!CacheSet
<1>4. /\ q.thr \in G!Rank /\ cache' \in GateEntry /\ cache'.id = q.id
  BY <1>2 DEF GateReader, GateEntry
<1>5. stored' \in [thr : G!Rank, raced : {"yes", "no"}, pruned : {"yes", "no"}] /\ stored'.raced = ra
  BY <1>3, <1>4
<1>6. reader' \in [Clients -> GateReader] /\ thr' \in G!Rank
  BY <1>2, GateTypes, ScanFacts
<1> QED
  BY <1>2, <1>3, <1>4, <1>5, <1>6, ReadersOnly

LEMMA ExpireKeeps == ASSUME GateInv, G!Expire PROVE GateInv'
<1>1. cache' = G!NoEntry /\ UNCHANGED <<skind, scannable, worst, ver, thr, scan, reader, stored>>
  BY DEF G!Expire
<1> QED
  BY <1>1, ReadersOnly, GateTypes, ScanFacts

LEMMA ThresholdKeeps == ASSUME GateInv, NEW t \in G!Rank, G!SetThreshold(t) PROVE GateInv'
<1>1. thr' = t /\ UNCHANGED <<skind, scannable, worst, ver, scan, cache, reader, stored>>
  BY DEF G!SetThreshold
<1> QED
  BY <1>1, ReadersOnly, GateTypes

LEMMA GateStep == ASSUME GateInv, G!GNext \/ UNCHANGED gvars PROVE GateInv'
<1>1. CASE UNCHANGED gvars
  <2>1. UNCHANGED <<skind, scannable, worst, ver, thr, scan, cache, reader, stored>>
    BY <1>1 DEF gvars
  <2> QED
    BY <2>1, ReadersOnly, GateTypes
<1>2. ASSUME NEW i \in ScanIds,
             \/ G!UploadScanned(i) \/ G!handleRescan(i) \/ G!handleRescanRepo(i)
             \/ G!LeaseOne(i) \/ G!classifyDocker(i) \/ G!materializeDocker(i) \/ G!materializeRaw(i)
             \/ G!materializePackage(i) \/ G!ParseTrivyJSON(i) \/ G!MarkDone(i) \/ G!Invalidate(i)
             \/ G!failScan(i) \/ G!permFailScan(i) \/ G!FallbackDone(i)
      PROVE  GateInv'
  <2>1. CASE \/ G!UploadScanned(i) \/ G!handleRescan(i) \/ G!handleRescanRepo(i)
             \/ G!LeaseOne(i) \/ G!classifyDocker(i) \/ G!ParseTrivyJSON(i) \/ G!MarkDone(i)
             \/ G!Invalidate(i) \/ G!failScan(i) \/ G!permFailScan(i) \/ G!FallbackDone(i)
    BY <2>1, UploadScannedKeeps, RescanKeeps, LeaseKeeps, ClassifyKeeps, ParseKeeps, MarkDoneKeeps,
       InvalidateKeeps, FailKeeps, PermFailKeeps, FallbackKeeps
  <2>2. CASE G!materializeDocker(i) \/ G!materializeRaw(i) \/ G!materializePackage(i)
    BY <2>2, MaterializeKeeps DEF G!materializeDocker, G!materializeRaw, G!materializePackage
  <2> QED
    BY <1>2, <2>1, <2>2
<1>3. CASE \/ G!handleScanPrune \/ G!Restart \/ G!Expire
           \/ \E t \in G!Rank : G!SetThreshold(t)
           \/ \E c \in Clients : G!CacheGet(c) \/ G!ReadLatest(c) \/ G!ReadFails(c) \/ G!CacheSet(c)
  BY <1>3, PruneKeeps, GateRestarts, ExpireKeeps, ThresholdKeeps, CacheGetKeeps, CacheSetKeeps
<1> QED
  BY <1>1, <1>2, <1>3 DEF G!GNext

LEMMA GateShows == ASSUME GateInv PROVE G!QuietGateCorrect
<1>1. SUFFICES ASSUME NEW m \in G!WithResult, \A i \in ScanIds : scan[i].st # "none" => i <= m,
                      skind = "docker" \/ \A i, j \in G!WithResult : i < j => scan[i].fin < scan[j].fin,
                      NEW k \in G!LatestForArtifact
               PROVE  scan[k].sev = IF scannable = "yes" THEN worst[ver] ELSE 0
  BY DEF G!QuietGateCorrect
<1>2. /\ m \in ScanIds /\ scan[m].st = "done" /\ scan[m].fin # 0 /\ Newest(m)
      /\ k \in ScanIds /\ scan[k].st = "done" /\ scan[m].fin <= scan[k].fin
  BY <1>1 DEF G!WithResult, G!LatestForArtifact, G!Done, Newest
<1>3. scan[m].fin \in Nat /\ scan[k].fin \in Nat /\ scan[k].fin # 0
  <2>1. scan[m].fin \in Nat /\ scan[k].fin \in Nat
    BY <1>2, GateTypes DEF ScanRow
  <2> QED
    BY <1>2, <2>1
<1>4. HasRead(scan[k]) /\ scan[k].sev = Expected(scan[k].seen)
  BY <1>2, <1>3 DEF GateInv, ScansSound, ScanSound, HasRead
<1>5. skind = "docker" \/ k = m
  <2>1. SUFFICES ASSUME skind # "docker", k # m PROVE FALSE
    OBVIOUS
  <2>2. k <= m /\ k \in G!WithResult
    BY <1>1, <1>2, <1>3 DEF G!WithResult, G!Done
  <2>3. k < m
    BY <1>2, <2>1, <2>2, ScansAssumption
  <2>4. scan[k].fin < scan[m].fin
    BY <1>1, <2>1, <2>2, <2>3
  <2> QED
    BY <1>2, <1>3, <2>4
<1>6. scan[k].seen = ver
  BY <1>2, <1>4, <1>5 DEF GateInv, SeesCurrent
<1> QED
  BY <1>4, <1>6 DEF Expected

(* The download gate: when all scans are over it decides by the content    *)
(* stored now, and a cached decision is that of the scan that finished     *)
(* last, apart from the two races CacheFollowsScans names (scans.go:152,   *)
(* severity_cache.go:8): for every number of scans, uploads, downloads and *)
(* severities.                                                             *)
THEOREM GateAlwaysFollowsScans == Spec => []GateFollowsScans
<1>1. Init => (part = "scans" => GateInv)
  BY GateInit DEF Init
<1>2. (part = "scans" => GateInv) /\ [Next]_vars => (part = "scans" => GateInv)'
  BY PartSteps, GateStep
<1>3. (part = "scans" => GateInv) => GateFollowsScans
  BY GateShows DEF GateFollowsScans, GateInv
<1> QED
  BY <1>1, <1>2, <1>3, PTL DEF Spec
-----------------------------------------------------------------------------
(* OCI upload sessions.                                                    *)

UploadRequest ==
    [op : {"idle", "patch", "put"},
     pc : {"idle", "open", "write", "check", "hash", "rename", "commit"},
     id : Nat, n : Nat, seen : Nat, fd : U!Inodes \cup {0},
     actual : Seq(Nat), hash : Seq(Nat)]
StoredFile == [d : Seq(Nat), i : U!Inodes]

UploadTypes ==
    /\ st \in {"none", "open", "gone"} /\ sweep \in {"no", "file"}
    /\ bytes \in Nat /\ umade \in Nat /\ ops \in 0 .. MaxOps
    /\ inode \in [U!Inodes -> Seq(Nat)] /\ link \in U!Inodes \cup {0}
    /\ ureq \in [Clients -> UploadRequest]
    /\ cas \subseteq StoredFile
    /\ utorn \subseteq U!Inodes /\ upast \subseteq {"fault", "refused", "clipped"}

Busy(c) == ureq[c].pc # "idle"

(* Requests bear distinct numbers, a writing one has its file open, and    *)
(* nothing has happened before the POST.                                   *)
RequestsNumbered ==
    /\ \A c \in Clients : Busy(c) => ureq[c].id \in 1 .. ops
    /\ \A c \in Clients, d \in Clients : c # d /\ Busy(c) /\ Busy(d) => ureq[c].id # ureq[d].id
    /\ \A c \in Clients : ureq[c].pc = "write" => ureq[c].fd # 0
    /\ \A c \in Clients : ~Busy(c) => ureq[c] = U!NoReq
    /\ sweep = "file" => st = "gone"
    /\ st = "none" => /\ umade = 0 /\ ops = 0 /\ inode[1] = <<>>
                      /\ \A c \in Clients : ~Busy(c)

(* At most one file for the POST and one for each request past its opening.*)
Opening == {c \in Clients : ureq[c].pc = "open"}
FilesBounded == umade + Cardinality(Opening) <= ops + 1

(* The files of the store are what their names say, or were written to     *)
(* after they had been hashed; so is the file about to be renamed.         *)
StoredIntact ==
    /\ \A e \in cas, g \in cas : e.d = g.d => e = g
    /\ \A e \in cas : inode[e.i] = e.d \/ e.i \in utorn
    /\ \A c \in Clients : ureq[c].pc = "rename" /\ link # 0 =>
                              inode[link] = ureq[c].hash \/ link \in utorn

(* What has a row, or is about to get one, is in the store.                *)
RowsStored ==
    /\ \A d \in rows : \E e \in cas : e.d = d
    /\ \A c \in Clients : ureq[c].pc = "commit" => \E e \in cas : e.d = ureq[c].hash

(* The bytes in the session's file by sender: those of a request that is   *)
(* still under way, and those that are settled.                            *)
Positions == 1 .. Len(inode[link])
SentBy(c) == {j \in Positions : inode[link][j] = ureq[c].id}
Settled == {j \in Positions : \A c \in Clients : Busy(c) => inode[link][j] # ureq[c].id}

Undisturbed == st = "open" /\ upast = {} /\ \A c \in Clients : ureq[c].pc # "commit"

(* As long as nothing failed or was promoted, bytes_so_far counts the      *)
(* settled bytes, and a chunk that was appended is in the file once.       *)
BytesCounted ==
    Undisturbed =>
       /\ link # 0
       /\ \A j \in Positions : inode[link][j] \in 1 .. ops
       /\ \A c \in Clients : /\ ureq[c].pc = "write" => ureq[c].fd = link
                             /\ ureq[c].pc \in {"open", "write"} => SentBy(c) = {}
                             /\ ureq[c].pc = "check" => Cardinality(SentBy(c)) = ureq[c].n
       /\ Cardinality(Settled) = bytes

UploadInv ==
    UploadTypes /\ RequestsNumbered /\ FilesBounded /\ StoredIntact /\ RowsStored /\ BytesCounted

LEMMA NoReqFacts ==
    /\ U!NoReq \in UploadRequest /\ U!NoReq.op = "idle" /\ U!NoReq.pc = "idle" /\ U!NoReq.id = 0
    /\ U!NoReq.n = 0 /\ U!NoReq.fd = 0
<1>1. <<>> \in Seq(Nat)
  OBVIOUS
<1> QED
  BY <1>1 DEF U!NoReq, UploadRequest

LEMMA InodesFact == U!Inodes = 1 .. MaxOps + 1 /\ 1 \in U!Inodes /\ 0 \notin U!Inodes
BY SessionsAssumption DEF U!Inodes

LEMMA OpeningCounted == IsFiniteSet(Opening) /\ Cardinality(Opening) \in Nat
<1>1. Opening \in SUBSET Clients
  BY DEF Opening
<1> QED
  BY <1>1, FS_Subset, FS_CardinalityType, LimiterAssumption

\* What appending k bytes of one request makes of a content.
WithBytes(s, id, k) == s \o U!Bytes(id, k)
LEMMA BytesAreSeq ==
    ASSUME NEW id \in Nat, NEW k \in Nat
    PROVE  \E b \in Seq(Nat) : b = U!Bytes(id, k) /\ Len(b) = k /\ \A j \in 1 .. k : b[j] = id
<1>1. PICK b : b = U!Bytes(id, k)
  OBVIOUS
<1>2. b \in [1 .. k -> Nat] /\ \A j \in 1 .. k : b[j] = id
  BY <1>1 DEF U!Bytes
<1>3. b \in Seq(Nat)
  BY <1>2, SeqDef
<1>4. Len(b) = k
  BY <1>2, <1>3, LenProperties
<1> QED
  BY <1>1, <1>2, <1>3, <1>4

LEMMA WithBytesType ==
    ASSUME NEW s \in Seq(Nat), NEW id \in Nat, NEW k \in Nat
    PROVE  WithBytes(s, id, k) \in Seq(Nat)
BY BytesAreSeq, ConcatProperties DEF WithBytes

LEMMA Appended ==
    ASSUME NEW s \in Seq(Nat), NEW id \in Nat, NEW k \in Nat, NEW u \in Seq(Nat),
           u = WithBytes(s, id, k)
    PROVE  /\ Len(u) = Len(s) + k /\ (k = 0 => u = s)
           /\ \A j \in 1 .. Len(s) : u[j] = s[j]
           /\ \A j \in Len(s) + 1 .. Len(s) + k : u[j] = id
<1>1. PICK b \in Seq(Nat) : b = U!Bytes(id, k) /\ Len(b) = k /\ \A j \in 1 .. k : b[j] = id
  BY BytesAreSeq
<1>2. /\ Len(u) = Len(s) + k
      /\ \A j \in 1 .. Len(s) + k : u[j] = IF j <= Len(s) THEN s[j] ELSE b[j - Len(s)]
  BY <1>1, ConcatProperties DEF WithBytes
<1>3. Len(s) \in Nat
  BY LenProperties
<1>4. \A j \in 1 .. Len(s) : u[j] = s[j]
  BY <1>2, <1>3
<1>5. \A j \in Len(s) + 1 .. Len(s) + k : u[j] = id
  BY <1>1, <1>2, <1>3
<1>6. ASSUME k = 0 PROVE u = s
  <2>1. Len(u) = Len(s) /\ \A j \in 1 .. Len(u) : u[j] = s[j]
    BY <1>2, <1>3, <1>4, <1>6
  <2> QED
    BY <2>1, SeqEqual
<1> QED
  BY <1>2, <1>4, <1>5, <1>6

\* What cutting makes of it.
LEMMA CutFacts ==
    ASSUME NEW s \in Seq(Nat), NEW n \in Nat
    PROVE  /\ U!Cut(s, n) \in Seq(Nat) /\ Len(U!Cut(s, n)) = n
           /\ \A j \in 1 .. n : j <= Len(s) => U!Cut(s, n)[j] = s[j]
<1>1. PICK b : b = U!Cut(s, n)
  OBVIOUS
<1>2. Len(s) \in Nat /\ \A j \in 1 .. Len(s) : s[j] \in Nat
  BY LenProperties
<1>3. b \in [1 .. n -> Nat] /\ \A j \in 1 .. n : j <= Len(s) => b[j] = s[j]
  BY <1>1, <1>2 DEF U!Cut
<1>4. b \in Seq(Nat)
  BY <1>3, SeqDef
<1>5. Len(b) = n
  BY <1>3, <1>4, LenProperties
<1> QED
  BY <1>1, <1>3, <1>4, <1>5

LEMMA UploadInit == ASSUME U!UInit PROVE UploadInv
<1>1. /\ st = "none" /\ bytes = 0 /\ inode = [i \in U!Inodes |-> <<>>] /\ link = 0 /\ umade = 0
      /\ cas = {} /\ rows = {} /\ ureq = [c \in Clients |-> U!NoReq] /\ ops = 0
      /\ sweep = "no" /\ utorn = {} /\ upast = {}
  BY DEF U!UInit
<1>2. <<>> \in Seq(Nat)
  OBVIOUS
<1>3. UploadTypes
  BY <1>1, <1>2, NoReqFacts, SessionsAssumption DEF UploadTypes
<1>4. RequestsNumbered
  BY <1>1, NoReqFacts, InodesFact DEF RequestsNumbered, Busy
<1>5. Opening = {}
  BY <1>1, NoReqFacts DEF Opening
<1>6. FilesBounded
  BY <1>1, <1>5, FS_EmptySet DEF FilesBounded
<1>7. StoredIntact /\ RowsStored /\ BytesCounted
  BY <1>1, NoReqFacts DEF StoredIntact, RowsStored, BytesCounted, Undisturbed
<1> QED
  BY <1>3, <1>4, <1>6, <1>7 DEF UploadInv

\* A request under way moves on, or ends.
LEMMA UploadMoves ==
    ASSUME UploadInv, NEW c \in Clients, NEW r \in UploadRequest, Busy(c),
           ureq' = [ureq EXCEPT ![c] = r], UNCHANGED <<ops, umade, sweep>>, st' \in {st, "gone"},
           \/ r = U!NoReq
           \/ r.pc \notin {"idle", "open"} /\ r.id = ureq[c].id /\ (r.pc = "write" => r.fd # 0)
    PROVE  /\ RequestsNumbered' /\ FilesBounded' /\ st # "none" /\ st' \in {"none", "open", "gone"}
           /\ ureq' \in [Clients -> UploadRequest]
           /\ ureq'[c] = r /\ \A d \in Clients \ {c} : ureq'[d] = ureq[d]
<1>1. /\ ureq' \in [Clients -> UploadRequest] /\ ureq'[c] = r
      /\ \A d \in Clients \ {c} : ureq'[d] = ureq[d]
  <2>1. ureq \in [Clients -> UploadRequest]
    BY DEF UploadInv, UploadTypes
  <2> QED
    BY <2>1
<1>2. st # "none" /\ st' # "none" /\ st' \in {"none", "open", "gone"} /\ (sweep = "file" => st' = "gone")
  BY DEF UploadInv, UploadTypes, RequestsNumbered
<1>3. RequestsNumbered'
  <2>1. \A d \in Clients : ureq'[d].pc # "idle" => Busy(d) /\ ureq'[d].id = ureq[d].id
    BY <1>1, NoReqFacts DEF Busy
  <2>2. \A d \in Clients : ureq'[d].pc = "write" => ureq'[d].fd # 0
    BY <1>1, NoReqFacts DEF UploadInv, RequestsNumbered
  <2>3. \A d \in Clients : ureq'[d].pc = "idle" => ureq'[d] = U!NoReq
    BY <1>1 DEF UploadInv, RequestsNumbered, Busy
  <2> QED
    BY <1>2, <2>1, <2>2, <2>3 DEF UploadInv, RequestsNumbered, Busy, U!NoReq
<1>4. FilesBounded'
  <2>1. Opening' \in SUBSET Opening
    BY <1>1, NoReqFacts DEF Opening
  <2>2. Cardinality(Opening') \in Nat /\ Cardinality(Opening') <= Cardinality(Opening)
    BY <2>1, OpeningCounted, FS_Subset, FS_CardinalityType
  <2> QED
    BY <2>2, OpeningCounted DEF UploadInv, UploadTypes, FilesBounded
<1> QED
  BY <1>1, <1>2, <1>3, <1>4

\* The session's file is written, or another: whatever the store has hashed
\* is noted as torn.
LEMMA WriteKeepsStored ==
    ASSUME UploadInv, NEW x \in U!Inodes, NEW s \in Seq(Nat), inode' = [inode EXCEPT ![x] = s],
           UNCHANGED <<cas, rows, link>>, utorn \subseteq utorn',
           s # inode[x] /\ U!Hashed(x) => x \in utorn',
           \A d \in Clients : ureq'[d].pc \in {"rename", "commit"} => ureq'[d] = ureq[d]
    PROVE  StoredIntact' /\ RowsStored'
<1>1. inode \in [U!Inodes -> Seq(Nat)] /\ cas \subseteq StoredFile /\ link \in U!Inodes \cup {0}
  BY DEF UploadInv, UploadTypes
<1>2. inode'[x] = s /\ \A i \in U!Inodes \ {x} : inode'[i] = inode[i]
  BY <1>1
<1>3. \A e \in cas : inode'[e.i] = e.d \/ e.i \in utorn'
  <2>1. SUFFICES ASSUME NEW e \in cas PROVE inode'[e.i] = e.d \/ e.i \in utorn'
    OBVIOUS
  <2>2. e.i \in U!Inodes /\ (inode[e.i] = e.d \/ e.i \in utorn) /\ U!Hashed(e.i)
    BY <1>1 DEF StoredFile, UploadInv, StoredIntact, U!Hashed
  <2> QED
    BY <1>2, <2>2
<1>4. \A d \in Clients : ureq'[d].pc = "rename" /\ link' # 0 =>
         inode'[link'] = ureq'[d].hash \/ link' \in utorn'
  <2>1. SUFFICES ASSUME NEW d \in Clients, ureq'[d].pc = "rename", link # 0
                 PROVE  inode'[link] = ureq'[d].hash \/ link \in utorn'
    OBVIOUS
  <2>2. ureq[d].pc = "rename" /\ ureq'[d].hash = ureq[d].hash
    BY <2>1
  <2>3. link \in U!Inodes /\ (inode[link] = ureq[d].hash \/ link \in utorn)
    BY <1>1, <2>1, <2>2 DEF UploadInv, StoredIntact
  <2>4. U!Hashed(link)
    BY <2>2 DEF U!Hashed, U!Renaming
  <2> QED
    BY <1>2, <2>2, <2>3, <2>4
<1>5. StoredIntact'
  BY <1>3, <1>4 DEF UploadInv, StoredIntact
<1>6. RowsStored'
  BY DEF UploadInv, RowsStored
<1> QED
  BY <1>5, <1>6

\* No file is written.
LEMMA NoWriteKeepsStored ==
    ASSUME UploadInv, UNCHANGED <<inode, cas, utorn>>, link' \in {link, 0},
           \A d \in rows' : d \in rows \/ \E c \in Clients : ureq[c].pc = "commit" /\ d = ureq[c].hash,
           \A d \in Clients : ureq'[d].pc \in {"rename", "commit"} => ureq'[d] = ureq[d]
    PROVE  StoredIntact' /\ RowsStored'
<1>1. StoredIntact'
  BY DEF UploadInv, StoredIntact
<1>2. RowsStored'
  BY DEF UploadInv, RowsStored
<1> QED
  BY <1>1, <1>2

\* The file is as it was, and so are those who have bytes in it.
LEMMA SameFileCounted ==
    ASSUME UploadInv, UNCHANGED <<link, inode, ops, bytes>>, Undisturbed' => Undisturbed,
           \A d \in Clients :
              /\ (ureq'[d].pc # "idle") = (ureq[d].pc # "idle")
              /\ ureq'[d].id = ureq[d].id /\ ureq'[d].n = ureq[d].n
              /\ ureq'[d].pc = "write" =>
                     ureq[d].pc \in {"open", "write"} /\ ureq'[d].fd \in {ureq[d].fd, link}
                     /\ (ureq[d].pc = "open" => ureq'[d].fd = link)
              /\ ureq'[d].pc = "open" => ureq[d].pc = "open"
              /\ ureq'[d].pc = "check" => ureq[d].pc = "check"
    PROVE  BytesCounted'
<1>1. SUFFICES ASSUME Undisturbed, Undisturbed' PROVE BytesCounted'
  BY DEF BytesCounted
<1>2. Positions' = Positions /\ Settled' = Settled /\ \A d \in Clients : SentBy(d)' = SentBy(d)
  BY DEF Positions, Settled, SentBy, Busy
<1>3. BytesCounted
  BY DEF UploadInv
<1> QED
  BY <1>1, <1>2, <1>3 DEF BytesCounted

LEMMA PostKeeps == ASSUME UploadInv, U!blobUploadPost PROVE UploadInv'
<1>1. /\ st = "none" /\ st' = "open" /\ bytes' = 0 /\ umade' = 1 /\ link' = 1
      /\ UNCHANGED <<inode, cas, rows, ureq, ops, sweep, utorn, upast>>
  BY DEF U!blobUploadPost, U!Create, U!store
<1>2. /\ umade = 0 /\ ops = 0 /\ inode[1] = <<>> /\ \A c \in Clients : ~Busy(c)
  BY <1>1 DEF UploadInv, RequestsNumbered
<1>3. UploadTypes'
  BY <1>1, InodesFact DEF UploadInv, UploadTypes
<1>4. RequestsNumbered'
  BY <1>1 DEF UploadInv, RequestsNumbered, Busy, U!NoReq
<1>5. Opening' = {}
  BY <1>1, <1>2 DEF Opening, Busy
<1>6. FilesBounded'
  BY <1>1, <1>2, <1>5, FS_EmptySet DEF FilesBounded
<1>7. StoredIntact' /\ RowsStored'
  BY <1>1, <1>2 DEF UploadInv, StoredIntact, RowsStored, Busy
<1>8. BytesCounted'
  <2>1. Positions' = {}
    BY <1>1, <1>2 DEF Positions
  <2>2. Settled' = {}
    BY <2>1 DEF Settled
  <2>3. Cardinality(Settled') = bytes'
    BY <1>1, <2>2, FS_EmptySet
  <2> QED
    BY <1>1, <1>2, <2>1, <2>3 DEF BytesCounted, Busy
<1> QED
  BY <1>3, <1>4, <1>6, <1>7, <1>8 DEF UploadInv

LEMMA LookupKeeps ==
    ASSUME UploadInv, NEW c \in Clients, NEW op \in {"patch", "put"}, NEW n \in Nat, U!Lookup(c, op, n)
    PROVE  UploadInv'
<1>1. /\ ureq[c] = U!NoReq /\ st = "open" /\ ops < MaxOps /\ ops' = ops + 1
      /\ UNCHANGED <<st, bytes, inode, link, umade, cas, rows, sweep, utorn, upast>>
  BY DEF U!Lookup, U!files, U!store
<1>2. /\ ops \in Nat /\ ops + 1 \in 1 .. MaxOps /\ bytes \in Nat /\ ops + 1 \in Nat
      /\ ureq \in [Clients -> UploadRequest] /\ umade \in Nat
  BY <1>1, SessionsAssumption DEF UploadInv, UploadTypes
<1>3. PICK r : r = [U!NoReq EXCEPT !.op = op, !.pc = "open", !.id = ops + 1, !.n = n, !.seen = bytes]
  OBVIOUS
<1>4. r \in UploadRequest /\ r.pc = "open" /\ r.id = ops + 1 /\ r.n = n
  BY <1>2, <1>3, NoReqFacts DEF UploadRequest
<1>5. ureq' = [ureq EXCEPT ![c] = r]
  BY <1>3 DEF U!Lookup
<1>6. /\ ureq' \in [Clients -> UploadRequest] /\ ureq'[c] = r
      /\ \A d \in Clients \ {c} : ureq'[d] = ureq[d]
  BY <1>2, <1>4, <1>5
<1>7. ~Busy(c)
  BY <1>1, NoReqFacts DEF Busy
<1>8. UploadTypes'
  BY <1>1, <1>2, <1>6 DEF UploadInv, UploadTypes
<1>9. RequestsNumbered'
  <2>1. \A d \in Clients : ureq'[d].pc # "idle" => ureq'[d].id \in 1 .. ops'
    BY <1>1, <1>2, <1>4, <1>6 DEF UploadInv, RequestsNumbered, Busy
  <2>2. \A a \in Clients, b \in Clients :
           a # b /\ ureq'[a].pc # "idle" /\ ureq'[b].pc # "idle" => ureq'[a].id # ureq'[b].id
    <3>1. \A d \in Clients \ {c} : Busy(d) => ureq[d].id # ops + 1
      BY <1>2 DEF UploadInv, RequestsNumbered
    <3> QED
      BY <1>4, <1>6, <3>1 DEF UploadInv, RequestsNumbered, Busy
  <2>3. \A d \in Clients : /\ ureq'[d].pc = "write" => ureq'[d].fd # 0
                           /\ ureq'[d].pc = "idle" => ureq'[d] = U!NoReq
    BY <1>4, <1>6 DEF UploadInv, RequestsNumbered, Busy
  <2> QED
    BY <1>1, <2>1, <2>2, <2>3 DEF UploadInv, RequestsNumbered, Busy, U!NoReq
<1>10. FilesBounded'
  <2>1. Opening' = Opening \cup {c} /\ c \notin Opening
    BY <1>4, <1>6, <1>7 DEF Opening, Busy
  <2>2. Cardinality(Opening') = Cardinality(Opening) + 1
    BY <2>1, OpeningCounted, FS_AddElement
  <2> QED
    BY <1>1, <1>2, <2>2, OpeningCounted DEF UploadInv, FilesBounded
<1>11. StoredIntact' /\ RowsStored'
  BY <1>1, <1>4, <1>6, NoWriteKeepsStored
<1>12. BytesCounted'
  <2>1. SUFFICES ASSUME Undisturbed' PROVE BytesCounted'
    BY DEF BytesCounted
  <2>2. Undisturbed
    BY <1>1, <1>6, <2>1, NoReqFacts DEF Undisturbed
  <2>3. /\ link # 0 /\ \A j \in Positions : inode[link][j] \in 1 .. ops
        /\ Cardinality(Settled) = bytes
    BY <2>2 DEF UploadInv, BytesCounted
  <2>4. Positions' = Positions
    BY <1>1 DEF Positions
  <2>5. SentBy(c)' = {} /\ \A d \in Clients \ {c} : SentBy(d)' = SentBy(d)
    BY <1>1, <1>2, <1>4, <1>6, <2>3, <2>4 DEF SentBy
  <2>6. Settled' = Settled
    <3>1. \A j \in Positions : inode[link][j] # ops + 1
      BY <1>2, <2>3
    <3> QED
      BY <1>1, <1>4, <1>6, <1>7, <2>4, <3>1 DEF Settled, Busy
  <2>7. \A j \in Positions : inode[link][j] \in 1 .. ops'
    BY <1>1, <1>2, <2>3
  <2> QED
    BY <1>1, <1>4, <1>6, <2>2, <2>3, <2>4, <2>5, <2>6, <2>7 DEF UploadInv, BytesCounted
<1> QED
  BY <1>8, <1>9, <1>10, <1>11, <1>12 DEF UploadInv

LEMMA OpenAppendKeeps == ASSUME UploadInv, NEW c \in Clients, U!openAppend(c) PROVE UploadInv'
<1>1. /\ ureq[c].pc = "open" /\ UNCHANGED <<st, bytes, inode, cas, rows, ops, sweep, upast>>
      /\ \/ link # 0 /\ UNCHANGED <<link, umade, utorn>>
         \/ /\ link = 0 /\ link' = umade + 1 /\ umade' = umade + 1
            /\ utorn' = IF U!Renaming THEN utorn \cup {umade + 1} ELSE utorn
  BY DEF U!openAppend, U!files, U!store
<1>2. /\ ureq \in [Clients -> UploadRequest] /\ umade \in Nat /\ ops \in 0 .. MaxOps
      /\ link \in U!Inodes \cup {0} /\ utorn \subseteq U!Inodes
  BY DEF UploadInv, UploadTypes
<1>3. /\ Opening' = Opening \ {c} /\ Cardinality(Opening') = Cardinality(Opening) - 1
      /\ umade + 1 <= ops + 1
  <2>1. c \in Opening
    BY <1>1 DEF Opening
  <2>2. \A d \in Clients : ureq'[d].pc = "open" <=> d # c /\ ureq[d].pc = "open"
    BY <1>2 DEF U!openAppend, UploadRequest
  <2>3. Opening' = Opening \ {c}
    BY <2>2 DEF Opening
  <2>4. Cardinality(Opening \ {c}) = Cardinality(Opening) - 1
    BY <2>1, OpeningCounted, FS_RemoveElement
  <2>5. IsFiniteSet(Opening \ {c})
    BY OpeningCounted, FS_RemoveElement
  <2>6. Cardinality(Opening \ {c}) \in Nat
    BY <2>5, FS_CardinalityType
  <2> QED
    BY <1>2, <2>3, <2>4, <2>6, OpeningCounted DEF UploadInv, FilesBounded
<1>4. umade + 1 \in U!Inodes
  BY <1>2, <1>3, InodesFact, SessionsAssumption
<1>5. link' \in U!Inodes /\ utorn' \subseteq U!Inodes /\ umade' \in Nat
  BY <1>1, <1>2, <1>4
<1>6. PICK r : r = [ureq[c] EXCEPT !.pc = "write", !.fd = link']
  OBVIOUS
<1>7. /\ r \in UploadRequest /\ r.pc = "write" /\ r.fd = link' /\ r.id = ureq[c].id
      /\ r.n = ureq[c].n /\ link' # 0
  BY <1>2, <1>5, <1>6, InodesFact DEF UploadRequest
<1>8. ureq' = [ureq EXCEPT ![c] = r]
  BY <1>2, <1>6 DEF U!openAppend, UploadRequest
<1>9. /\ ureq' \in [Clients -> UploadRequest] /\ ureq'[c] = r
      /\ \A d \in Clients \ {c} : ureq'[d] = ureq[d]
  BY <1>2, <1>7, <1>8
<1>10. UploadTypes'
  BY <1>1, <1>5, <1>9 DEF UploadInv, UploadTypes
<1>11. RequestsNumbered'
  <2>1. \A d \in Clients : ureq'[d].pc # "idle" => Busy(d) /\ ureq'[d].id = ureq[d].id
    BY <1>1, <1>7, <1>9 DEF Busy
  <2>2. \A d \in Clients : /\ ureq'[d].pc = "write" => ureq'[d].fd # 0
                           /\ ureq'[d].pc = "idle" => ureq'[d] = U!NoReq
    BY <1>7, <1>9 DEF UploadInv, RequestsNumbered, Busy
  <2>3. st # "none"
    BY <1>1 DEF UploadInv, RequestsNumbered, Busy
  <2> QED
    BY <1>1, <2>1, <2>2, <2>3 DEF UploadInv, RequestsNumbered, Busy, U!NoReq
<1>12. FilesBounded'
  BY <1>1, <1>2, <1>3, OpeningCounted DEF UploadInv, FilesBounded
<1>13. StoredIntact' /\ RowsStored'
  <2>1. \A d \in Clients : ureq'[d].pc \in {"rename", "commit"} => ureq'[d] = ureq[d]
    BY <1>7, <1>9
  <2>2. CASE link # 0
    <3>1. UNCHANGED <<inode, cas, utorn, rows, link>>
      BY <1>1, <2>2
    <3> QED
      BY <2>1, <3>1, NoWriteKeepsStored
  <2>3. CASE link = 0
    <3>1. utorn \subseteq utorn' /\ (U!Renaming => link' \in utorn')
      BY <1>1, <2>3
    <3>2. \A d \in Clients : ureq'[d].pc = "rename" => link' \in utorn'
      BY <2>1, <3>1 DEF U!Renaming
    <3>3. \A e \in cas : inode[e.i] = e.d \/ e.i \in utorn'
      BY <3>1 DEF UploadInv, StoredIntact
    <3>4. StoredIntact'
      BY <1>1, <3>2, <3>3 DEF UploadInv, StoredIntact
    <3>5. RowsStored'
      BY <1>1, <2>1 DEF UploadInv, RowsStored
    <3> QED
      BY <3>4, <3>5
  <2> QED
    BY <2>2, <2>3
<1>14. BytesCounted'
  <2>1. SUFFICES ASSUME Undisturbed' PROVE BytesCounted'
    BY DEF BytesCounted
  <2>2. Undisturbed
    BY <1>1, <1>9, <2>1 DEF Undisturbed
  <2>3. link # 0
    BY <2>2 DEF UploadInv, BytesCounted
  <2>4. UNCHANGED <<link, inode, ops, bytes>>
    BY <1>1, <2>3
  <2> QED
    BY <1>1, <1>7, <1>9, <2>2, <2>4, SameFileCounted
<1> QED
  BY <1>10, <1>11, <1>12, <1>13, <1>14 DEF UploadInv

LEMMA AppendChunkKeeps == ASSUME UploadInv, NEW c \in Clients, U!appendChunk(c) PROVE UploadInv'
<1> DEFINE q == ureq[c]
<1>1. /\ q.pc = "write" /\ Busy(c) /\ UNCHANGED <<st, bytes, link, umade, cas, rows, ops, sweep>>
      /\ utorn' = IF U!Hashed(q.fd) /\ q.n > 0 THEN utorn \cup {q.fd} ELSE utorn
  BY DEF U!appendChunk, U!store, Busy
<1>2. /\ ureq \in [Clients -> UploadRequest] /\ inode \in [U!Inodes -> Seq(Nat)]
      /\ link \in U!Inodes \cup {0} /\ q.fd \in U!Inodes /\ q.id \in Nat /\ q.n \in Nat
      /\ utorn \subseteq U!Inodes /\ upast \subseteq {"fault", "refused", "clipped"}
  <2>1. ureq \in [Clients -> UploadRequest] /\ inode \in [U!Inodes -> Seq(Nat)]
        /\ link \in U!Inodes \cup {0} /\ utorn \subseteq U!Inodes
        /\ upast \subseteq {"fault", "refused", "clipped"}
    BY DEF UploadInv, UploadTypes
  <2>2. q.fd # 0
    BY <1>1 DEF UploadInv, RequestsNumbered
  <2> QED
    BY <2>1, <2>2 DEF UploadRequest
<1>3. PICK k \in 0 .. q.n : /\ inode' = [inode EXCEPT ![q.fd] = inode[q.fd] \o U!Bytes(q.id, k)]
                            /\ \/ k = q.n /\ ureq' = [ureq EXCEPT ![c].pc = "check"] /\ upast' = upast
                               \/ ureq' = [ureq EXCEPT ![c] = U!NoReq] /\ upast' = upast \cup {"fault"}
  <2>1. \/ /\ inode' = [inode EXCEPT ![q.fd] = @ \o U!Bytes(q.id, q.n)]
           /\ ureq' = [ureq EXCEPT ![c].pc = "check"] /\ upast' = upast
        \/ \E k \in 0 .. q.n : /\ inode' = [inode EXCEPT ![q.fd] = @ \o U!Bytes(q.id, k)]
                              /\ ureq' = [ureq EXCEPT ![c] = U!NoReq] /\ upast' = upast \cup {"fault"}
    BY DEF U!appendChunk, U!End
  <2>2. q.n \in 0 .. q.n
    BY <1>2
  <2> QED
    BY <2>1, <2>2, Zenon
<1>4. PICK s : s = inode[q.fd] \o U!Bytes(q.id, k)
  OBVIOUS
<1>5. inode[q.fd] \in Seq(Nat) /\ k \in Nat
  BY <1>2
<1>6. /\ s \in Seq(Nat) /\ Len(s) = Len(inode[q.fd]) + k /\ (k = 0 => s = inode[q.fd])
      /\ \A j \in 1 .. Len(inode[q.fd]) : s[j] = inode[q.fd][j]
      /\ \A j \in Len(inode[q.fd]) + 1 .. Len(inode[q.fd]) + k : s[j] = q.id
  <2>1. PICK t \in Seq(Nat) : t = inode[q.fd]
    BY <1>5
  <2>2. PICK id \in Nat : id = q.id
    BY <1>2
  <2>3. s = WithBytes(t, id, k)
    BY <1>4, <2>1, <2>2 DEF WithBytes
  <2>4. /\ s \in Seq(Nat) /\ Len(s) = Len(t) + k /\ (k = 0 => s = t)
        /\ \A j \in 1 .. Len(t) : s[j] = t[j]
        /\ \A j \in Len(t) + 1 .. Len(t) + k : s[j] = id
    <3>1. s \in Seq(Nat)
      BY <1>5, <2>3, WithBytesType
    <3> QED
      BY <1>5, <2>3, <3>1, Appended
  <2> QED
    BY <2>1, <2>2, <2>4
<1>7. inode' = [inode EXCEPT ![q.fd] = s]
  BY <1>3, <1>4
<1>8. PICK r \in UploadRequest :
        /\ ureq' = [ureq EXCEPT ![c] = r]
        /\ \/ r = U!NoReq /\ upast' = upast \cup {"fault"}
           \/ r.pc = "check" /\ r.id = q.id /\ r.n = q.n /\ k = q.n /\ upast' = upast
  <2>1. CASE k = q.n /\ ureq' = [ureq EXCEPT ![c].pc = "check"] /\ upast' = upast
    <3>1. PICK r : r = [q EXCEPT !.pc = "check"]
      OBVIOUS
    <3>2. r \in UploadRequest /\ r.pc = "check" /\ r.id = q.id /\ r.n = q.n
      BY <1>2, <3>1 DEF UploadRequest
    <3>3. ureq' = [ureq EXCEPT ![c] = r]
      BY <1>2, <2>1, <3>1
    <3> QED
      BY <2>1, <3>2, <3>3
  <2>2. CASE ureq' = [ureq EXCEPT ![c] = U!NoReq] /\ upast' = upast \cup {"fault"}
    BY <2>2, NoReqFacts
  <2> QED
    BY <1>3, <2>1, <2>2
<1>9. /\ RequestsNumbered' /\ FilesBounded' /\ st' \in {"none", "open", "gone"}
      /\ ureq' \in [Clients -> UploadRequest]
      /\ ureq'[c] = r /\ \A d \in Clients \ {c} : ureq'[d] = ureq[d]
  BY <1>1, <1>8, UploadMoves
<1>10. UploadTypes'
  BY <1>1, <1>2, <1>6, <1>7, <1>8, <1>9 DEF UploadInv, UploadTypes
<1>11. StoredIntact' /\ RowsStored'
  <2>1. s # inode[q.fd] => q.n > 0
    BY <1>2, <1>6
  <2>2. \A d \in Clients : ureq'[d].pc \in {"rename", "commit"} => ureq'[d] = ureq[d]
    BY <1>8, <1>9, NoReqFacts
  <2> QED
    BY <1>1, <1>2, <1>6, <1>7, <2>1, <2>2, WriteKeepsStored
<1>12. BytesCounted'
  <2>1. SUFFICES ASSUME Undisturbed' PROVE BytesCounted'
    BY DEF BytesCounted
  <2>2. r.pc = "check" /\ r.id = q.id /\ r.n = q.n /\ k = q.n /\ upast' = upast
    BY <1>8, <2>1 DEF Undisturbed
  <2>3. Undisturbed
    BY <1>1, <1>9, <2>1, <2>2 DEF Undisturbed
  <2>4. /\ link # 0 /\ q.fd = link /\ SentBy(c) = {} /\ Cardinality(Settled) = bytes
        /\ \A j \in Positions : inode[link][j] \in 1 .. ops
    BY <1>1, <2>3 DEF UploadInv, BytesCounted
  <2>5. PICK m \in Nat : m = Len(inode[link])
    BY <1>5, <2>4, LenProperties
  <2>6. inode'[link'] = s /\ Positions = 1 .. m /\ Positions' = 1 .. m + q.n
    BY <1>1, <1>2, <1>6, <1>7, <2>2, <2>4, <2>5 DEF Positions
  <2>7. /\ \A j \in 1 .. m : s[j] = inode[link][j]
        /\ \A j \in m + 1 .. m + q.n : s[j] = q.id
    BY <1>6, <2>2, <2>4, <2>5
  <2>8. /\ Positions \subseteq Positions' /\ Positions' \ Positions = m + 1 .. m + q.n
    BY <1>2, <2>6
  <2>9. q.id \in 1 .. ops
    BY <1>1 DEF UploadInv, RequestsNumbered
  <2>10. SentBy(c)' = m + 1 .. m + q.n
    BY <1>9, <2>2, <2>4, <2>6, <2>7, <2>8 DEF SentBy
  <2>11. Cardinality(SentBy(c)') = q.n
    <3>1. m + 1 \in Int /\ m + q.n \in Int
      BY <1>2
    <3>2. Cardinality(m + 1 .. m + q.n) = IF m + 1 > m + q.n THEN 0 ELSE (m + q.n) - (m + 1) + 1
      BY <3>1, FS_Interval
    <3> QED
      BY <1>2, <2>10, <3>2
  <2>12. \A d \in Clients \ {c} : ureq[d].pc # "idle" => SentBy(d)' = SentBy(d)
    <3>1. \A d \in Clients \ {c} : ureq[d].pc # "idle" => ureq[d].id # q.id
      BY <1>1 DEF UploadInv, RequestsNumbered, Busy
    <3> QED
      BY <1>9, <2>6, <2>7, <2>8, <3>1 DEF SentBy
  <2>13. Settled' = Settled
    <3>1. \A d \in Clients : /\ (ureq'[d].pc # "idle") = (ureq[d].pc # "idle")
                             /\ ureq'[d].id = ureq[d].id
      BY <1>1, <1>9, <2>2 DEF Busy
    <3>2. Settled' = {j \in Positions' : \A d \in Clients : ureq[d].pc # "idle" => s[j] # ureq[d].id}
      BY <2>6, <3>1 DEF Settled, Busy
    <3>3. \A j \in Positions' \ Positions : s[j] = ureq[c].id /\ ureq[c].pc # "idle"
      BY <1>1, <2>7, <2>8
    <3> QED
      BY <2>6, <2>7, <2>8, <3>2, <3>3 DEF Settled, Busy
  <2>14. \A j \in Positions' : s[j] \in 1 .. ops
    BY <2>4, <2>6, <2>7, <2>8, <2>9
  <2>15. \A d \in Clients : /\ ureq'[d].pc = "write" => ureq'[d].fd = link'
                            /\ ureq'[d].pc \in {"open", "write"} => SentBy(d)' = {}
                            /\ ureq'[d].pc = "check" => Cardinality(SentBy(d)') = ureq'[d].n
    BY <1>1, <1>9, <2>2, <2>3, <2>11, <2>12 DEF UploadInv, BytesCounted
  <2> QED
    BY <1>1, <2>4, <2>6, <2>13, <2>14, <2>15 DEF BytesCounted
<1> QED
  BY <1>9, <1>10, <1>11, <1>12 DEF UploadInv

LEMMA TruncateKeeps == ASSUME UploadInv, NEW c \in Clients, U!truncateFile(c) PROVE UploadInv'
<1> DEFINE q == ureq[c]
<1>1. /\ q.pc = "check" /\ Busy(c) /\ UNCHANGED <<st, bytes, link, umade, cas, rows, ops, sweep>>
      /\ inode' = IF link = 0 THEN inode ELSE [inode EXCEPT ![link] = U!Cut(@, q.seen)]
      /\ utorn' = IF link # 0 /\ U!Hashed(link) THEN utorn \cup {link} ELSE utorn
      /\ upast' = IF link # 0 /\ U!Clips(inode[link], q) THEN upast \cup {"clipped"} ELSE upast
      /\ ureq' = [ureq EXCEPT ![c] = U!NoReq]
  BY DEF U!truncateFile, U!store, U!End, Busy
<1>2. /\ ureq \in [Clients -> UploadRequest] /\ inode \in [U!Inodes -> Seq(Nat)]
      /\ link \in U!Inodes \cup {0} /\ utorn \subseteq U!Inodes
      /\ upast \subseteq {"fault", "refused", "clipped"}
  BY DEF UploadInv, UploadTypes
<1>3. q \in UploadRequest /\ q.seen \in Nat /\ q.id \in Nat
  BY <1>2 DEF UploadRequest
<1>4. /\ RequestsNumbered' /\ FilesBounded' /\ st' \in {"none", "open", "gone"}
      /\ ureq' \in [Clients -> UploadRequest]
      /\ ureq'[c] = U!NoReq /\ \A d \in Clients \ {c} : ureq'[d] = ureq[d]
  BY <1>1, NoReqFacts, UploadMoves
<1>5. CASE link = 0
  <2>1. UNCHANGED <<inode, utorn, upast>>
    BY <1>1, <1>5
  <2>2. UploadTypes'
    BY <1>1, <1>4, <2>1 DEF UploadInv, UploadTypes
  <2>3. StoredIntact' /\ RowsStored'
    BY <1>1, <1>4, <2>1, NoReqFacts, NoWriteKeepsStored
  <2>4. ~Undisturbed'
    <3>1. ~Undisturbed
      BY <1>5 DEF UploadInv, BytesCounted
    <3> QED
      BY <1>1, <1>4, <2>1, <3>1 DEF Undisturbed
  <2>5. BytesCounted'
    BY <2>4 DEF BytesCounted
  <2> QED
    BY <1>4, <2>2, <2>3, <2>5 DEF UploadInv
<1>6. CASE link # 0
  <2>1. PICK s \in Seq(Nat) : s = inode[link]
    BY <1>2, <1>6
  <2>2. PICK t : t = U!Cut(s, q.seen)
    OBVIOUS
  <2>3. t \in Seq(Nat)
    BY <1>3, <2>1, <2>2, CutFacts
  <2>4. inode' = [inode EXCEPT ![link] = t] /\ link \in U!Inodes
    BY <1>1, <1>2, <1>6, <2>1, <2>2
  <2>5. Len(t) = q.seen /\ \A j \in 1 .. q.seen : j <= Len(s) => t[j] = s[j]
    BY <1>3, <2>1, <2>2, <2>3, CutFacts
  <2>6. UploadTypes'
    BY <1>1, <1>2, <1>4, <2>3, <2>4 DEF UploadInv, UploadTypes
  <2>7. StoredIntact' /\ RowsStored'
    <3>1. utorn \subseteq utorn' /\ (U!Hashed(link) => link \in utorn')
      BY <1>1, <1>6
    <3> QED
      BY <1>1, <1>4, <2>3, <2>4, <3>1, NoReqFacts, WriteKeepsStored
  <2>8. BytesCounted'
    <3>1. SUFFICES ASSUME Undisturbed' PROVE BytesCounted'
      BY DEF BytesCounted
    <3>2. upast = {} /\ ~U!Clips(s, q)
      BY <1>1, <1>6, <2>1, <3>1 DEF Undisturbed
    <3>3. Undisturbed
      BY <1>1, <1>4, <3>1, <3>2 DEF Undisturbed
    <3>4. PICK m \in Nat : m = Len(s)
      BY <2>1, LenProperties
    <3>5. q.seen <= m /\ \A j \in 1 .. m : j > q.seen <=> s[j] = q.id
      BY <1>3, <3>2, <3>4 DEF U!Clips
    <3>6. Positions = 1 .. m /\ Positions' = 1 .. q.seen /\ inode'[link'] = t
      BY <1>1, <1>2, <2>1, <2>3, <2>4, <2>5, <3>4 DEF Positions
    <3>7. /\ \A j \in Positions' : j \in Positions /\ t[j] = s[j] /\ s[j] # q.id
          /\ \A j \in Positions \ Positions' : s[j] = q.id
      BY <1>3, <2>5, <3>4, <3>5, <3>6
    <3>8. \A d \in Clients \ {c} : ureq[d].pc # "idle" => ureq[d].id # q.id /\ SentBy(d)' = SentBy(d)
      <4>1. \A d \in Clients \ {c} : ureq[d].pc # "idle" => ureq[d].id # q.id
        BY <1>1 DEF UploadInv, RequestsNumbered, Busy
      <4> QED
        BY <1>4, <2>1, <3>6, <3>7, <4>1 DEF SentBy
    <3>9. Settled' = Settled
      <4>1. Settled' = {j \in Positions' : \A d \in Clients \ {c} : ureq[d].pc # "idle" => t[j] # ureq[d].id}
        BY <1>4, <3>6, NoReqFacts DEF Settled, Busy
      <4>2. Settled = {j \in Positions : s[j] # q.id /\ \A d \in Clients \ {c} :
                                             ureq[d].pc # "idle" => s[j] # ureq[d].id}
        BY <1>1, <2>1 DEF Settled, Busy
      <4> QED
        BY <3>7, <4>1, <4>2
    <3>10. \A j \in Positions : s[j] \in 1 .. ops
      BY <2>1, <3>3 DEF UploadInv, BytesCounted
    <3>11. \A j \in Positions' : t[j] \in 1 .. ops
      BY <3>7, <3>10
    <3>12. \A d \in Clients : /\ ureq'[d].pc = "write" => ureq'[d].fd = link'
                              /\ ureq'[d].pc \in {"open", "write"} => SentBy(d)' = {}
                              /\ ureq'[d].pc = "check" => Cardinality(SentBy(d)') = ureq'[d].n
      BY <1>1, <1>4, <3>3, <3>8, NoReqFacts DEF UploadInv, BytesCounted
    <3>13. Cardinality(Settled) = bytes
      BY <3>3 DEF UploadInv, BytesCounted
    <3> QED
      BY <1>1, <1>6, <3>6, <3>9, <3>11, <3>12, <3>13 DEF BytesCounted
  <2> QED
    BY <1>4, <2>6, <2>7, <2>8 DEF UploadInv
<1> QED
  BY <1>5, <1>6

LEMMA AppendBytesKeeps == ASSUME UploadInv, NEW c \in Clients, U!AppendBytes(c) PROVE UploadInv'
<1> DEFINE q == ureq[c]
<1>1. /\ q.pc = "check" /\ Busy(c) /\ ureq' = [ureq EXCEPT ![c] = U!NoReq]
      /\ UNCHANGED <<st, inode, link, umade, cas, rows, ops, sweep, utorn>>
      /\ \/ bytes' = bytes + q.n /\ upast' = upast
         \/ upast' = upast \cup {"fault"} /\ bytes' = bytes
  BY DEF U!AppendBytes, U!files, U!store, U!End, Busy
<1>2. /\ ureq \in [Clients -> UploadRequest] /\ bytes \in Nat
      /\ upast \subseteq {"fault", "refused", "clipped"} /\ inode \in [U!Inodes -> Seq(Nat)]
      /\ link \in U!Inodes \cup {0}
  BY DEF UploadInv, UploadTypes
<1>3. q.n \in Nat
  BY <1>2 DEF UploadRequest
<1>4. /\ RequestsNumbered' /\ FilesBounded' /\ st' \in {"none", "open", "gone"}
      /\ ureq' \in [Clients -> UploadRequest]
      /\ ureq'[c] = U!NoReq /\ \A d \in Clients \ {c} : ureq'[d] = ureq[d]
  BY <1>1, NoReqFacts, UploadMoves
<1>5. UploadTypes'
  <2>1. PICK m \in Nat : m = bytes + q.n
    BY <1>2, <1>3
  <2>2. bytes' \in Nat /\ upast' \subseteq {"fault", "refused", "clipped"}
    BY <1>1, <1>2, <2>1
  <2> QED
    BY <1>1, <1>4, <2>2 DEF UploadInv, UploadTypes
<1>6. StoredIntact' /\ RowsStored'
  BY <1>1, <1>4, NoReqFacts, NoWriteKeepsStored
<1>7. BytesCounted'
  <2>1. SUFFICES ASSUME Undisturbed' PROVE BytesCounted'
    BY DEF BytesCounted
  <2>2. bytes' = bytes + q.n /\ upast' = upast
    BY <1>1, <2>1 DEF Undisturbed
  <2>3. Undisturbed
    BY <1>1, <1>4, <2>1, <2>2 DEF Undisturbed
  <2>4. /\ link # 0 /\ Cardinality(SentBy(c)) = q.n /\ Cardinality(Settled) = bytes
        /\ \A j \in Positions : inode[link][j] \in 1 .. ops
    BY <1>1, <2>3 DEF UploadInv, BytesCounted
  <2>5. Positions' = Positions /\ IsFiniteSet(Positions)
    <3>1. Len(inode[link]) \in Int
      BY <1>2, <2>4, LenProperties
    <3> QED
      BY <1>1, <3>1, FS_Interval DEF Positions
  <2>6. Settled' = Settled \cup SentBy(c) /\ Settled \cap SentBy(c) = {}
    <3>1. Settled' = {j \in Positions : \A d \in Clients \ {c} : ureq[d].pc # "idle" => inode[link][j] # ureq[d].id}
      BY <1>1, <1>4, <2>5, NoReqFacts DEF Settled, Busy
    <3>2. \A d \in Clients \ {c} : ureq[d].pc # "idle" => ureq[d].id # q.id
      BY <1>1 DEF UploadInv, RequestsNumbered, Busy
    <3> QED
      BY <1>1, <3>1, <3>2 DEF Settled, SentBy, Busy
  <2>7. IsFiniteSet(Settled) /\ IsFiniteSet(SentBy(c))
    <3>1. Settled \in SUBSET Positions /\ SentBy(c) \in SUBSET Positions
      BY DEF Settled, SentBy
    <3> QED
      BY <2>5, <3>1, FS_Subset
  <2>8. Cardinality(Settled') = bytes'
    <3>1. Cardinality(Settled \cup SentBy(c))
            = Cardinality(Settled) + Cardinality(SentBy(c)) - Cardinality(Settled \cap SentBy(c))
      BY <2>7, FS_Union
    <3>2. Cardinality(Settled \cap SentBy(c)) = 0
      BY <2>6, FS_EmptySet
    <3>3. Cardinality(Settled \cup SentBy(c)) = bytes + q.n - 0
      BY <2>4, <3>1, <3>2
    <3> QED
      BY <1>2, <1>3, <2>2, <2>6, <3>3
  <2>9. \A d \in Clients \ {c} : SentBy(d)' = SentBy(d)
    BY <1>1, <1>4, <2>5 DEF SentBy
  <2>10. \A d \in Clients : /\ ureq'[d].pc = "write" => ureq'[d].fd = link'
                            /\ ureq'[d].pc \in {"open", "write"} => SentBy(d)' = {}
                            /\ ureq'[d].pc = "check" => Cardinality(SentBy(d)') = ureq'[d].n
    BY <1>1, <1>4, <2>3, <2>9, NoReqFacts DEF UploadInv, BytesCounted
  <2> QED
    BY <1>1, <2>4, <2>5, <2>8, <2>10 DEF BytesCounted
<1> QED
  BY <1>4, <1>5, <1>6, <1>7 DEF UploadInv

LEMMA ShaKeeps == ASSUME UploadInv, NEW c \in Clients, U!sha256OfFile(c) PROVE UploadInv'
<1> DEFINE q == ureq[c]
<1>1. /\ q.pc = "check" /\ Busy(c)
      /\ UNCHANGED <<st, bytes, inode, link, umade, cas, rows, ops, sweep, utorn>>
      /\ \/ /\ link # 0 /\ ureq' = [ureq EXCEPT ![c].pc = "hash", ![c].actual = inode[link]]
            /\ upast' = upast
         \/ ureq' = [ureq EXCEPT ![c] = U!NoReq] /\ upast' = upast \cup {"refused"}
  BY DEF U!sha256OfFile, U!files, U!store, U!End, Busy
<1>2. /\ ureq \in [Clients -> UploadRequest] /\ inode \in [U!Inodes -> Seq(Nat)]
      /\ link \in U!Inodes \cup {0} /\ upast \subseteq {"fault", "refused", "clipped"}
  BY DEF UploadInv, UploadTypes
<1>3. PICK r \in UploadRequest :
        /\ ureq' = [ureq EXCEPT ![c] = r]
        /\ \/ r = U!NoReq /\ upast' = upast \cup {"refused"}
           \/ r.pc = "hash" /\ r.id = q.id /\ r.n = q.n /\ upast' = upast
  <2>1. CASE link # 0 /\ ureq' = [ureq EXCEPT ![c].pc = "hash", ![c].actual = inode[link]] /\ upast' = upast
    <3>1. PICK s \in Seq(Nat) : s = inode[link]
      BY <1>2, <2>1
    <3>2. PICK r : r = [q EXCEPT !.pc = "hash", !.actual = s]
      OBVIOUS
    <3>3. r \in UploadRequest /\ r.pc = "hash" /\ r.id = q.id /\ r.n = q.n
      BY <1>2, <3>1, <3>2 DEF UploadRequest
    <3>4. ureq' = [ureq EXCEPT ![c] = r]
      BY <1>2, <2>1, <3>1, <3>2 DEF UploadRequest
    <3> QED
      BY <2>1, <3>3, <3>4
  <2>2. CASE ureq' = [ureq EXCEPT ![c] = U!NoReq] /\ upast' = upast \cup {"refused"}
    BY <2>2, NoReqFacts
  <2> QED
    BY <1>1, <2>1, <2>2
<1>4. /\ RequestsNumbered' /\ FilesBounded' /\ st' \in {"none", "open", "gone"}
      /\ ureq' \in [Clients -> UploadRequest]
      /\ ureq'[c] = r /\ \A d \in Clients \ {c} : ureq'[d] = ureq[d]
  BY <1>1, <1>3, UploadMoves
<1>5. UploadTypes'
  BY <1>1, <1>2, <1>3, <1>4 DEF UploadInv, UploadTypes
<1>6. StoredIntact' /\ RowsStored'
  <2>1. \A d \in Clients : ureq'[d].pc \in {"rename", "commit"} => ureq'[d] = ureq[d]
    BY <1>3, <1>4, NoReqFacts
  <2> QED
    BY <1>1, <2>1, NoWriteKeepsStored
<1>7. BytesCounted'
  <2>1. SUFFICES ASSUME Undisturbed' PROVE BytesCounted'
    BY DEF BytesCounted
  <2>2. r.pc = "hash" /\ r.id = q.id /\ r.n = q.n /\ upast' = upast
    BY <1>3, <2>1 DEF Undisturbed
  <2>3. Undisturbed
    BY <1>1, <1>4, <2>1, <2>2 DEF Undisturbed
  <2> QED
    BY <1>1, <1>4, <2>2, <2>3, SameFileCounted
<1> QED
  BY <1>4, <1>5, <1>6, <1>7 DEF UploadInv

LEMMA PutFromPathKeeps == ASSUME UploadInv, NEW c \in Clients, U!PutFromPath(c) PROVE UploadInv'
<1> DEFINE q == ureq[c]
<1>1. /\ q.pc = "hash" /\ Busy(c) /\ link # 0
      /\ UNCHANGED <<st, bytes, inode, link, umade, cas, rows, ops, sweep, utorn, upast>>
      /\ ureq' = [ureq EXCEPT ![c].pc = "rename", ![c].hash = inode[link]]
  BY DEF U!PutFromPath, U!files, U!store, Busy
<1>2. /\ ureq \in [Clients -> UploadRequest] /\ inode \in [U!Inodes -> Seq(Nat)]
      /\ link \in U!Inodes \cup {0}
  BY DEF UploadInv, UploadTypes
<1>3. PICK s \in Seq(Nat) : s = inode[link]
  BY <1>1, <1>2
<1>4. PICK r : r = [q EXCEPT !.pc = "rename", !.hash = s]
  OBVIOUS
<1>5. r \in UploadRequest /\ r.pc = "rename" /\ r.id = q.id /\ r.n = q.n /\ r.hash = s
  BY <1>2, <1>3, <1>4 DEF UploadRequest
<1>6. ureq' = [ureq EXCEPT ![c] = r]
  BY <1>1, <1>2, <1>3, <1>4 DEF UploadRequest
<1>7. /\ RequestsNumbered' /\ FilesBounded' /\ st' \in {"none", "open", "gone"}
      /\ ureq' \in [Clients -> UploadRequest]
      /\ ureq'[c] = r /\ \A d \in Clients \ {c} : ureq'[d] = ureq[d]
  BY <1>1, <1>5, <1>6, UploadMoves
<1>8. UploadTypes'
  BY <1>1, <1>7 DEF UploadInv, UploadTypes
<1>9. StoredIntact'
  BY <1>1, <1>3, <1>5, <1>7 DEF UploadInv, StoredIntact
<1>10. RowsStored'
  BY <1>1, <1>5, <1>7 DEF UploadInv, RowsStored
<1>11. Undisturbed' => Undisturbed
  BY <1>1, <1>7 DEF Undisturbed
<1>12. BytesCounted'
  BY <1>1, <1>5, <1>7, <1>11, SameFileCounted
<1> QED
  BY <1>7, <1>8, <1>9, <1>10, <1>12 DEF UploadInv

LEMMA RenameKeeps == ASSUME UploadInv, NEW c \in Clients, U!Rename(c) PROVE UploadInv'
<1> DEFINE q == ureq[c]
<1>1. /\ q.pc = "rename" /\ Busy(c) /\ link # 0 /\ link' = 0
      /\ cas' = IF \E e \in cas : e.d = q.hash THEN cas ELSE cas \cup {[d |-> q.hash, i |-> link]}
      /\ UNCHANGED <<st, bytes, inode, umade, rows, ops, sweep, utorn, upast>>
      /\ ureq' = [ureq EXCEPT ![c].pc = "commit"]
  BY DEF U!Rename, U!Step, Busy
<1>2. /\ ureq \in [Clients -> UploadRequest] /\ cas \subseteq StoredFile /\ link \in U!Inodes \cup {0}
  BY DEF UploadInv, UploadTypes
<1>3. PICK r : r = [q EXCEPT !.pc = "commit"]
  OBVIOUS
<1>4. r \in UploadRequest /\ r.pc = "commit" /\ r.id = q.id /\ r.hash = q.hash /\ q.hash \in Seq(Nat)
  BY <1>2, <1>3 DEF UploadRequest
<1>5. ureq' = [ureq EXCEPT ![c] = r]
  BY <1>1, <1>2, <1>3
<1>6. /\ RequestsNumbered' /\ FilesBounded' /\ st' \in {"none", "open", "gone"}
      /\ ureq' \in [Clients -> UploadRequest]
      /\ ureq'[c] = r /\ \A d \in Clients \ {c} : ureq'[d] = ureq[d]
  BY <1>1, <1>4, <1>5, UploadMoves
<1>7. PICK g : g = [d |-> q.hash, i |-> link]
  OBVIOUS
<1>8. /\ g \in StoredFile /\ g.d = q.hash /\ g.i = link
      /\ \/ cas' = cas /\ \E e \in cas : e.d = q.hash
         \/ cas' = cas \cup {g} /\ \A e \in cas : e.d # q.hash
  BY <1>1, <1>2, <1>4, <1>7 DEF StoredFile
<1>9. UploadTypes'
  BY <1>1, <1>2, <1>6, <1>8 DEF UploadInv, UploadTypes
<1>10. StoredIntact'
  <2>1. inode[g.i] = g.d \/ g.i \in utorn
    BY <1>1, <1>8 DEF UploadInv, StoredIntact
  <2>2. \A e \in cas', h \in cas' : e.d = h.d => e = h
    BY <1>8 DEF UploadInv, StoredIntact
  <2>3. \A e \in cas' : inode[e.i] = e.d \/ e.i \in utorn
    BY <1>8, <2>1 DEF UploadInv, StoredIntact
  <2> QED
    BY <1>1, <2>2, <2>3 DEF StoredIntact
<1>11. RowsStored'
  <2>1. cas \subseteq cas' /\ \E e \in cas' : e.d = r.hash
    BY <1>4, <1>8
  <2> QED
    BY <1>1, <1>6, <2>1 DEF UploadInv, RowsStored
<1>12. ~Undisturbed'
  BY <1>4, <1>6 DEF Undisturbed
<1>13. BytesCounted'
  BY <1>12 DEF BytesCounted
<1> QED
  BY <1>6, <1>9, <1>10, <1>11, <1>13 DEF UploadInv

LEMMA PromoteFailsKeeps == ASSUME UploadInv, NEW c \in Clients, U!PromoteFails(c) PROVE UploadInv'
<1>1. /\ Busy(c) /\ link' = 0 /\ ureq' = [ureq EXCEPT ![c] = U!NoReq] /\ upast' = upast \cup {"fault"}
      /\ UNCHANGED <<st, bytes, inode, umade, cas, rows, ops, sweep, utorn>>
  BY DEF U!PromoteFails, U!store, U!End, Busy
<1>2. /\ RequestsNumbered' /\ FilesBounded' /\ st' \in {"none", "open", "gone"}
      /\ ureq' \in [Clients -> UploadRequest]
      /\ ureq'[c] = U!NoReq /\ \A d \in Clients \ {c} : ureq'[d] = ureq[d]
  BY <1>1, NoReqFacts, UploadMoves
<1>3. UploadTypes'
  BY <1>1, <1>2 DEF UploadInv, UploadTypes
<1>4. StoredIntact' /\ RowsStored'
  BY <1>1, <1>2, NoReqFacts, NoWriteKeepsStored
<1>5. BytesCounted'
  BY <1>1 DEF BytesCounted, Undisturbed
<1> QED
  BY <1>2, <1>3, <1>4, <1>5 DEF UploadInv

LEMMA UploadCommitKeeps == ASSUME UploadInv, NEW c \in Clients, U!Commit(c) PROVE UploadInv'
<1> DEFINE q == ureq[c]
<1>1. /\ q.pc = "commit" /\ Busy(c) /\ ureq' = [ureq EXCEPT ![c] = U!NoReq]
      /\ UNCHANGED <<bytes, inode, link, umade, cas, ops, sweep, utorn>>
      /\ \/ q.hash = q.actual /\ rows' = rows \cup {q.actual} /\ st' = "gone" /\ upast' = upast
         \/ upast' = upast \cup {"fault"} /\ rows' = rows /\ st' = st
  BY DEF U!Commit, U!files, U!End, Busy
<1>2. /\ RequestsNumbered' /\ FilesBounded' /\ st' \in {"none", "open", "gone"}
      /\ ureq' \in [Clients -> UploadRequest]
      /\ ureq'[c] = U!NoReq /\ \A d \in Clients \ {c} : ureq'[d] = ureq[d]
  BY <1>1, NoReqFacts, UploadMoves
<1>3. UploadTypes'
  BY <1>1, <1>2 DEF UploadInv, UploadTypes
<1>4. StoredIntact' /\ RowsStored'
  <2>1. \A d \in rows' : d \in rows \/ \E b \in Clients : ureq[b].pc = "commit" /\ d = ureq[b].hash
    BY <1>1
  <2> QED
    BY <1>1, <1>2, <2>1, NoReqFacts, NoWriteKeepsStored
<1>5. BytesCounted'
  BY <1>1 DEF BytesCounted, Undisturbed
<1> QED
  BY <1>2, <1>3, <1>4, <1>5 DEF UploadInv

LEMMA UploadPruneKeeps == ASSUME UploadInv, U!PruneExpiredReturning \/ U!RemoveTmp PROVE UploadInv'
<1>1. /\ st' = "gone" /\ link' \in {link, 0} /\ sweep' \in {"no", "file"} /\ st # "none"
      /\ UNCHANGED <<bytes, inode, umade, cas, rows, ureq, ops, utorn, upast>>
  BY DEF UploadInv, RequestsNumbered, U!PruneExpiredReturning, U!RemoveTmp, U!files, U!store
<1>2. UploadTypes'
  BY <1>1 DEF UploadInv, UploadTypes
<1>3. RequestsNumbered'
  BY <1>1 DEF UploadInv, RequestsNumbered, Busy, U!NoReq
<1>4. FilesBounded'
  BY <1>1 DEF UploadInv, FilesBounded, Opening
<1>5. StoredIntact' /\ RowsStored'
  BY <1>1, NoWriteKeepsStored
<1>6. BytesCounted'
  BY <1>1 DEF BytesCounted, Undisturbed
<1> QED
  BY <1>2, <1>3, <1>4, <1>5, <1>6 DEF UploadInv

LEMMA UploadStep == ASSUME UploadInv, U!UNext \/ UNCHANGED uvars PROVE UploadInv'
<1>1. CASE UNCHANGED uvars
  <2>1. UNCHANGED <<st, bytes, inode, link, umade, cas, rows, ureq, ops, sweep, utorn, upast>>
    BY <1>1 DEF uvars
  <2>2. UploadTypes' /\ RequestsNumbered'
    BY <2>1 DEF UploadInv, UploadTypes, RequestsNumbered, Busy, U!NoReq
  <2>3. FilesBounded' /\ StoredIntact' /\ RowsStored'
    BY <2>1 DEF UploadInv, FilesBounded, Opening, StoredIntact, RowsStored
  <2>4. BytesCounted'
    BY <2>1 DEF UploadInv, BytesCounted, Undisturbed, Positions, SentBy, Settled, Busy
  <2> QED
    BY <2>2, <2>3, <2>4 DEF UploadInv
<1>2. CASE U!blobUploadPost \/ U!PruneExpiredReturning \/ U!RemoveTmp
  BY <1>2, PostKeeps, UploadPruneKeeps
<1>3. CASE \E c \in Clients : \/ \E n \in 1 .. ChunkMax + 1 : U!blobUploadPatch(c, n)
                              \/ \E n \in 0 .. ChunkMax + 1 : U!blobUploadPut(c, n)
  <2>1. \A n \in 0 .. ChunkMax + 1 : n \in Nat
    BY SessionsAssumption
  <2>2. PICK c \in Clients : \/ \E n \in 1 .. ChunkMax + 1 : U!Lookup(c, "patch", n)
                             \/ \E n \in 0 .. ChunkMax + 1 : U!Lookup(c, "put", n)
    BY <1>3 DEF U!blobUploadPatch, U!blobUploadPut
  <2>3. \E n \in Nat : U!Lookup(c, "patch", n) \/ U!Lookup(c, "put", n)
    BY <2>1, <2>2, SessionsAssumption
  <2> QED
    BY <2>3, LookupKeeps
<1>4. CASE \E c \in Clients : \/ U!openAppend(c) \/ U!appendChunk(c) \/ U!truncateFile(c)
                              \/ U!AppendBytes(c) \/ U!sha256OfFile(c) \/ U!PutFromPath(c)
                              \/ U!Rename(c) \/ U!PromoteFails(c) \/ U!Commit(c)
  BY <1>4, OpenAppendKeeps, AppendChunkKeeps, TruncateKeeps, AppendBytesKeeps, ShaKeeps,
     PutFromPathKeeps, RenameKeeps, PromoteFailsKeeps, UploadCommitKeeps
<1> QED
  BY <1>1, <1>2, <1>3, <1>4 DEF U!UNext

LEMMA UploadShows == ASSUME UploadInv PROVE U!UTypeOK /\ U!BlobsIntact /\ U!BytesExact
<1>1. U!UTypeOK
  <2>1. /\ umade \in Nat /\ ops \in 0 .. MaxOps /\ umade + Cardinality(Opening) <= ops + 1
    BY DEF UploadInv, UploadTypes, FilesBounded
  <2>2. umade \in 0 .. MaxOps + 1
    BY <2>1, OpeningCounted, SessionsAssumption
  <2> QED
    BY <2>2 DEF UploadInv, UploadTypes, StoredFile, U!UTypeOK
<1>2. U!BlobsIntact
  <2>1. SUFFICES ASSUME NEW d \in rows
                 PROVE  \E e \in cas : e.d = d /\ (U!blobGet(d) = {d} \/ e.i \in utorn)
    BY DEF U!BlobsIntact
  <2>2. PICK e \in cas : e.d = d
    BY DEF UploadInv, RowsStored
  <2>3. {x \in cas : x.d = d /\ d \in rows} = {e}
    BY <2>2 DEF UploadInv, StoredIntact
  <2>4. U!blobGet(d) = {inode[e.i]}
    BY <2>3 DEF U!blobGet
  <2>5. inode[e.i] = d \/ e.i \in utorn
    BY <2>2 DEF UploadInv, StoredIntact
  <2> QED
    BY <2>2, <2>4, <2>5
<1>3. U!BytesExact
  <2>1. SUFFICES ASSUME st = "open", upast = {}, \A c \in Clients : ureq[c] = U!NoReq
                 PROVE  link # 0 /\ Len(inode[link]) = bytes
    BY DEF U!BytesExact, U!blobUploadStatus
  <2>2. Undisturbed
    BY <2>1, NoReqFacts DEF Undisturbed
  <2>3. link # 0 /\ Cardinality(Settled) = bytes
    BY <2>2 DEF UploadInv, BytesCounted
  <2>4. Settled = 1 .. Len(inode[link])
    BY <2>1, NoReqFacts DEF Settled, Positions, Busy
  <2>5. Len(inode[link]) \in Nat
    BY <2>3, LenProperties DEF UploadInv, UploadTypes
  <2>6. Cardinality(1 .. Len(inode[link])) = Len(inode[link])
    BY <2>5, FS_Interval
  <2> QED
    BY <2>3, <2>4, <2>6
<1> QED
  BY <1>1, <1>2, <1>3

(* UploadSessions: whatever requests of a session overlap and whenever the *)
(* collector prunes it, an acknowledged blob is in the store with the      *)
(* content its digest says, unless its file was written to after it had    *)
(* been hashed; and the length to resume at is the file's as long as no    *)
(* step failed or cut off another request's bytes.  For any number of      *)
(* requests and any limits (cas.go:140 to 200, blobs.go:241 to 440).       *)
THEOREM UploadsStayExact == Spec => []UploadsExact
<1>1. Init => (part = "uploads" => UploadInv)
  BY UploadInit DEF Init
<1>2. (part = "uploads" => UploadInv) /\ [Next]_vars => (part = "uploads" => UploadInv)'
  BY PartSteps, UploadStep
<1>3. (part = "uploads" => UploadInv) => UploadsExact
  BY UploadShows DEF UploadsExact
<1> QED
  BY <1>1, <1>2, <1>3, PTL DEF Spec

-----------------------------------------------------------------------------
(* The audit log.                                                          *)

AuditLines == 1 .. MaxEvents
AuditCall == [pc : {"idle", "line", "open", "shift", "aside", "in", "write"}, e : 0 .. MaxEvents]

AuditTypes ==
    /\ keep \in {0, 2}
    /\ arows \subseteq AuditLines /\ events \in 0 .. MaxEvents
    /\ arec \in [Clients -> AuditCall] /\ wmu \in Clients \cup {None}
    /\ content \in Seq(Seq(AuditLines)) /\ written \in Seq(AuditLines)
    /\ names \in [0 .. 2 -> 0 .. Len(content)] /\ f \in 1 .. Len(content)
    /\ currentSz \in 0 .. MaxLines /\ afault \subseteq {"shift", "cut"}
    /\ rotating \in [new : 0 .. Len(content), i : -1 .. 1]

MidRotation == {"shift", "aside", "in"}

(* A call past the mutex holds it; what it writes has its row.             *)
CallsSound ==
    /\ \A c \in Clients :
          /\ arec[c].pc \in {"open", "write"} \cup MidRotation => wmu = c
          /\ arec[c].pc # "idle" => arec[c].e \in arows
    /\ \A j \in 1 .. Len(written) : written[j] \in arows

(* The size counted is the size of the open file, which is the current one *)
(* as long as it has room, and a rotation only begins without.             *)
SizesSound ==
    /\ \A i \in 1 .. Len(content) : Len(content[i]) <= MaxLines
    /\ currentSz = Len(content[f])
    /\ currentSz < MaxLines => f = names[0]
    /\ \A c \in Clients :
          /\ arec[c].pc \in {"open"} \cup MidRotation => currentSz = MaxLines
          /\ arec[c].pc = "write" => currentSz < MaxLines

(* No file has two names, and the one a rotation has made has none and is  *)
(* empty.                                                                  *)
NamesSound ==
    /\ \A i, j \in 0 .. 2 : names[i] # 0 /\ names[i] = names[j] => i = j
    /\ \A c \in Clients :
          arec[c].pc \in MidRotation =>
             /\ rotating.new # 0 /\ content[rotating.new] = <<>>
             /\ \A i \in 0 .. 2 : names[i] # rotating.new
             /\ arec[c].pc = "in" => names[0] = 0
             /\ /\ keep = 2 /\ "shift" \notin afault
                /\ arec[c].pc = "aside" \/ (arec[c].pc = "shift" /\ rotating.i < 1)
                => names[1] = 0

(* The lines a+1 .. b of those written.                                    *)
Slice(s, a, b) == Len(s) = b - a /\ \A j \in 1 .. b - a : s[j] = written[a + j]
CutAt(a, b, c) ==
    /\ a <= b /\ b <= c /\ c <= Len(written)
    /\ Slice(W!Lines(2), a, b) /\ Slice(W!Lines(1), b, c) /\ Slice(W!Lines(0), c, Len(written))
    /\ afault = {} /\ a > 0 => Len(written) - a >= 2 * MaxLines
TrailSound ==
    keep = 2 /\ "shift" \notin afault => \E a, b, c \in 0 .. Len(written) : CutAt(a, b, c)

(* Without a failure the files rotated away are full, and there is a       *)
(* second one only after a first.                                          *)
FilesFull ==
    keep = 2 /\ afault = {} =>
        /\ \A i \in {1, 2} : names[i] # 0 => Len(content[names[i]]) = MaxLines
        /\ (\A c \in Clients : arec[c].pc \notin MidRotation) =>
              names[0] = f /\ (names[2] # 0 => names[1] # 0)
        /\ \A c \in Clients :
              /\ arec[c].pc \in {"shift", "aside"} => names[0] = f
              /\ arec[c].pc = "in" => names[1] = f

AuditInv ==
    AuditTypes /\ CallsSound /\ SizesSound /\ NamesSound /\ TrailSound /\ FilesFull

AuditCallInMutex == {"open", "write"} \cup MidRotation

LEMMA AuditBounds == MaxLines \in Nat \ {0} /\ MaxEvents \in Nat /\ None \notin Clients
  BY AuditAssumption, ClientsAssumption

LEMMA AuditInitial ==
    ASSUME W!WInit
    PROVE  AuditInv
<1>n. PICK r : r = W!NoRecord
  OBVIOUS
<1>1. r \in AuditCall /\ r.pc = "idle"
  BY <1>n, AuditBounds DEF W!NoRecord, AuditCall
<1>o. PICK o : o = W!NoRotation
  OBVIOUS
<1>2. /\ content = << <<>> >> /\ Len(content) = 1 /\ content[1] = <<>>
      /\ content \in Seq(Seq(AuditLines)) /\ written = <<>> /\ written \in Seq(AuditLines)
  BY DEF W!WInit
<1>3. o \in [new : 0 .. 1, i : -1 .. 1]
  BY <1>o DEF W!NoRotation
<1>4. /\ names = [n \in 0 .. 2 |-> IF n = 0 THEN 1 ELSE 0] /\ keep \in {0, 2}
      /\ arec = [c \in Clients |-> r] /\ rotating = o
  BY <1>n, <1>o DEF W!WInit, W!KeepMax, W!Names
<1>5. AuditTypes
  BY <1>1, <1>2, <1>3, <1>4, AuditBounds DEF AuditTypes, W!WInit
<1>6. CallsSound
  BY <1>1, <1>2, <1>4 DEF CallsSound, MidRotation
<1>7. SizesSound
  BY <1>1, <1>2, <1>4, AuditBounds DEF SizesSound, MidRotation, W!WInit
<1>8. NamesSound
  BY <1>1, <1>4 DEF NamesSound, MidRotation
<1>9. TrailSound
  <2>1. W!Lines(0) = <<>> /\ W!Lines(1) = <<>> /\ W!Lines(2) = <<>>
    BY <1>2, <1>4 DEF W!Lines
  <2>2. CutAt(0, 0, 0)
    BY <1>2, <2>1 DEF CutAt, Slice
  <2> QED
    BY <1>2, <2>2 DEF TrailSound
<1>10. FilesFull
  BY <1>1, <1>4 DEF FilesFull, MidRotation, W!WInit
<1> QED
  BY <1>5, <1>6, <1>7, <1>8, <1>9, <1>10 DEF AuditInv

LEMMA LinesAre ==
    ASSUME NEW n
    PROVE  /\ W!Lines(n) = IF names[n] = 0 THEN <<>> ELSE content[names[n]]
           /\ W!Lines(n)' = IF names'[n] = 0 THEN <<>> ELSE content'[names'[n]]
  BY DEF W!Lines

\* Who is past the mutex is there alone.
LEMMA AuditAlone ==
    ASSUME AuditInv, NEW c \in Clients, arec[c].pc \in AuditCallInMutex
    PROVE  wmu = c /\ \A d \in Clients : d # c => arec[d].pc \notin AuditCallInMutex
  BY DEF AuditInv, CallsSound, AuditCallInMutex

\* A call that moves on without the files.
LEMMA CallOnly ==
    ASSUME AuditInv, NEW c \in Clients, NEW q \in AuditCall,
           arec' = [arec EXCEPT ![c] = q],
           UNCHANGED <<keep, names, content, f, currentSz, rotating, written, afault>>,
           arows \subseteq arows', arows' \subseteq AuditLines, events' \in 0 .. MaxEvents,
           wmu' \in Clients \cup {None},
           \A d \in Clients : d # c /\ wmu = d => wmu' = d,
           q.pc \in AuditCallInMutex => wmu' = c, q.pc # "idle" => q.e \in arows',
           q.pc \notin MidRotation, arec[c].pc \notin MidRotation,
           q.pc = "open" => currentSz = MaxLines, q.pc = "write" => currentSz < MaxLines
    PROVE  AuditInv'
<1>1. /\ arec' \in [Clients -> AuditCall] /\ arec'[c] = q
      /\ \A d \in Clients : d # c => arec'[d] = arec[d]
  BY DEF AuditInv, AuditTypes
<1>r. \A d \in Clients : /\ arec'[d].pc \in MidRotation <=> arec[d].pc \in MidRotation
                         /\ arec'[d].pc \in MidRotation => arec'[d] = arec[d]
  BY <1>1
<1>2. AuditTypes'
  BY <1>1 DEF AuditInv, AuditTypes
<1>3. CallsSound'
  BY <1>1 DEF AuditInv, CallsSound, AuditCallInMutex
<1>4. SizesSound'
  BY <1>1 DEF AuditInv, SizesSound, MidRotation
<1>5. NamesSound'
  BY <1>r DEF AuditInv, NamesSound
<1>6. TrailSound'
  BY DEF AuditInv, TrailSound, CutAt, Slice, W!Lines
<1>7. FilesFull'
  BY <1>r DEF AuditInv, FilesFull, MidRotation
<1> QED
  BY <1>2, <1>3, <1>4, <1>5, <1>6, <1>7 DEF AuditInv

LEMMA RecordStep ==
    ASSUME AuditInv, NEW c \in Clients, W!Record(c)
    PROVE  AuditInv'
<1>0. PICK n : n = W!NoRecord
  OBVIOUS
<1>n. n.pc = "idle" /\ arec[c] = n /\ n \in AuditCall
  BY <1>0, AuditBounds DEF W!NoRecord, W!Record, AuditCall
<1>1. PICK e \in AuditLines : e = events + 1 /\ e \in 0 .. MaxEvents
  BY AuditBounds DEF W!Record, AuditInv, AuditTypes, AuditLines
<1>2. PICK q : q = [pc |-> "line", e |-> e]
  OBVIOUS
<1>3. q \in AuditCall /\ q.pc = "line" /\ q.e = e
  BY <1>1, <1>2 DEF AuditCall
<1>4. events' = e /\ UNCHANGED <<keep, wmu, names, content, f, currentSz, rotating, written, afault>>
  BY <1>1 DEF W!Record, W!Files
<1>5. \/ arows' = arows \cup {e} /\ arec' = [arec EXCEPT ![c] = q]
      \/ arows' = arows /\ arec' = [arec EXCEPT ![c] = n]
  <2>1. arec = [arec EXCEPT ![c] = n]
    BY <1>n DEF AuditInv, AuditTypes
  <2> QED
    BY <2>1, <1>1, <1>2 DEF W!Record
<1>6. arows \subseteq AuditLines /\ wmu \in Clients \cup {None}
  BY DEF AuditInv, AuditTypes
<1>7. CASE arows' = arows \cup {e} /\ arec' = [arec EXCEPT ![c] = q]
  BY <1>1, <1>3, <1>4, <1>6, <1>7, <1>n, CallOnly DEF AuditCallInMutex, MidRotation
<1>8. CASE arows' = arows /\ arec' = [arec EXCEPT ![c] = n]
  BY <1>1, <1>4, <1>6, <1>8, <1>n, CallOnly DEF AuditCallInMutex, MidRotation
<1> QED
  BY <1>5, <1>7, <1>8

\* The call as it goes on, or over.
LEMMA CallNext ==
    ASSUME AuditInv, NEW c \in Clients,
           NEW x \in {"open", "shift", "aside", "in", "write"}, arec[c].pc # "idle"
    PROVE  /\ \E q \in AuditCall : q = [arec[c] EXCEPT !.pc = x] /\ q.pc = x /\ q.e = arec[c].e /\ q.e \in arows
           /\ \E q \in AuditCall : q = W!NoRecord /\ q.pc = "idle"
<1>1. PICK r \in AuditCall : r = arec[c] /\ r.e \in arows
  BY DEF AuditInv, AuditTypes, CallsSound
<1>2. PICK q : q = [r EXCEPT !.pc = x]
  OBVIOUS
<1>3. q \in AuditCall /\ q.pc = x /\ q.e = r.e
  BY <1>2 DEF AuditCall
<1>4. PICK n : n = W!NoRecord
  OBVIOUS
<1>5. n \in AuditCall /\ n.pc = "idle"
  BY <1>4, AuditBounds DEF W!NoRecord, AuditCall
<1> QED
  BY <1>1, <1>2, <1>3, <1>4, <1>5

LEMMA WriteJSONStep ==
    ASSUME AuditInv, NEW c \in Clients, W!WriteJSON(c)
    PROVE  AuditInv'
<1>1. /\ arec[c].pc = "line" /\ wmu = None /\ wmu' = c
      /\ UNCHANGED <<keep, arows, events, names, content, f, currentSz, rotating, written, afault>>
  BY DEF W!WriteJSON, W!At, W!Files
<1>2. PICK x \in {"open", "write"} : x = IF currentSz > 0 /\ currentSz + 1 > MaxLines THEN "open" ELSE "write"
  OBVIOUS
<1>3. PICK q \in AuditCall : q = [arec[c] EXCEPT !.pc = x] /\ q.pc = x /\ q.e \in arows
  BY <1>1, CallNext
<1>4. arec' = [arec EXCEPT ![c] = q]
  BY <1>2, <1>3 DEF W!WriteJSON, W!Then
<1>5. (x = "open" => currentSz = MaxLines) /\ (x = "write" => currentSz < MaxLines)
  BY <1>2, AuditBounds DEF AuditInv, AuditTypes
<1>6. arows \subseteq AuditLines /\ events \in 0 .. MaxEvents
  BY DEF AuditInv, AuditTypes
<1> QED
  BY <1>1, <1>3, <1>4, <1>5, <1>6, AuditBounds, CallOnly DEF AuditCallInMutex, MidRotation

\* A call that ends and leaves the files as they are.
LEMMA CallOver ==
    ASSUME AuditInv, NEW c \in Clients, arec[c].pc \in {"open", "write"}, W!Over(c),
           UNCHANGED <<keep, arows, events, names, content, f, currentSz, rotating, written, afault>>
    PROVE  AuditInv'
<1>1. wmu = c /\ wmu' = None
  BY AuditAlone DEF W!Over, AuditCallInMutex
<1>x. "open" \in {"open", "shift", "aside", "in", "write"}
  OBVIOUS
<1>2. PICK q \in AuditCall : q = W!NoRecord /\ q.pc = "idle"
  BY <1>x, CallNext
<1>3. arec' = [arec EXCEPT ![c] = q]
  BY <1>2 DEF W!Over
<1>4. arows \subseteq AuditLines /\ events \in 0 .. MaxEvents
  BY DEF AuditInv, AuditTypes
<1> QED
  BY <1>1, <1>2, <1>3, <1>4, AuditBounds, CallOnly DEF AuditCallInMutex, MidRotation

\* What is written later leaves a slice of what was as it is.
LEMMA SliceKept ==
    ASSUME written \in Seq(AuditLines), Len(written') \in Nat, Len(written) <= Len(written'),
           \A j \in 1 .. Len(written) : written'[j] = written[j],
           NEW s, NEW a \in Nat, NEW b \in Nat, a <= b, b <= Len(written), Slice(s, a, b)
    PROVE  Slice(s, a, b)'
<1>1. ASSUME NEW j \in 1 .. b - a PROVE s[j] = written'[a + j]
  <2>1. a + j \in 1 .. Len(written)
    BY LenProperties
  <2> QED
    BY <2>1 DEF Slice
<1> QED
  BY <1>1 DEF Slice

LEMMA WriteStep ==
    ASSUME AuditInv, NEW c \in Clients, W!Write(c)
    PROVE  AuditInv'
<1>t. AuditTypes
  BY DEF AuditInv
<1>1. CASE UNCHANGED <<content, written, currentSz>>
  BY <1>1, CallOver DEF W!Write, W!At
<1>2. CASE /\ content' = [content EXCEPT ![f] = Append(@, arec[c].e)]
           /\ written' = Append(written, arec[c].e)
           /\ currentSz' = currentSz + 1
  <2>p. arec[c].pc = "write"
    BY DEF W!Write, W!At
  <2>u. UNCHANGED <<keep, arows, events, names, f, rotating, afault>>
    BY DEF W!Write
  <2>e. PICK e \in AuditLines : e = arec[c].e /\ e \in arows
    BY <2>p, <1>t DEF AuditInv, CallsSound, AuditTypes
  <2>z. /\ f \in 1 .. Len(content) /\ content \in Seq(Seq(AuditLines)) /\ content[f] \in Seq(AuditLines)
        /\ written \in Seq(AuditLines) /\ currentSz = Len(content[f]) /\ currentSz < MaxLines
        /\ f = names[0] /\ currentSz \in Nat /\ currentSz \in 0 .. MaxLines
    BY <1>t, <2>p, AuditBounds DEF AuditTypes, AuditInv, SizesSound
  <2>0. PICK s \in Seq(AuditLines) : s = Append(content[f], e)
    <3>1. Append(content[f], e) \in Seq(AuditLines)
      BY <2>z, <2>e, AppendProperties
    <3> QED
      BY <3>1
  <2>1. /\ content' = [content EXCEPT ![f] = s] /\ content' \in Seq(Seq(AuditLines))
        /\ Len(content') = Len(content) /\ content'[f] = s
        /\ \A i \in 1 .. Len(content) : i # f => content'[i] = content[i]
    BY <1>2, <2>0, <2>e, <2>z
  <2>2. /\ written' \in Seq(AuditLines) /\ Len(written') = Len(written) + 1
        /\ written'[Len(written) + 1] = e
        /\ \A j \in 1 .. Len(written) : written'[j] = written[j]
    BY <1>2, <2>e, <2>z
  <2>3. /\ Len(s) = currentSz + 1 /\ s[currentSz + 1] = e
        /\ \A j \in 1 .. currentSz : s[j] = content[f][j]
    BY <2>0, <2>e, <2>z
  <2>a. \A d \in Clients : d # c => arec[d].pc \notin AuditCallInMutex
    BY <2>p, AuditAlone DEF AuditCallInMutex
  <2>x. "open" \in {"open", "shift", "aside", "in", "write"}
    OBVIOUS
  <2>q. PICK q \in AuditCall : q = W!NoRecord /\ q.pc = "idle"
    BY <2>p, <2>x, CallNext
  <2>m. /\ arec' \in [Clients -> AuditCall] /\ arec'[c] = q /\ wmu' = None
        /\ \A d \in Clients : d # c => arec'[d] = arec[d]
    BY <2>q, <1>t DEF W!Write, W!Over, AuditTypes
  <2>n. \A d \in Clients : arec'[d].pc \notin AuditCallInMutex
    BY <2>a, <2>m, <2>q DEF AuditCallInMutex, MidRotation
  <2>4. AuditTypes'
    <3>1. currentSz' \in 0 .. MaxLines
      BY <1>2, <2>z, AuditBounds
    <3> QED
      BY <3>1, <1>t, <2>u, <2>1, <2>2, <2>m DEF AuditTypes
  <2>5. CallsSound'
    <3>1. ASSUME NEW j \in 1 .. Len(written') PROVE written'[j] \in arows
      <4>1. j = Len(written) + 1 \/ j \in 1 .. Len(written)
        BY <2>2, <2>z
      <4>2. CASE j = Len(written) + 1
        BY <4>2, <2>2, <2>e
      <4>3. CASE j \in 1 .. Len(written)
        BY <4>3, <2>2 DEF AuditInv, CallsSound
      <4> QED
        BY <4>1, <4>2, <4>3
    <3> QED
      BY <3>1, <2>n, <2>m, <2>q, <2>u DEF AuditInv, CallsSound, AuditCallInMutex
  <2>6. SizesSound'
    <3>1. \A i \in 1 .. Len(content') : Len(content'[i]) <= MaxLines
      BY <2>1, <2>3, <2>z, AuditBounds DEF AuditInv, SizesSound
    <3>2. currentSz' = Len(content'[f])
      BY <1>2, <2>1, <2>3
    <3> QED
      BY <3>1, <3>2, <2>n, <2>u, <2>z DEF SizesSound, AuditCallInMutex
  <2>7. NamesSound'
    BY <2>n, <2>u DEF AuditInv, NamesSound, AuditCallInMutex
  <2>v. \A i \in {1, 2} : names[i] # f /\ (names[i] # 0 => content'[names[i]] = content[names[i]])
    <3>1. \A i \in {1, 2} : names[i] # f
      BY <2>z DEF AuditInv, NamesSound
    <3> QED
      BY <3>1, <2>1, <1>t DEF AuditTypes
  <2>8. TrailSound'
    <3>1. SUFFICES ASSUME keep = 2, "shift" \notin afault
                   PROVE  (\E a, b, d \in 0 .. Len(written) : CutAt(a, b, d))'
      BY <2>u DEF TrailSound
    <3>2. PICK a \in 0 .. Len(written), b \in 0 .. Len(written), d \in 0 .. Len(written) : CutAt(a, b, d)
      BY <3>1 DEF AuditInv, TrailSound
    <3>3. W!Lines(2)' = W!Lines(2) /\ W!Lines(1)' = W!Lines(1) /\ W!Lines(0)' = s /\ W!Lines(0) = content[f]
      <4>1. W!Lines(2)' = W!Lines(2)
        BY <2>v, <2>u DEF W!Lines
      <4>2. W!Lines(1)' = W!Lines(1)
        BY <2>v, <2>u DEF W!Lines
      <4>3. W!Lines(0)' = s /\ W!Lines(0) = content[f]
        BY <2>u, <2>1, <2>z DEF W!Lines
      <4> QED
        BY <4>1, <4>2, <4>3
    <3>k. a <= b /\ b <= d /\ d <= Len(written) /\ Slice(W!Lines(2), a, b) /\ Slice(W!Lines(1), b, d)
      BY <3>2 DEF CutAt
    <3>4. Slice(W!Lines(2), a, b)' /\ Slice(W!Lines(1), b, d)'
      <4>1. PICK t, u : t = W!Lines(2) /\ u = W!Lines(1)
        OBVIOUS
      <4>n. a \in Nat /\ b \in Nat /\ d \in Nat /\ b <= Len(written)
        BY <3>k, <2>z
      <4>2. Slice(t, a, b)' /\ Slice(u, b, d)'
        BY <4>1, <4>n, <3>k, <2>2, <2>z, SliceKept
      <4> QED
        BY <4>1, <4>2, <3>3 DEF Slice
    <3>5. Slice(W!Lines(0), d, Len(written))'
      <4>1. currentSz = Len(written) - d /\ \A j \in 1 .. currentSz : content[f][j] = written[d + j]
        BY <3>2, <3>3, <2>z DEF CutAt, Slice
      <4>2. Len(s) = Len(written') - d
        BY <4>1, <2>2, <2>3, <2>z
      <4>3. ASSUME NEW j \in 1 .. Len(written') - d PROVE s[j] = written'[d + j]
        <5>1. CASE j = currentSz + 1
          BY <5>1, <4>1, <2>2, <2>3, <2>z
        <5>2. CASE j # currentSz + 1
          <6>1. Len(written) \in Nat /\ d \in Nat
            BY <2>z
          <6>l. PICK n \in Nat : n = Len(written) /\ currentSz = n - d
            BY <6>1, <4>1
          <6>2. j \in 1 .. currentSz /\ d + j \in 1 .. n
            <7>1. Len(written') = n + 1 /\ j \in 1 .. (n + 1) - d
              BY <6>l, <2>2
            <7> QED
              BY <7>1, <5>2, <6>l, <6>1
          <6> QED
            BY <6>2, <6>l, <4>1, <2>2, <2>3
        <5> QED
          BY <5>1, <5>2
      <4> QED
        BY <3>3, <4>2, <4>3 DEF Slice
    <3>6. CutAt(a, b, d)'
      BY <3>2, <3>4, <3>5, <2>2, <2>u, <2>z, AuditBounds DEF CutAt
    <3>7. a \in 0 .. Len(written') /\ b \in 0 .. Len(written') /\ d \in 0 .. Len(written')
      BY <2>2, <2>z
    <3> QED
      BY <3>6, <3>7
  <2>9. FilesFull'
    BY <2>v, <2>n, <2>a, <2>u, <2>z, <2>p DEF AuditInv, FilesFull, AuditCallInMutex, MidRotation
  <2> QED
    BY <2>4, <2>5, <2>6, <2>7, <2>8, <2>9 DEF AuditInv
<1> QED
  BY <1>1, <1>2 DEF W!Write

\* The call past the mutex as it goes on.
LEMMA CallMoves ==
    ASSUME AuditInv, NEW c \in Clients, arec[c].pc \in AuditCallInMutex,
           NEW x \in {"open", "shift", "aside", "in", "write"}, W!Then(c, x),
           UNCHANGED <<wmu, arows, written>>
    PROVE  /\ arec' \in [Clients -> AuditCall] /\ arec'[c].pc = x
           /\ \A d \in Clients : d # c => arec'[d].pc \notin AuditCallInMutex
           /\ wmu' \in Clients \cup {None} /\ CallsSound'
<1>i. arec[c].pc # "idle"
  BY DEF AuditCallInMutex, MidRotation
<1>1. PICK q \in AuditCall : q = [arec[c] EXCEPT !.pc = x] /\ q.pc = x /\ q.e \in arows
  BY <1>i, CallNext
<1>2. /\ arec' \in [Clients -> AuditCall] /\ arec'[c] = q
      /\ \A d \in Clients : d # c => arec'[d] = arec[d]
  BY <1>1 DEF W!Then, AuditInv, AuditTypes
<1>3. wmu = c /\ \A d \in Clients : d # c => arec[d].pc \notin AuditCallInMutex
  BY AuditAlone
<1>4. CallsSound'
  BY <1>1, <1>2, <1>3 DEF AuditInv, CallsSound, AuditCallInMutex
<1> QED
  BY <1>1, <1>2, <1>3, <1>4

\* The call past the mutex as it ends.
LEMMA CallEnds ==
    ASSUME AuditInv, NEW c \in Clients, arec[c].pc \in AuditCallInMutex, W!Over(c),
           UNCHANGED <<arows, written>>
    PROVE  /\ arec' \in [Clients -> AuditCall]
           /\ \A d \in Clients : arec'[d].pc \notin AuditCallInMutex
           /\ wmu' \in Clients \cup {None} /\ CallsSound'
<1>i. arec[c].pc # "idle" /\ "open" \in {"open", "shift", "aside", "in", "write"}
  BY DEF AuditCallInMutex, MidRotation
<1>1. PICK q \in AuditCall : q = W!NoRecord /\ q.pc = "idle"
  BY <1>i, CallNext
<1>2. /\ arec' \in [Clients -> AuditCall] /\ arec'[c] = q /\ wmu' = None
      /\ \A d \in Clients : d # c => arec'[d] = arec[d]
  BY <1>1 DEF W!Over, AuditInv, AuditTypes
<1>3. \A d \in Clients : d # c => arec[d].pc \notin AuditCallInMutex
  BY AuditAlone
<1>4. \A d \in Clients : arec'[d].pc \notin AuditCallInMutex
  BY <1>1, <1>2, <1>3 DEF AuditCallInMutex, MidRotation
<1>5. CallsSound'
  BY <1>1, <1>2, <1>4 DEF AuditInv, CallsSound, AuditCallInMutex
<1> QED
  BY <1>2, <1>4, <1>5

\* A file that is made is empty, and leaves the others as they are.
LEMMA NewFile ==
    ASSUME AuditInv, content' = Append(content, <<>>)
    PROVE  /\ content' \in Seq(Seq(AuditLines)) /\ Len(content') = Len(content) + 1
           /\ Len(content) \in Nat /\ content'[Len(content) + 1] = <<>>
           /\ \A i \in 1 .. Len(content) : content'[i] = content[i]
           /\ \A i \in 1 .. Len(content') : Len(content'[i]) <= MaxLines
<1>1. content \in Seq(Seq(AuditLines)) /\ <<>> \in Seq(AuditLines)
  BY DEF AuditInv, AuditTypes
<1>2. /\ content' \in Seq(Seq(AuditLines)) /\ Len(content') = Len(content) + 1
      /\ Len(content) \in Nat /\ content'[Len(content) + 1] = <<>>
      /\ \A i \in 1 .. Len(content) : content'[i] = content[i]
  BY <1>1, AppendProperties
<1>3. ASSUME NEW i \in 1 .. Len(content') PROVE Len(content'[i]) <= MaxLines
  <2>1. CASE i = Len(content) + 1
    BY <2>1, <1>2, AuditBounds
  <2>2. CASE i \in 1 .. Len(content)
    BY <2>2, <1>2 DEF AuditInv, SizesSound
  <2> QED
    BY <2>1, <2>2, <1>2
<1> QED
  BY <1>2, <1>3

LEMMA EmptySlice ==
    ASSUME NEW a \in Nat
    PROVE  Slice(<<>>, a, a)
  BY DEF Slice

\* What the files hold after a step that writes nothing.
LEMMA TrailFrom ==
    ASSUME written' = written, NEW a \in 0 .. Len(written), NEW b \in 0 .. Len(written),
           NEW d \in 0 .. Len(written), a <= b, b <= d, d <= Len(written),
           NEW t, t = W!Lines(2)', NEW u, u = W!Lines(1)', NEW v, v = W!Lines(0)',
           Slice(t, a, b), Slice(u, b, d), Slice(v, d, Len(written)),
           afault' = {} /\ a > 0 => Len(written) - a >= 2 * MaxLines
    PROVE  TrailSound'
<1>1. CutAt(a, b, d)'
  <2>1. Slice(t, a, b)' /\ Slice(u, b, d)' /\ Slice(v, d, Len(written))'
    BY DEF Slice
  <2>2. Slice(W!Lines(2), a, b)' /\ Slice(W!Lines(1), b, d)' /\ Slice(W!Lines(0), d, Len(written))'
    BY <2>1 DEF Slice
  <2> QED
    BY <2>2 DEF CutAt
<1> QED
  BY <1>1 DEF TrailSound

\* The cuts of the trail, as numbers.
LEMMA TrailCuts ==
    ASSUME AuditInv, keep = 2, "shift" \notin afault
    PROVE  /\ Len(written) \in Nat
           /\ \E a, b, d \in 0 .. Len(written) :
                 /\ a <= b /\ b <= d /\ d <= Len(written)
                 /\ Slice(W!Lines(2), a, b) /\ Slice(W!Lines(1), b, d) /\ Slice(W!Lines(0), d, Len(written))
                 /\ afault = {} /\ a > 0 => Len(written) - a >= 2 * MaxLines
<1>1. Len(written) \in Nat
  BY DEF AuditInv, AuditTypes
<1> QED
  BY <1>1 DEF AuditInv, TrailSound, CutAt

LEMMA LinesStay ==
    ASSUME AuditInv, NEW m \in 0 .. 2, names'[m] = names[m],
           \A i \in 1 .. Len(content) : content'[i] = content[i]
    PROVE  W!Lines(m)' = W!Lines(m)
<1>1. names[m] \in 0 .. Len(content)
  BY DEF AuditInv, AuditTypes
<1>2. Len(content) \in Nat
  BY DEF AuditInv, AuditTypes
<1>3. CASE names[m] = 0
  BY <1>3 DEF W!Lines
<1>4. CASE names[m] \in 1 .. Len(content)
  BY <1>2, <1>4 DEF W!Lines
<1> QED
  BY <1>1, <1>2, <1>3, <1>4

LEMMA OpenTmpStep ==
    ASSUME AuditInv, NEW c \in Clients, W!OpenTmp(c)
    PROVE  AuditInv'
<1>t. AuditTypes
  BY DEF AuditInv
<1>p. arec[c].pc = "open" /\ arec[c].pc \in AuditCallInMutex
  BY DEF W!OpenTmp, W!At, AuditCallInMutex
<1>u. UNCHANGED <<keep, arows, events, f, currentSz, written, afault>>
  BY DEF W!OpenTmp
<1>1. CASE W!Over(c) /\ UNCHANGED <<content, rotating, names>>
  BY <1>1, <1>p, <1>u, CallOver
<1>2. CASE /\ content' = Append(content, <<>>)
           /\ rotating' = [new |-> W!Fresh, i |-> keep - 1]
           /\ names' = IF keep > 0 THEN [names EXCEPT ![keep] = 0] ELSE names
           /\ W!Then(c, "shift") /\ UNCHANGED wmu
  <2>c. /\ arec' \in [Clients -> AuditCall] /\ arec'[c].pc = "shift"
        /\ \A d \in Clients : d # c => arec'[d].pc \notin AuditCallInMutex
        /\ wmu' \in Clients \cup {None} /\ CallsSound'
    BY <1>2, <1>p, <1>u, CallMoves
  <2>f. /\ content' \in Seq(Seq(AuditLines)) /\ Len(content') = Len(content) + 1
        /\ Len(content) \in Nat /\ content'[Len(content) + 1] = <<>>
        /\ \A i \in 1 .. Len(content) : content'[i] = content[i]
        /\ \A i \in 1 .. Len(content') : Len(content'[i]) <= MaxLines
    BY <1>2, NewFile
  <2>n. PICK k \in Nat : k = Len(content) + 1
    BY <2>f
  <2>k. PICK i \in {-1, 1} : i = keep - 1 /\ (keep = 2 => i = 1)
    BY <1>t DEF AuditTypes
  <2>r. /\ rotating' = [new |-> k, i |-> i] /\ rotating' \in [new : 0 .. k, i : -1 .. 1]
        /\ rotating'.new = k /\ rotating'.i = i
    BY <1>2, <2>n, <2>k DEF W!Fresh
  <2>g. /\ names' \in [0 .. 2 -> 0 .. Len(content)] /\ names'[0] = names[0] /\ names'[1] = names[1]
        /\ names'[2] \in {0, names[2]} /\ (keep = 2 => names'[2] = 0)
    BY <1>2, <1>t DEF AuditTypes
  <2>s. currentSz = MaxLines /\ currentSz = Len(content[f]) /\ f \in 1 .. Len(content)
    BY <1>p, <1>t DEF AuditInv, SizesSound, AuditTypes
  <2>o. \A d \in Clients : arec'[d].pc \in AuditCallInMutex => d = c
    BY <2>c
  <2>4. AuditTypes'
    <3>1. names' \in [0 .. 2 -> 0 .. Len(content')] /\ f' \in 1 .. Len(content')
      BY <2>g, <2>f, <2>s, <1>u
    <3> QED
      BY <3>1, <1>t, <1>u, <2>c, <2>f, <2>r, <2>n DEF AuditTypes
  <2>6. SizesSound'
    <3>1. \A d \in Clients : arec'[d].pc # "write"
      BY <2>o, <2>c DEF AuditCallInMutex
    <3> QED
      BY <3>1, <2>s, <2>f, <1>u, AuditBounds DEF SizesSound
  <2>7. NamesSound'
    <3>1. \A m, j \in 0 .. 2 : names'[m] # 0 /\ names'[m] = names'[j] => m = j
      BY <2>g, <1>t DEF AuditInv, NamesSound, AuditTypes
    <3>2. ASSUME NEW d \in Clients, arec'[d].pc \in MidRotation
          PROVE  /\ rotating'.new # 0 /\ content'[rotating'.new] = <<>>
                 /\ \A m \in 0 .. 2 : names'[m] # rotating'.new
                 /\ arec'[d].pc = "shift"
                 /\ keep = 2 => rotating'.i = 1
      <4>1. d = c
        BY <3>2, <2>o DEF AuditCallInMutex
      <4>2. \A m \in 0 .. 2 : names'[m] # k
        BY <2>g, <2>n, <2>f
      <4> QED
        BY <4>1, <4>2, <2>c, <2>r, <2>n, <2>k, <2>f
    <3> QED
      BY <3>1, <3>2, <1>u DEF NamesSound
  <2>8. TrailSound'
    <3>1. CASE ~ (keep = 2 /\ "shift" \notin afault)
      BY <3>1, <1>u DEF TrailSound
    <3>2. CASE keep = 2 /\ "shift" \notin afault
      <4>1. PICK a \in 0 .. Len(written), b \in 0 .. Len(written), d \in 0 .. Len(written) :
                 /\ a <= b /\ b <= d /\ d <= Len(written)
                 /\ Slice(W!Lines(2), a, b) /\ Slice(W!Lines(1), b, d) /\ Slice(W!Lines(0), d, Len(written))
                 /\ afault = {} /\ a > 0 => Len(written) - a >= 2 * MaxLines
        BY <3>2, TrailCuts
      <4>2. W!Lines(0)' = W!Lines(0) /\ W!Lines(1)' = W!Lines(1) /\ W!Lines(2)' = <<>>
        <5>1. W!Lines(0)' = W!Lines(0)
          BY <2>g, <2>f, LinesStay
        <5>2. W!Lines(1)' = W!Lines(1)
          BY <2>g, <2>f, LinesStay
        <5>3. W!Lines(2)' = <<>>
          BY <2>g, <3>2 DEF W!Lines
        <5> QED
          BY <5>1, <5>2, <5>3
      <4>3. PICK t, u, v : t = <<>> /\ u = W!Lines(1) /\ v = W!Lines(0)
        OBVIOUS
      <4>n. PICK n \in Nat : n = Len(written) /\ a \in Nat /\ b \in Nat /\ d \in Nat
        BY <3>2, TrailCuts
      <4>4. Slice(t, b, b)
        BY <4>3, <4>n, EmptySlice
      <4>5. ASSUME afault = {}, b > 0 PROVE n - b >= 2 * MaxLines
        <5>1. \A e \in Clients : arec[e].pc \notin MidRotation
          BY <1>p, AuditAlone DEF AuditCallInMutex, MidRotation
        <5>2. names[0] = f /\ (names[2] # 0 => names[1] # 0)
          BY <5>1, <4>5, <3>2 DEF AuditInv, FilesFull
        <5>3. W!Lines(0) = content[f]
          BY <5>2, <2>s DEF W!Lines
        <5>4. n - d = MaxLines
          BY <5>3, <4>1, <2>s, <4>n DEF Slice
        <5>5. CASE names[1] # 0
          <6>1. Len(W!Lines(1)) = MaxLines
            BY <5>5, <4>5, <3>2 DEF AuditInv, FilesFull, W!Lines
          <6>2. d - b = MaxLines
            BY <6>1, <4>1 DEF Slice
          <6> QED
            BY <6>2, <5>4, <4>n, AuditBounds
        <5>6. CASE names[1] = 0
          <6>1. Len(W!Lines(2)) = 0
            BY <5>6, <5>2 DEF W!Lines
          <6>2. a = b
            BY <6>1, <4>1, <4>n DEF Slice
          <6> QED
            BY <6>2, <4>1, <4>5, <4>n
        <5> QED
          BY <5>5, <5>6
      <4> QED
        BY <4>1, <4>2, <4>3, <4>4, <4>5, <4>n, <1>u, TrailFrom
    <3> QED
      BY <3>1, <3>2
  <2>9. FilesFull'
    <3>1. SUFFICES ASSUME keep = 2, afault = {} PROVE FilesFull'
      BY <1>u DEF FilesFull
    <3>2. names[0] = f /\ \A m \in {1, 2} : names[m] # 0 => Len(content[names[m]]) = MaxLines
      <4>1. \A e \in Clients : arec[e].pc \notin MidRotation
        BY <1>p, AuditAlone DEF AuditCallInMutex, MidRotation
      <4> QED
        BY <4>1, <3>1 DEF AuditInv, FilesFull
    <3>3. \A m \in {1, 2} : names'[m] # 0 => Len(content'[names'[m]]) = MaxLines
      BY <3>2, <2>g, <2>f, <3>1
    <3>4. \A d \in Clients : arec'[d].pc # "in"
      BY <2>o, <2>c DEF AuditCallInMutex, MidRotation
    <3>5. arec'[c].pc \in MidRotation
      BY <2>c DEF MidRotation
    <3> QED
      BY <3>2, <3>3, <3>4, <3>5, <2>g, <1>u DEF FilesFull
  <2> QED
    BY <2>4, <2>c, <2>6, <2>7, <2>8, <2>9 DEF AuditInv
<1> QED
  BY <1>1, <1>2 DEF W!OpenTmp

LEMMA TrailSame ==
    ASSUME AuditInv, UNCHANGED <<keep, names, content, written>>, afault \subseteq afault'
    PROVE  TrailSound'
<1>1. SUFFICES ASSUME keep = 2, "shift" \notin afault' PROVE TrailSound'
  BY DEF TrailSound
<1>2. PICK a \in 0 .. Len(written), b \in 0 .. Len(written), d \in 0 .. Len(written) :
           /\ a <= b /\ b <= d /\ d <= Len(written)
           /\ Slice(W!Lines(2), a, b) /\ Slice(W!Lines(1), b, d) /\ Slice(W!Lines(0), d, Len(written))
           /\ afault = {} /\ a > 0 => Len(written) - a >= 2 * MaxLines
  BY <1>1, TrailCuts
<1>3. PICK t, u, v : t = W!Lines(2) /\ u = W!Lines(1) /\ v = W!Lines(0)
  OBVIOUS
<1>4. t = W!Lines(2)' /\ u = W!Lines(1)' /\ v = W!Lines(0)'
  BY <1>3 DEF W!Lines
<1>5. afault' = {} => afault = {}
  OBVIOUS
<1> QED
  BY <1>2, <1>3, <1>4, <1>5, TrailFrom

LEMMA ShiftStep ==
    ASSUME AuditInv, NEW c \in Clients, W!Shift(c)
    PROVE  AuditInv'
<1>t. AuditTypes
  BY DEF AuditInv
<1>p. arec[c].pc = "shift" /\ arec[c].pc \in AuditCallInMutex /\ arec[c].pc \in MidRotation
  BY DEF W!Shift, W!At, AuditCallInMutex, MidRotation
<1>u. UNCHANGED <<keep, arows, wmu, events, content, f, currentSz, written>>
  BY DEF W!Shift
<1>s. currentSz = MaxLines /\ MaxLines \in Nat
  BY <1>p, AuditBounds DEF AuditInv, SizesSound
<1>1. CASE W!Then(c, "aside") /\ ~ rotating.i >= 1 /\ UNCHANGED <<names, rotating, afault>>
  <2>c. /\ arec' \in [Clients -> AuditCall] /\ arec'[c].pc = "aside"
        /\ \A d \in Clients : d # c => arec'[d].pc \notin AuditCallInMutex
        /\ wmu' \in Clients \cup {None} /\ CallsSound'
    BY <1>1, <1>p, <1>u, CallMoves
  <2>i. rotating.i < 1
    BY <1>1, <1>t DEF AuditTypes
  <2>o. \A d \in Clients : arec'[d].pc \in AuditCallInMutex => d = c
    BY <2>c
  <2>1. AuditTypes'
    BY <1>1, <1>t, <1>u, <2>c DEF AuditTypes
  <2>2. SizesSound'
    <3>1. \A d \in Clients : arec'[d].pc # "write"
      BY <2>o, <2>c DEF AuditCallInMutex
    <3> QED
      BY <3>1, <1>1, <1>s, <1>u DEF AuditInv, SizesSound
  <2>3. NamesSound'
    <3>1. ASSUME NEW d \in Clients, arec'[d].pc \in MidRotation
          PROVE  d = c /\ arec'[d].pc = "aside"
      BY <3>1, <2>o, <2>c DEF AuditCallInMutex
    <3> QED
      BY <3>1, <1>1, <1>p, <1>u, <2>i DEF AuditInv, NamesSound
  <2>4. TrailSound'
    BY <1>1, <1>u, TrailSame
  <2>5. FilesFull'
    <3>1. \A d \in Clients : arec'[d].pc # "in"
      BY <2>o, <2>c DEF AuditCallInMutex, MidRotation
    <3>2. arec'[c].pc \in MidRotation
      BY <2>c DEF MidRotation
    <3> QED
      BY <3>1, <3>2, <1>1, <1>p, <1>u DEF AuditInv, FilesFull
  <2> QED
    BY <2>1, <2>2, <2>3, <2>4, <2>5, <2>c DEF AuditInv
<1>2. CASE /\ rotating.i >= 1 /\ rotating' = [rotating EXCEPT !.i = @ - 1] /\ UNCHANGED arec
           /\ \/ /\ names' = IF names[rotating.i] = 0 THEN names
                             ELSE [names EXCEPT ![rotating.i + 1] = names[rotating.i], ![rotating.i] = 0]
                 /\ UNCHANGED afault
              \/ names' = names /\ afault' = afault \cup {"shift"}
  <2>r. /\ rotating.i = 1 /\ rotating' \in [new : 0 .. Len(content), i : -1 .. 1]
        /\ rotating'.new = rotating.new /\ rotating'.i = 0
    <3>1. PICK r \in [new : 0 .. Len(content), i : -1 .. 1] : r = rotating
      BY <1>t DEF AuditTypes
    <3>2. r.i = 1
      BY <3>1, <1>2
    <3>3. PICK q : q = [r EXCEPT !.i = 0]
      OBVIOUS
    <3>4. q \in [new : 0 .. Len(content), i : -1 .. 1] /\ q.new = r.new /\ q.i = 0
      BY <3>3
    <3>5. rotating' = q
      BY <1>2, <3>1, <3>2, <3>3
    <3> QED
      BY <3>1, <3>2, <3>4, <3>5
  <2>n. \/ names' = names /\ names[1] = 0 /\ afault' = afault
        \/ names' = names /\ "shift" \in afault' /\ afault' \subseteq {"shift", "cut"}
        \/ names' = [names EXCEPT ![2] = names[1], ![1] = 0] /\ names[1] # 0 /\ afault' = afault
    BY <1>2, <2>r, <1>t DEF AuditTypes
  <2>z. names \in [0 .. 2 -> 0 .. Len(content)] /\ Len(content) \in Nat /\ afault \subseteq {"shift", "cut"}
    BY <1>t DEF AuditTypes
  <2>g. /\ names' \in [0 .. 2 -> 0 .. Len(content)] /\ names'[0] = names[0]
        /\ \/ names' = names
           \/ names'[2] = names[1] /\ names'[1] = 0 /\ names[1] # 0 /\ afault' = afault
        /\ afault' \subseteq {"shift", "cut"} /\ ("shift" \notin afault' => names'[1] = 0 /\ afault' = afault)
    <3>1. CASE names' = names
      BY <3>1, <2>n, <2>z
    <3>2. CASE names' = [names EXCEPT ![2] = names[1], ![1] = 0] /\ names[1] # 0 /\ afault' = afault
      <4>1. names' \in [0 .. 2 -> 0 .. Len(content)]
        BY <3>2, <2>z
      <4>2. names'[0] = names[0] /\ names'[2] = names[1] /\ names'[1] = 0
        BY <3>2, <2>z
      <4> QED
        BY <4>1, <4>2, <3>2, <2>z
    <3> QED
      BY <3>1, <3>2, <2>n
  <2>1. AuditTypes'
    BY <1>t, <1>2, <1>u, <2>r, <2>g DEF AuditTypes
  <2>2. SizesSound'
    BY <1>2, <1>s, <1>u, <2>g DEF AuditInv, SizesSound
  <2>c. CallsSound'
    BY <1>2, <1>u DEF AuditInv, CallsSound
  <2>3. NamesSound'
    <3>1. \A m, j \in 0 .. 2 : names'[m] # 0 /\ names'[m] = names'[j] => m = j
      <4>1. \A m, j \in 0 .. 2 : names[m] # 0 /\ names[m] = names[j] => m = j
        BY DEF AuditInv, NamesSound
      <4>2. 0 .. 2 = {0, 1, 2}
        OBVIOUS
      <4> QED
        BY <4>1, <4>2, <2>g
    <3>2. ASSUME NEW d \in Clients, arec'[d].pc \in MidRotation
          PROVE  d = c /\ arec'[d].pc = "shift"
      BY <3>2, <1>2, <1>p, AuditAlone DEF AuditCallInMutex
    <3>3. /\ rotating.new # 0 /\ content[rotating.new] = <<>>
          /\ \A m \in 0 .. 2 : names[m] # rotating.new
      BY <1>p DEF AuditInv, NamesSound
    <3>4. \A m \in 0 .. 2 : names'[m] # rotating.new
      <4>1. 0 .. 2 = {0, 1, 2}
        OBVIOUS
      <4> QED
        BY <4>1, <3>3, <2>g
    <3> QED
      BY <3>1, <3>2, <3>3, <3>4, <2>g, <2>r, <1>u DEF NamesSound
  <2>4. TrailSound'
    <3>1. CASE ~ (keep = 2 /\ "shift" \notin afault')
      BY <3>1, <1>u DEF TrailSound
    <3>2. CASE keep = 2 /\ "shift" \notin afault'
      <4>f. "shift" \notin afault /\ afault' = afault
        BY <3>2, <2>g
      <4>1. PICK a \in 0 .. Len(written), b \in 0 .. Len(written), d \in 0 .. Len(written) :
                 /\ a <= b /\ b <= d /\ d <= Len(written)
                 /\ Slice(W!Lines(2), a, b) /\ Slice(W!Lines(1), b, d) /\ Slice(W!Lines(0), d, Len(written))
                 /\ afault = {} /\ a > 0 => Len(written) - a >= 2 * MaxLines
        BY <3>2, <4>f, TrailCuts
      <4>n. PICK n \in Nat : n = Len(written) /\ a \in Nat /\ b \in Nat /\ d \in Nat
        BY <3>2, <4>f, TrailCuts
      <4>2. CASE names' = names
        BY <4>2, <4>f, <1>u, TrailSame
      <4>3. CASE names'[2] = names[1] /\ names'[1] = 0 /\ names[1] # 0
        <5>0. PICK t, u, v : t = W!Lines(1) /\ u = <<>> /\ v = W!Lines(0)
          OBVIOUS
        <5>1. t = W!Lines(2)' /\ u = W!Lines(1)' /\ v = W!Lines(0)'
          BY <5>0, <4>3, <2>g, <1>u DEF W!Lines
        <5>2. Slice(u, d, d)
          BY <5>0, <4>n, EmptySlice
        <5>3. afault' = {} /\ b > 0 => Len(written) - b >= 2 * MaxLines
          <6>1. SUFFICES ASSUME afault = {} PROVE n - b >= 2 * MaxLines
            BY <4>f, <4>n
          <6>2. names[0] = f /\ Len(content[names[1]]) = MaxLines
            BY <6>1, <3>2, <4>3, <1>p DEF AuditInv, FilesFull
          <6>3. W!Lines(0) = content[f] /\ W!Lines(1) = content[names[1]]
            BY <6>2, <4>3, <1>t DEF W!Lines, AuditTypes
          <6>4. n - d = MaxLines
            BY <6>3, <4>1, <4>n, <1>s DEF Slice, AuditInv, SizesSound
          <6>5. d - b = MaxLines
            BY <6>2, <6>3, <4>1 DEF Slice
          <6> QED
            BY <6>4, <6>5, <4>n, <1>s
        <5> QED
          BY <5>0, <5>1, <5>2, <5>3, <4>1, <4>n, <1>u, TrailFrom
      <4> QED
        BY <4>2, <4>3, <2>g
    <3> QED
      BY <3>1, <3>2
  <2>5. FilesFull'
    <3>1. SUFFICES ASSUME keep = 2, afault' = {} PROVE FilesFull'
      BY <1>u DEF FilesFull
    <3>2. afault = {}
      BY <3>1, <2>g
    <3>3. /\ names[0] = f /\ (\A m \in {1, 2} : names[m] # 0 => Len(content[names[m]]) = MaxLines)
          /\ \A d \in Clients : arec[d].pc = "in" => names[1] = f
      BY <3>1, <3>2, <1>p DEF AuditInv, FilesFull
    <3>4. \A m \in {1, 2} : names'[m] # 0 => Len(content'[names'[m]]) = MaxLines
      BY <3>3, <2>g, <1>u
    <3>5. \A d \in Clients : arec'[d].pc # "in"
      BY <1>2, <1>p, AuditAlone DEF AuditCallInMutex, MidRotation
    <3>6. arec'[c].pc \in MidRotation
      BY <1>2, <1>p
    <3> QED
      BY <3>3, <3>4, <3>5, <3>6, <2>g, <1>u DEF FilesFull
  <2> QED
    BY <2>1, <2>2, <2>3, <2>4, <2>5, <2>c DEF AuditInv
<1> QED
  BY <1>1, <1>2 DEF W!Shift

\* A call that ends with the files as the names give them.
LEMMA RotationEnds ==
    ASSUME AuditInv, NEW c \in Clients, arec[c].pc \in MidRotation, W!RotateFails(c),
           UNCHANGED <<keep, arows, events, content, f, currentSz, written>>,
           names' \in [0 .. 2 -> 0 .. Len(content)],
           \A m, j \in 0 .. 2 : names'[m] # 0 /\ names'[m] = names'[j] => m = j,
           TrailSound'
    PROVE  AuditInv'
<1>t. AuditTypes
  BY DEF AuditInv
<1>1. arec[c].pc \in AuditCallInMutex
  BY DEF AuditCallInMutex
<1>2. W!Over(c) /\ rotating' = W!NoRotation /\ afault' = afault \cup {"cut"}
  BY DEF W!RotateFails
<1>c. /\ arec' \in [Clients -> AuditCall]
      /\ \A d \in Clients : arec'[d].pc \notin AuditCallInMutex
      /\ wmu' \in Clients \cup {None} /\ CallsSound'
  BY <1>1, <1>2, CallEnds
<1>n. \A d \in Clients : arec'[d].pc \notin {"open", "write"} \cup MidRotation
  BY <1>c DEF AuditCallInMutex
<1>s. currentSz = MaxLines
  BY DEF AuditInv, SizesSound
<1>3. AuditTypes'
  <2>1. rotating' \in [new : 0 .. Len(content), i : -1 .. 1]
    BY <1>2, <1>t DEF W!NoRotation, AuditTypes
  <2> QED
    BY <2>1, <1>t, <1>2, <1>c DEF AuditTypes
<1>4. SizesSound'
  BY <1>n, <1>s, AuditBounds DEF AuditInv, SizesSound
<1>5. NamesSound'
  BY <1>n DEF NamesSound
<1>6. FilesFull'
  BY <1>2 DEF FilesFull
<1> QED
  BY <1>c, <1>3, <1>4, <1>5, <1>6 DEF AuditInv

LEMMA AsideStep ==
    ASSUME AuditInv, NEW c \in Clients, W!Aside(c)
    PROVE  AuditInv'
<1>t. AuditTypes
  BY DEF AuditInv
<1>p. arec[c].pc = "aside" /\ arec[c].pc \in AuditCallInMutex /\ arec[c].pc \in MidRotation
  BY DEF W!Aside, W!At, AuditCallInMutex, MidRotation
<1>u. UNCHANGED <<keep, arows, events, content, f, currentSz, written>>
  BY DEF W!Aside
<1>s. currentSz = MaxLines /\ MaxLines \in Nat
  BY <1>p, AuditBounds DEF AuditInv, SizesSound
<1>z. /\ names \in [0 .. 2 -> 0 .. Len(content)] /\ Len(content) \in Nat /\ 0 .. 2 = {0, 1, 2}
      /\ \A m, j \in 0 .. 2 : names[m] # 0 /\ names[m] = names[j] => m = j
      /\ keep \in {0, 2}
  BY <1>t DEF AuditTypes, AuditInv, NamesSound
<1>1. CASE W!RotateFails(c) /\ UNCHANGED names
  <2>1. TrailSound'
    BY <1>1, <1>u, TrailSame DEF W!RotateFails
  <2> QED
    BY <2>1, <1>1, <1>p, <1>u, <1>z, RotationEnds
<1>2. CASE /\ names' = IF keep = 0 THEN [names EXCEPT ![0] = 0]
                       ELSE IF names[0] = 0 THEN names
                       ELSE [names EXCEPT ![1] = names[0], ![0] = 0]
           /\ W!Then(c, "in") /\ UNCHANGED <<wmu, rotating, afault>>
  <2>c. /\ arec' \in [Clients -> AuditCall] /\ arec'[c].pc = "in"
        /\ \A d \in Clients : d # c => arec'[d].pc \notin AuditCallInMutex
        /\ wmu' \in Clients \cup {None} /\ CallsSound'
    BY <1>2, <1>p, <1>u, CallMoves
  <2>o. \A d \in Clients : arec'[d].pc \in AuditCallInMutex => d = c
    BY <2>c
  <2>g. /\ names' \in [0 .. 2 -> 0 .. Len(content)] /\ names'[0] = 0 /\ names'[2] = names[2]
        /\ names'[1] \in {names[0], names[1]} 
        /\ keep = 2 => IF names[0] = 0 THEN names' = names ELSE names'[1] = names[0]
        /\ keep = 0 => names'[1] = names[1]
        /\ \A m, j \in 0 .. 2 : names'[m] # 0 /\ names'[m] = names'[j] => m = j
    <3>1. CASE names' = names /\ names[0] = 0 /\ keep = 2
      BY <3>1, <1>z
    <3>2. CASE names' = [names EXCEPT ![0] = 0] /\ keep = 0
      <4>1. names' \in [0 .. 2 -> 0 .. Len(content)]
        BY <3>2, <1>z
      <4>2. names'[0] = 0 /\ names'[2] = names[2] /\ names'[1] = names[1]
        BY <3>2, <1>z
      <4> QED
        BY <4>1, <4>2, <3>2, <1>z
    <3>3. CASE names' = [names EXCEPT ![1] = names[0], ![0] = 0] /\ keep = 2 /\ names[0] # 0
      <4>1. names' \in [0 .. 2 -> 0 .. Len(content)]
        BY <3>3, <1>z
      <4>2. names'[0] = 0 /\ names'[2] = names[2] /\ names'[1] = names[0]
        BY <3>3, <1>z
      <4> QED
        BY <4>1, <4>2, <3>3, <1>z
    <3> QED
      BY <3>1, <3>2, <3>3, <1>2, <1>z
  <2>1. AuditTypes'
    BY <1>2, <1>t, <1>u, <2>c, <2>g DEF AuditTypes
  <2>2. SizesSound'
    <3>1. \A d \in Clients : arec'[d].pc # "write"
      BY <2>o, <2>c DEF AuditCallInMutex
    <3>2. ~ (currentSz < MaxLines) /\ currentSz = Len(content[f])
      BY <1>s DEF AuditInv, SizesSound
    <3>3. \A i \in 1 .. Len(content) : Len(content[i]) <= MaxLines
      BY DEF AuditInv, SizesSound
    <3> QED
      BY <3>1, <3>2, <3>3, <1>s, <1>u DEF SizesSound
  <2>3. NamesSound'
    <3>1. ASSUME NEW d \in Clients, arec'[d].pc \in MidRotation
          PROVE  d = c /\ arec'[d].pc = "in"
      BY <3>1, <2>o, <2>c DEF AuditCallInMutex
    <3>2. /\ rotating.new # 0 /\ content[rotating.new] = <<>>
          /\ \A m \in 0 .. 2 : names[m] # rotating.new
      BY <1>p DEF AuditInv, NamesSound
    <3>3. \A m \in 0 .. 2 : names'[m] # rotating.new
      BY <3>2, <2>g, <1>z
    <3> QED
      BY <3>1, <3>2, <3>3, <1>2, <1>u, <2>g DEF NamesSound
  <2>4. TrailSound'
    <3>1. CASE ~ (keep = 2 /\ "shift" \notin afault)
      BY <3>1, <1>u, <1>2 DEF TrailSound
    <3>2. CASE keep = 2 /\ "shift" \notin afault /\ names[0] = 0
      BY <3>2, <2>g, <1>u, <1>2, TrailSame
    <3>3. CASE keep = 2 /\ "shift" \notin afault /\ names[0] # 0
      <4>1. PICK a \in 0 .. Len(written), b \in 0 .. Len(written), d \in 0 .. Len(written) :
                 /\ a <= b /\ b <= d /\ d <= Len(written)
                 /\ Slice(W!Lines(2), a, b) /\ Slice(W!Lines(1), b, d) /\ Slice(W!Lines(0), d, Len(written))
                 /\ afault = {} /\ a > 0 => Len(written) - a >= 2 * MaxLines
        BY <3>3, TrailCuts
      <4>n. PICK n \in Nat : n = Len(written) /\ a \in Nat /\ b \in Nat /\ d \in Nat
        BY <3>3, TrailCuts
      <4>0. PICK t, u, v : t = W!Lines(2) /\ u = W!Lines(0) /\ v = <<>>
        OBVIOUS
      <4>2. t = W!Lines(2)' /\ u = W!Lines(1)' /\ v = W!Lines(0)'
        BY <4>0, <3>3, <2>g, <1>u DEF W!Lines
      <4>3. names[1] = 0
        BY <3>3, <1>p DEF AuditInv, NamesSound
      <4>4. b = d
        BY <4>1, <4>3, <4>n DEF W!Lines, Slice
      <4>5. Slice(v, n, n)
        BY <4>0, <4>n, EmptySlice
      <4>6. n \in 0 .. Len(written) /\ b <= n /\ n <= Len(written) /\ Slice(u, b, n)
        BY <4>n, <4>4, <4>1, <4>0
      <4> QED
        BY <4>0, <4>1, <4>2, <4>5, <4>6, <4>n, <1>u, <1>2, TrailFrom
    <3> QED
      BY <3>1, <3>2, <3>3
  <2>5. FilesFull'
    <3>1. SUFFICES ASSUME keep = 2, afault = {} PROVE FilesFull'
      BY <1>u, <1>2 DEF FilesFull
    <3>2. names[0] = f /\ \A m \in {1, 2} : names[m] # 0 => Len(content[names[m]]) = MaxLines
      BY <3>1, <1>p DEF AuditInv, FilesFull
    <3>3. Len(content[f]) = MaxLines /\ f # 0
      BY <1>s, <1>t DEF AuditInv, SizesSound, AuditTypes
    <3>4. names'[1] = f
      BY <3>1, <3>2, <3>3, <2>g
    <3>5. \A m \in {1, 2} : names'[m] # 0 => Len(content'[names'[m]]) = MaxLines
      BY <3>2, <3>3, <3>4, <2>g, <1>u
    <3>6. \A d \in Clients : arec'[d].pc \notin {"shift", "aside"}
      BY <2>o, <2>c DEF AuditCallInMutex, MidRotation
    <3>7. arec'[c].pc \in MidRotation
      BY <2>c DEF MidRotation
    <3> QED
      BY <3>4, <3>5, <3>6, <3>7, <1>u DEF FilesFull
  <2> QED
    BY <2>1, <2>2, <2>3, <2>4, <2>5, <2>c DEF AuditInv
<1> QED
  BY <1>1, <1>2 DEF W!Aside

LEMMA InStep ==
    ASSUME AuditInv, NEW c \in Clients, W!In(c)
    PROVE  AuditInv'
<1>t. AuditTypes
  BY DEF AuditInv
<1>p. arec[c].pc = "in" /\ arec[c].pc \in AuditCallInMutex /\ arec[c].pc \in MidRotation
  BY DEF W!In, W!At, AuditCallInMutex, MidRotation
<1>u. UNCHANGED <<keep, arows, events, content, written>>
  BY DEF W!In
<1>z. /\ names \in [0 .. 2 -> 0 .. Len(content)] /\ Len(content) \in Nat /\ 0 .. 2 = {0, 1, 2}
      /\ \A m, j \in 0 .. 2 : names[m] # 0 /\ names[m] = names[j] => m = j
      /\ keep \in {0, 2} /\ names[0] = 0
  BY <1>p, <1>t DEF AuditTypes, AuditInv, NamesSound
<1>1. CASE W!RotateFails(c) /\ UNCHANGED <<names, f, currentSz>>
  <2>1. TrailSound'
    BY <1>1, <1>u, TrailSame DEF W!RotateFails
  <2> QED
    BY <2>1, <1>1, <1>p, <1>u, <1>z, RotationEnds
<1>2. CASE /\ W!RotateFails(c) /\ keep > 0 /\ names[1] # 0
           /\ names' = [names EXCEPT ![0] = names[1], ![1] = 0] /\ UNCHANGED <<f, currentSz>>
  <2>1. names' \in [0 .. 2 -> 0 .. Len(content)]
    BY <1>2, <1>z
  <2>2. names'[0] = names[1] /\ names'[2] = names[2] /\ names'[1] = 0
    BY <1>2, <1>z
  <2>3. \A m, j \in 0 .. 2 : names'[m] # 0 /\ names'[m] = names'[j] => m = j
    BY <2>2, <1>z
  <2>4. afault' = afault \cup {"cut"}
    BY <1>2 DEF W!RotateFails
  <2>5. TrailSound'
    <3>1. CASE ~ (keep = 2 /\ "shift" \notin afault)
      BY <3>1, <2>4, <1>u DEF TrailSound
    <3>2. CASE keep = 2 /\ "shift" \notin afault
      <4>1. PICK a \in 0 .. Len(written), b \in 0 .. Len(written), d \in 0 .. Len(written) :
                 /\ a <= b /\ b <= d /\ d <= Len(written)
                 /\ Slice(W!Lines(2), a, b) /\ Slice(W!Lines(1), b, d) /\ Slice(W!Lines(0), d, Len(written))
        BY <3>2, TrailCuts
      <4>n. PICK n \in Nat : n = Len(written) /\ a \in Nat /\ b \in Nat /\ d \in Nat
        BY <3>2, TrailCuts
      <4>0. PICK t, u, v : t = W!Lines(2) /\ u = <<>> /\ v = W!Lines(1)
        OBVIOUS
      <4>2. t = W!Lines(2)' /\ u = W!Lines(1)' /\ v = W!Lines(0)'
        BY <4>0, <2>2, <1>u, <1>2 DEF W!Lines
      <4>3. d = n
        BY <4>1, <1>z, <4>n DEF W!Lines, Slice
      <4>4. Slice(u, b, b)
        BY <4>0, <4>n, EmptySlice
      <4>5. Slice(v, b, Len(written)) /\ b <= b /\ b <= Len(written) /\ afault' # {}
        BY <4>0, <4>1, <4>3, <4>n, <2>4
      <4> QED
        BY <4>0, <4>1, <4>2, <4>4, <4>5, <1>u, TrailFrom
    <3> QED
      BY <3>1, <3>2
  <2> QED
    BY <2>1, <2>3, <2>5, <1>2, <1>p, <1>u, RotationEnds
<1>3. CASE /\ names' = [names EXCEPT ![0] = rotating.new]
           /\ f' = rotating.new /\ currentSz' = 0
           /\ rotating' = W!NoRotation /\ W!Then(c, "write") /\ UNCHANGED <<wmu, afault>>
  <2>c. /\ arec' \in [Clients -> AuditCall] /\ arec'[c].pc = "write"
        /\ \A d \in Clients : d # c => arec'[d].pc \notin AuditCallInMutex
        /\ wmu' \in Clients \cup {None} /\ CallsSound'
    BY <1>3, <1>p, <1>u, CallMoves
  <2>o. \A d \in Clients : arec'[d].pc \in AuditCallInMutex => d = c
    BY <2>c
  <2>r. \A d \in Clients : arec'[d].pc \notin {"open"} \cup MidRotation
    BY <2>o, <2>c DEF AuditCallInMutex, MidRotation
  <2>w. /\ rotating.new \in 1 .. Len(content) /\ content[rotating.new] = <<>>
        /\ \A m \in 0 .. 2 : names[m] # rotating.new
    BY <1>p, <1>t DEF AuditTypes, AuditInv, NamesSound
  <2>g. /\ names' \in [0 .. 2 -> 0 .. Len(content)]
        /\ names'[0] = rotating.new /\ names'[2] = names[2] /\ names'[1] = names[1]
    BY <1>3, <1>z, <2>w
  <2>1. AuditTypes'
    <3>1. rotating' \in [new : 0 .. Len(content), i : -1 .. 1] /\ currentSz' \in 0 .. MaxLines
      BY <1>3, <1>z, AuditBounds DEF W!NoRotation
    <3> QED
      BY <3>1, <1>3, <1>t, <1>u, <2>c, <2>g, <2>w DEF AuditTypes
  <2>2. SizesSound'
    <3>1. \A i \in 1 .. Len(content) : Len(content[i]) <= MaxLines
      BY DEF AuditInv, SizesSound
    <3>2. Len(content[rotating.new]) = 0
      BY <2>w
    <3> QED
      BY <3>1, <3>2, <1>3, <1>u, <2>r, <2>g, AuditBounds DEF SizesSound
  <2>3. NamesSound'
    <3>1. \A m, j \in 0 .. 2 : names'[m] # 0 /\ names'[m] = names'[j] => m = j
      BY <2>g, <2>w, <1>z
    <3> QED
      BY <3>1, <2>r DEF NamesSound
  <2>4. TrailSound'
    <3>1. W!Lines(0)' = W!Lines(0)
      BY <2>g, <2>w, <1>z, <1>u DEF W!Lines
    <3>2. W!Lines(1)' = W!Lines(1) /\ W!Lines(2)' = W!Lines(2)
      BY <2>g, <1>u DEF W!Lines
    <3>3. CASE ~ (keep = 2 /\ "shift" \notin afault)
      BY <3>3, <1>3, <1>u DEF TrailSound
    <3>4. CASE keep = 2 /\ "shift" \notin afault
      <4>1. PICK a \in 0 .. Len(written), b \in 0 .. Len(written), d \in 0 .. Len(written) :
                 /\ a <= b /\ b <= d /\ d <= Len(written)
                 /\ Slice(W!Lines(2), a, b) /\ Slice(W!Lines(1), b, d) /\ Slice(W!Lines(0), d, Len(written))
                 /\ afault = {} /\ a > 0 => Len(written) - a >= 2 * MaxLines
        BY <3>4, TrailCuts
      <4>0. PICK t, u, v : t = W!Lines(2) /\ u = W!Lines(1) /\ v = W!Lines(0)
        OBVIOUS
      <4> QED
        BY <4>0, <4>1, <3>1, <3>2, <1>3, <1>u, TrailFrom
    <3> QED
      BY <3>3, <3>4
  <2>5. FilesFull'
    <3>1. SUFFICES ASSUME keep = 2, afault = {} PROVE FilesFull'
      BY <1>u, <1>3 DEF FilesFull
    <3>2. names[1] = f /\ \A m \in {1, 2} : names[m] # 0 => Len(content[names[m]]) = MaxLines
      BY <3>1, <1>p DEF AuditInv, FilesFull
    <3>3. names[1] # 0
      BY <3>2, <1>t DEF AuditTypes
    <3>4. \A m \in {1, 2} : names'[m] # 0 => Len(content'[names'[m]]) = MaxLines
      BY <3>2, <2>g, <1>u
    <3>5. \A d \in Clients : arec'[d].pc \notin {"shift", "aside", "in"}
      BY <2>r DEF MidRotation
    <3> QED
      BY <3>3, <3>4, <3>5, <2>g, <1>3 DEF FilesFull
  <2> QED
    BY <2>1, <2>2, <2>3, <2>4, <2>5, <2>c DEF AuditInv
<1> QED
  BY <1>1, <1>2, <1>3 DEF W!In

LEMMA NewWriterStep ==
    ASSUME AuditInv, W!NewWriter
    PROVE  AuditInv'
<1>t. AuditTypes
  BY DEF AuditInv
<1>u. UNCHANGED <<keep, arows, events, written>>
  BY DEF W!NewWriter
<1>z. /\ names \in [0 .. 2 -> 0 .. Len(content)] /\ Len(content) \in Nat /\ 0 .. 2 = {0, 1, 2}
      /\ \A m, j \in 0 .. 2 : names[m] # 0 /\ names[m] = names[j] => m = j
      /\ content \in Seq(Seq(AuditLines))
      /\ \A i \in 1 .. Len(content) : Len(content[i]) <= MaxLines
  BY <1>t DEF AuditTypes, AuditInv, NamesSound, SizesSound
<1>q. PICK q \in AuditCall : q = W!NoRecord /\ q.pc = "idle"
  <2>1. PICK q : q = W!NoRecord
    OBVIOUS
  <2>2. q \in AuditCall /\ q.pc = "idle"
    BY <2>1, AuditBounds DEF W!NoRecord, AuditCall
  <2> QED
    BY <2>1, <2>2
<1>c. arec' = [d \in Clients |-> q] /\ wmu' = None
  BY <1>q DEF W!NewWriter
<1>i. arec' \in [Clients -> AuditCall] /\ \A d \in Clients : arec'[d].pc = "idle"
  BY <1>c, <1>q
<1>f. /\ afault' \subseteq {"shift", "cut"} /\ afault \subseteq afault'
      /\ afault' = {} => \A d \in Clients : arec[d].pc \notin MidRotation
  BY <1>t DEF W!NewWriter, AuditTypes, MidRotation
<1>r. rotating' \in [new : 0 .. Len(content), i : -1 .. 1]
  BY <1>z DEF W!NewWriter, W!NoRotation
<1>C. CallsSound'
  BY <1>i, <1>u DEF AuditInv, CallsSound, MidRotation
<1>1. CASE names[0] # 0 /\ f' = names[0] /\ currentSz' = Len(content[names[0]]) /\ UNCHANGED <<content, names>>
  <2>0. names[0] \in 1 .. Len(content) /\ content[names[0]] \in Seq(AuditLines)
    BY <1>1, <1>z
  <2>1. currentSz' \in 0 .. MaxLines
    BY <2>0, <1>1, <1>z, AuditBounds, LenProperties
  <2>2. AuditTypes'
    BY <1>t, <1>u, <1>i, <1>c, <1>f, <1>r, <1>1, <2>0, <2>1 DEF AuditTypes
  <2>3. SizesSound'
    BY <1>1, <1>i, <1>z DEF SizesSound, MidRotation
  <2>4. NamesSound'
    BY <1>1, <1>i, <1>z DEF NamesSound, MidRotation
  <2>5. TrailSound'
    BY <1>1, <1>u, <1>f, TrailSame
  <2>6. FilesFull'
    BY <1>1, <1>u, <1>f, <1>i DEF AuditInv, FilesFull, MidRotation
  <2> QED
    BY <2>2, <2>3, <2>4, <2>5, <2>6, <1>C DEF AuditInv
<1>2. CASE /\ names[0] = 0 /\ content' = Append(content, <<>>)
           /\ names' = [names EXCEPT ![0] = W!Fresh] /\ f' = W!Fresh /\ currentSz' = 0
  <2>f. /\ content' \in Seq(Seq(AuditLines)) /\ Len(content') = Len(content) + 1
        /\ content'[Len(content) + 1] = <<>>
        /\ \A i \in 1 .. Len(content) : content'[i] = content[i]
        /\ \A i \in 1 .. Len(content') : Len(content'[i]) <= MaxLines
    BY <1>2, NewFile
  <2>n. PICK k \in Nat : k = Len(content) + 1 /\ k = Len(content')
    BY <1>z, <2>f
  <2>g. /\ names' \in [0 .. 2 -> 0 .. k] /\ names'[0] = k /\ names'[1] = names[1] /\ names'[2] = names[2]
        /\ f' = k
    BY <1>2, <1>z, <2>n DEF W!Fresh
  <2>1. AuditTypes'
    <3>1. f' \in 1 .. Len(content') /\ currentSz' \in 0 .. MaxLines
      BY <2>g, <2>n, <1>2, <1>z, AuditBounds
    <3>2. rotating' \in [new : 0 .. Len(content'), i : -1 .. 1]
      BY <1>z, <2>f DEF W!NewWriter, W!NoRotation
    <3> QED
      BY <3>1, <3>2, <1>t, <1>u, <1>i, <1>c, <1>f, <2>f, <2>g, <2>n DEF AuditTypes
  <2>2. SizesSound'
    BY <1>2, <1>i, <2>f, <2>g, <2>n DEF SizesSound, MidRotation
  <2>3. NamesSound'
    <3>1. \A m, j \in 0 .. 2 : names'[m] # 0 /\ names'[m] = names'[j] => m = j
      BY <2>g, <2>n, <1>z
    <3> QED
      BY <3>1, <1>i DEF NamesSound, MidRotation
  <2>4. TrailSound'
    <3>1. W!Lines(0)' = <<>> /\ W!Lines(0) = <<>>
      BY <1>2, <2>g, <2>f, <2>n, <1>z DEF W!Lines
    <3>2. W!Lines(1)' = W!Lines(1)
      BY <2>g, <2>f, LinesStay
    <3>3. W!Lines(2)' = W!Lines(2)
      BY <2>g, <2>f, LinesStay
    <3>4. CASE ~ (keep = 2 /\ "shift" \notin afault')
      BY <3>4, <1>u DEF TrailSound
    <3>5. CASE keep = 2 /\ "shift" \notin afault'
      <4>f. "shift" \notin afault /\ (afault' = {} => afault = {})
        BY <3>5, <1>f
      <4>1. PICK a \in 0 .. Len(written), b \in 0 .. Len(written), d \in 0 .. Len(written) :
                 /\ a <= b /\ b <= d /\ d <= Len(written)
                 /\ Slice(W!Lines(2), a, b) /\ Slice(W!Lines(1), b, d) /\ Slice(W!Lines(0), d, Len(written))
                 /\ afault = {} /\ a > 0 => Len(written) - a >= 2 * MaxLines
        BY <3>5, <4>f, TrailCuts
      <4>0. PICK t, u, v : t = W!Lines(2) /\ u = W!Lines(1) /\ v = W!Lines(0)
        OBVIOUS
      <4> QED
        BY <4>0, <4>1, <4>f, <3>1, <3>2, <3>3, <1>u, TrailFrom
    <3> QED
      BY <3>4, <3>5
  <2>5. FilesFull'
    <3>1. SUFFICES ASSUME keep = 2, afault' = {} PROVE FALSE
      BY <1>u DEF FilesFull
    <3>2. afault = {} /\ \A d \in Clients : arec[d].pc \notin MidRotation
      BY <3>1, <1>f
    <3>3. names[0] = f /\ f # 0
      BY <3>1, <3>2, <1>t DEF AuditInv, FilesFull, AuditTypes
    <3> QED
      BY <3>3, <1>2
  <2> QED
    BY <2>1, <2>2, <2>3, <2>4, <2>5, <1>C DEF AuditInv
<1> QED
  BY <1>1, <1>2 DEF W!NewWriter

LEMMA AuditStep ==
    ASSUME AuditInv, W!WNext \/ UNCHANGED wvars
    PROVE  AuditInv'
<1>1. CASE W!WNext
  BY <1>1, RecordStep, WriteJSONStep, WriteStep, OpenTmpStep, ShiftStep, AsideStep, InStep, NewWriterStep
     DEF W!WNext
<1>2. CASE UNCHANGED wvars
  <2>1. UNCHANGED <<keep, arows, arec, wmu, names, content, f, currentSz, rotating, written, events, afault>>
    BY <1>2 DEF wvars
  <2>2. TrailSound'
    BY <2>1, TrailSame
  <2>3. AuditTypes' /\ CallsSound'
    BY <2>1 DEF AuditInv, AuditTypes, CallsSound
  <2>4. SizesSound' /\ NamesSound'
    BY <2>1 DEF AuditInv, SizesSound, NamesSound
  <2>5. FilesFull'
    BY <2>1 DEF AuditInv, FilesFull
  <2> QED
    BY <2>2, <2>3, <2>4, <2>5 DEF AuditInv
<1> QED
  BY <1>1, <1>2

\* A sequence that is another's elements from some place on is a suffix of it.
LEMMA SuffixOf ==
    ASSUME NEW s \in Seq(AuditLines), NEW w \in Seq(AuditLines), NEW a \in 0 .. Len(w),
           Len(s) = Len(w) - a, \A j \in 1 .. Len(s) : s[j] = w[a + j]
    PROVE  W!IsSuffix(s, w)
<1>n. PICK n \in Nat, k \in Nat : n = Len(w) /\ k = Len(s) /\ k = n - a /\ a \in Nat /\ k <= n
  <2>1. Len(w) \in Nat /\ Len(s) \in Nat
    BY LenProperties
  <2> QED
    BY <2>1
<1>1. PICK r, q : r = W!Reverse(s) /\ q = W!Reverse(w)
  OBVIOUS
<1>2. r = [i \in 1 .. k |-> s[(k - i) + 1]] /\ q = [i \in 1 .. n |-> w[(n - i) + 1]]
  BY <1>1, <1>n DEF W!Reverse
<1>3. s \in [1 .. k -> AuditLines] /\ w \in [1 .. n -> AuditLines]
  BY <1>n, LenProperties
<1>4. (\A i \in 1 .. k : (k - i) + 1 \in 1 .. k) /\ (\A i \in 1 .. n : (n - i) + 1 \in 1 .. n)
  BY <1>n
<1>5. r \in [1 .. k -> AuditLines] /\ q \in [1 .. n -> AuditLines]
  BY <1>2, <1>3, <1>4
<1>6. r \in Seq(AuditLines) /\ q \in Seq(AuditLines) /\ Len(r) = k /\ Len(q) = n
  <2>1. r \in Seq(AuditLines)
    <3>1. \A i \in 1 .. k : s[(k - i) + 1] \in AuditLines
      BY <1>3, <1>4
    <3>2. [i \in 1 .. k |-> s[(k - i) + 1]] \in Seq(AuditLines)
      BY <3>1, <1>n
    <3> QED
      BY <3>2, <1>2
  <2>2. q \in Seq(AuditLines)
    <3>1. \A i \in 1 .. n : w[(n - i) + 1] \in AuditLines
      BY <1>3, <1>4
    <3>2. [i \in 1 .. n |-> w[(n - i) + 1]] \in Seq(AuditLines)
      BY <3>1, <1>n
    <3> QED
      BY <3>2, <1>2
  <2>3. DOMAIN r = 1 .. k /\ DOMAIN q = 1 .. n
    BY <1>5
  <2> QED
    BY <2>1, <2>2, <2>3, <1>n
<1>7. ASSUME NEW i \in 1 .. k PROVE r[i] = q[i]
  <2>1. i \in 1 .. n /\ (k - i) + 1 \in 1 .. k /\ a + ((k - i) + 1) = (n - i) + 1
    BY <1>n
  <2>2. r[i] = s[(k - i) + 1] /\ q[i] = w[(n - i) + 1]
    BY <2>1, <1>2
  <2> QED
    BY <2>1, <2>2, <1>n
<1>8. SubSeq(r, 1, k) = SubSeq(q, 1, k)
  <2>1. SubSeq(r, 1, k) = [i \in 1 .. k |-> r[i]] /\ SubSeq(q, 1, k) = [i \in 1 .. k |-> q[i]]
    BY <1>6, <1>n
  <2> QED
    BY <2>1, <1>7
<1>9. Len(r) <= Len(q) /\ SubSeq(r, 1, Len(r)) = SubSeq(q, 1, Len(r))
  BY <1>6, <1>8, <1>n
<1> QED
  BY <1>1, <1>9 DEF W!IsSuffix, W!IsPrefix

\* The trail, by the cuts.
LEMMA TrailIs ==
    ASSUME AuditInv, NEW a \in Nat, NEW b \in Nat, NEW d \in Nat, NEW n \in Nat, n = Len(written),
           a <= b, b <= d, d <= n,
           Slice(W!Lines(2), a, b), Slice(W!Lines(1), b, d), Slice(W!Lines(0), d, n)
    PROVE  /\ W!Trail \in Seq(AuditLines) /\ Len(W!Trail) = n - a
           /\ \A j \in 1 .. n - a : W!Trail[j] = written[a + j]
<1>0. PICK t, u, v : t = W!Lines(2) /\ u = W!Lines(1) /\ v = W!Lines(0)
  OBVIOUS
<1>1. t \in Seq(AuditLines) /\ u \in Seq(AuditLines) /\ v \in Seq(AuditLines)
  <2>1. <<>> \in Seq(AuditLines) /\ \A m \in 0 .. 2 : names[m] # 0 => content[names[m]] \in Seq(AuditLines)
    <3>1. <<>> \in Seq(AuditLines) /\ content \in Seq(Seq(AuditLines)) /\ Len(content) \in Nat
      BY DEF AuditInv, AuditTypes
    <3>2. \A m \in 0 .. 2 : names[m] # 0 => names[m] \in 1 .. Len(content)
      BY <3>1 DEF AuditInv, AuditTypes
    <3> QED
      BY <3>1, <3>2, ElementOfSeq
  <2> QED
    BY <2>1, <1>0 DEF W!Lines
<1>2. /\ Len(t) = b - a /\ (\A j \in 1 .. b - a : t[j] = written[a + j])
      /\ Len(u) = d - b /\ (\A j \in 1 .. d - b : u[j] = written[b + j])
      /\ Len(v) = n - d /\ (\A j \in 1 .. n - d : v[j] = written[d + j])
  BY <1>0 DEF Slice
<1>3. PICK x : x = t \o u
  OBVIOUS
<1>4. x \in Seq(AuditLines) /\ Len(x) = d - a
  <2>1. x \in Seq(AuditLines) /\ Len(x) = Len(t) + Len(u)
    BY <1>1, <1>3, ConcatProperties
  <2> QED
    BY <2>1, <1>2
<1>5. ASSUME NEW j \in 1 .. d - a PROVE x[j] = written[a + j]
  <2>1. x[j] = IF j <= Len(t) THEN t[j] ELSE u[j - Len(t)]
    BY <1>1, <1>2, <1>3, <1>5, ConcatProperties
  <2>2. CASE j <= b - a
    <3>1. j \in 1 .. b - a
      BY <2>2
    <3> QED
      BY <3>1, <2>1, <1>2, <2>2
  <2>3. CASE ~ j <= b - a
    <3>1. j - (b - a) \in 1 .. d - b /\ b + (j - (b - a)) = a + j
      BY <2>3
    <3> QED
      BY <3>1, <2>1, <1>2, <2>3
  <2> QED
    BY <2>2, <2>3
<1>6. W!Trail = x \o v
  BY <1>0, <1>3 DEF W!Trail
<1>7. PICK y : y = x \o v
  OBVIOUS
<1>8. y \in Seq(AuditLines) /\ Len(y) = n - a
  BY <1>1, <1>2, <1>4, <1>7, ConcatProperties
<1>9. ASSUME NEW j \in 1 .. n - a PROVE y[j] = written[a + j]
  <2>1. y[j] = IF j <= Len(x) THEN x[j] ELSE v[j - Len(x)]
    BY <1>1, <1>2, <1>4, <1>7, <1>9, ConcatProperties
  <2>2. CASE j <= d - a
    <3>1. j \in 1 .. d - a
      BY <2>2
    <3> QED
      BY <3>1, <2>1, <1>4, <1>5, <2>2
  <2>3. CASE ~ j <= d - a
    <3>1. j - (d - a) \in 1 .. n - d /\ d + (j - (d - a)) = a + j
      BY <2>3
    <3> QED
      BY <3>1, <2>1, <1>2, <1>4, <2>3
  <2> QED
    BY <2>2, <2>3
<1> QED
  BY <1>6, <1>7, <1>8, <1>9

LEMMA AuditShows ==
    ASSUME AuditInv
    PROVE  W!WTypeOK /\ W!AuditTrailKept
<1>t. AuditTypes
  BY DEF AuditInv
<1>1. W!WTypeOK
  BY <1>t DEF AuditTypes, AuditCall, AuditLines, W!WTypeOK, W!Names, W!KeepMax
<1>2. \A i \in 1 .. Len(content) : Len(content[i]) <= MaxLines
  BY DEF AuditInv, SizesSound
<1>3. W!ToSet(written) \subseteq arows
  BY <1>t DEF AuditTypes, AuditInv, CallsSound, W!ToSet
<1>4. ASSUME keep > 0, "shift" \notin afault
      PROVE  /\ W!IsSuffix(W!Trail, written)
             /\ afault = {} => Len(W!Trail) >= keep * MaxLines \/ W!Trail = written
  <2>k. keep = 2
    BY <1>4, <1>t DEF AuditTypes
  <2>1. PICK a \in 0 .. Len(written), b \in 0 .. Len(written), d \in 0 .. Len(written) :
             /\ a <= b /\ b <= d /\ d <= Len(written)
             /\ Slice(W!Lines(2), a, b) /\ Slice(W!Lines(1), b, d) /\ Slice(W!Lines(0), d, Len(written))
             /\ afault = {} /\ a > 0 => Len(written) - a >= 2 * MaxLines
    BY <2>k, <1>4, TrailCuts
  <2>n. PICK n \in Nat : n = Len(written) /\ a \in Nat /\ b \in Nat /\ d \in Nat /\ a <= n
    BY <2>k, <1>4, TrailCuts
  <2>2. PICK s, w : s = W!Trail /\ w = written
    OBVIOUS
  <2>3. s \in Seq(AuditLines) /\ Len(s) = n - a /\ \A j \in 1 .. n - a : s[j] = w[a + j]
    BY <2>1, <2>2, <2>n, TrailIs
  <2>4. w \in Seq(AuditLines) /\ n = Len(w)
    BY <2>2, <2>n, <1>t DEF AuditTypes
  <2>5. W!IsSuffix(s, w)
    BY <2>3, <2>4, <2>n, SuffixOf
  <2>6. CASE a = 0
    <3>1. Len(s) = Len(w) /\ \A j \in 1 .. Len(s) : s[j] = w[j]
      BY <2>6, <2>3, <2>4, <2>n
    <3>2. s = w
      BY <3>1, <2>3, <2>4, SeqEqual
    <3> QED
      BY <3>2, <2>5, <2>2
  <2>7. CASE a > 0
    BY <2>7, <2>1, <2>2, <2>3, <2>5, <2>n, <2>k
  <2> QED
    BY <2>6, <2>7, <2>n
<1>5. afault = {} => "shift" \notin afault
  OBVIOUS
<1> QED
  BY <1>1, <1>2, <1>3, <1>4, <1>5 DEF W!AuditTrailKept

(* AuditLog: read from the oldest file to the current one, the log is the  *)
(* last lines written, in their order and without a gap, through rotations *)
(* that fail or are cut short at any step, unless an older file could not  *)
(* be renamed; without a failure nothing is lost before the kept files are *)
(* full, no file outgrows its limit, and every line has its row.  For any  *)
(* number of calls, events and lines in a file (ndjson.go:68 to 169,      *)
(* audit.go:117).                                                          *)
THEOREM AuditTrailIsKept == Spec => []AuditTrailKept
<1>1. Init => (part = "audit" => AuditInv)
  BY AuditInitial DEF Init
<1>2. (part = "audit" => AuditInv) /\ [Next]_vars => (part = "audit" => AuditInv)'
  BY PartSteps, AuditStep
<1>3. (part = "audit" => AuditInv) => AuditTrailKept
  BY AuditShows DEF AuditTrailKept
<1> QED
  BY <1>1, <1>2, <1>3, PTL DEF Spec

=============================================================================
