--------------------------- MODULE JobPool_proofs ---------------------------
(***************************************************************************)
(* Safety of the job runner for every set of jobs and workers, every       *)
(* MaxAttempts and every number of boots and database errors.              *)
(***************************************************************************)
EXTENDS JobPool, FiniteSetTheorems, TLAPS

\* A place that holds a view holds the view of a row.
ViewsNameRows ==
    /\ dpc = "send" => dview.id \in Jobs
    /\ \A i \in 1..Len(queue) : queue[i].id \in Jobs
    /\ \A w \in Workers : wpc[w] # "idle" => wview[w].id \in Jobs

\* The attempts a view carries are those of its row until the outcome write.
ViewsFresh ==
    /\ dpc = "send" => dview.attempts = attempts[dview.id]
    /\ \A i \in 1..Len(queue) : queue[i].attempts = attempts[queue[i].id]
    /\ \A w \in Workers : wpc[w] = "handling" => wview[w].attempts = attempts[wview[w].id]

\* A stopped process holds nothing.
DownIsEmpty ==
    phase = "down" =>
        dpc = "stopped" /\ queue = <<>> /\ \A w \in Workers : wpc[w] = "idle"

\* A scan handler that returned nil left its row leased or terminal.
ReturnedRows ==
    \A w \in Workers : wpc[w] = "returned" =>
        /\ Kind[wview[w].id] = "scan"
        /\ status[wview[w].id] \in {"running", "done", "failed"}

\* Rows that wait for a worker have an execution left in this boot.
Spare(j) == runs[j] < attempts[j] + boot
WaitingRowsSpare ==
    /\ \A j \in Jobs : status[j] \in {"none", "pending"} => Spare(j)
    /\ dpc = "send" => Spare(dview.id)
    /\ \A i \in 1..Len(queue) : Spare(queue[i].id)

IInv ==
    /\ TypeOK /\ ViewsNameRows /\ ViewsFresh /\ DownIsEmpty /\ ReturnedRows
    /\ LeaseExclusive /\ HeldRowsRun /\ RetryBudget /\ WaitingRowsSpare
    /\ LogOnlyOnFailed /\ OneInflightSyncPerRepo

USE JobsAssumption, KindAssumption, BoundsAssumption

\* The capacity of the channel is a number.
LEMMA QueueCapNat == QueueCap \in Nat
BY FS_CardinalityType DEF QueueCap

\* A fresh process with empty tables satisfies the invariant.
LEMMA InitInv == Init => IInv
<1> SUFFICES ASSUME Init PROVE IInv
  OBVIOUS
<1>1. TypeOK
  <2>1. RowTypes
    BY DEF Init, RowTypes
  <2>2. FlagTypes
    <3>1. [j \in Jobs |-> FALSE] \in [Jobs -> BOOLEAN]
      OBVIOUS
    <3> QED
      BY <3>1 DEF Init, FlagTypes
  <2>3. ProcTypes
    <3>1. 1 \in 1..MaxBoots /\ 0 \in 0..MaxDbErrors
      OBVIOUS
    <3> QED
      BY <3>1 DEF Init, ProcTypes
  <2>4. PoolTypes
    <3>1. queue \in Seq(Views) /\ Len(queue) <= QueueCap
      BY QueueCapNat DEF Init
    <3>2. NoView \in Views
      BY DEF NoView, Views
    <3> QED
      BY <3>1, <3>2 DEF Init, PoolTypes
  <2> QED
    BY <2>1, <2>2, <2>3, <2>4 DEF TypeOK
<1>2. ViewsNameRows /\ ViewsFresh /\ DownIsEmpty /\ ReturnedRows
  BY DEF Init, ViewsNameRows, ViewsFresh, DownIsEmpty, ReturnedRows
<1>3. LeaseExclusive /\ HeldRowsRun
  BY DEF Init, LeaseExclusive, HeldRowsRun, InDispatcher, InQueue, AtWorker
<1>4. RetryBudget /\ WaitingRowsSpare
  BY DEF Init, RetryBudget, WaitingRowsSpare, Spare
<1>5. LogOnlyOnFailed /\ OneInflightSyncPerRepo
  BY DEF Init, LogOnlyOnFailed, OneInflightSyncPerRepo, Inflight
<1> QED
  BY <1>1, <1>2, <1>3, <1>4, <1>5 DEF IInv

\* A new row is nowhere in the pool and in no other sync's way.
LEMMA EnqueueInv == ASSUME IInv, NEW j \in Jobs, Enqueue(j) PROVE IInv'
<1> USE DEF Enqueue, poolVars, procVars
<1>0. TypeOK /\ status[j] = "none"
  BY DEF IInv
<1>1. TypeOK'
  <2>1. RowTypes'
    BY <1>0 DEF TypeOK, RowTypes
  <2>2. FlagTypes'
    BY <1>0 DEF TypeOK, FlagTypes
  <2>3. ProcTypes' /\ PoolTypes'
    BY <1>0 DEF TypeOK, ProcTypes, PoolTypes
  <2> QED
    BY <2>1, <2>2, <2>3 DEF TypeOK
<1>2. (ViewsNameRows /\ ViewsFresh /\ DownIsEmpty)'
  BY DEF IInv, ViewsNameRows, ViewsFresh, DownIsEmpty
<1>3. ReturnedRows'
  BY <1>0 DEF IInv, ReturnedRows, TypeOK, RowTypes, ViewsNameRows
<1>4. LeaseExclusive'
  BY DEF IInv, LeaseExclusive, InDispatcher, InQueue, AtWorker
<1>5. HeldRowsRun'
  BY <1>0 DEF IInv, HeldRowsRun, InDispatcher, TypeOK, RowTypes, ViewsNameRows
<1>6. (RetryBudget /\ WaitingRowsSpare)'
  BY <1>0 DEF IInv, RetryBudget, WaitingRowsSpare, Spare, TypeOK, RowTypes
<1>7. LogOnlyOnFailed'
  BY <1>0 DEF IInv, LogOnlyOnFailed, TypeOK, RowTypes
<1>8. OneInflightSyncPerRepo'
  <2> SUFFICES ASSUME NEW k \in Jobs, NEW l \in Jobs, k # l, Repo[k] = Repo[l],
                      Kind[k] \in SyncKinds, Kind[l] \in SyncKinds,
                      status'[k] \in Inflight, status'[l] \in Inflight
               PROVE  FALSE
    BY DEF OneInflightSyncPerRepo
  <2>1. Kind[k] # "scan" /\ Kind[l] # "scan"
    BY DEF SyncKinds
  <2>2. CASE k = j
    BY <2>1, <2>2, <1>0 DEF InflightFor, TypeOK, RowTypes
  <2>3. CASE l = j
    BY <2>1, <2>3, <1>0 DEF InflightFor, TypeOK, RowTypes
  <2>4. CASE k # j /\ l # j
    BY <2>4, <1>0 DEF IInv, OneInflightSyncPerRepo, TypeOK, RowTypes
  <2> QED
    BY <2>2, <2>3, <2>4
<1> QED
  BY <1>1, <1>2, <1>3, <1>4, <1>5, <1>6, <1>7, <1>8 DEF IInv

\* The leased row was pending, so no place of the pool holds it yet.
LEMMA LeaseOneInv == ASSUME IInv, NEW j \in Jobs, LeaseOne(j) PROVE IInv'
<1> USE DEF LeaseOne, procVars
<1>0. TypeOK /\ status[j] = "pending" /\ attempts[j] \in 0..MaxAttempts
  BY DEF IInv, TypeOK, RowTypes
<1>a. \A i \in 1..Len(queue) : queue[i].id # j
  BY <1>0 DEF IInv, HeldRowsRun
<1>b. ASSUME NEW w \in Workers, wpc[w] # "idle" PROVE wview[w].id # j
  BY <1>b, <1>0 DEF IInv, HeldRowsRun, ReturnedRows, TypeOK, PoolTypes
<1>c. dview' = [id |-> j, attempts |-> attempts[j]]
  BY DEF View
<1>1. TypeOK'
  <2>1. RowTypes'
    BY <1>0 DEF TypeOK, RowTypes, ProcTypes
  <2>2. FlagTypes'
    BY <1>0 DEF TypeOK, FlagTypes
  <2>3. ProcTypes'
    BY <1>0 DEF TypeOK, ProcTypes
  <2>4. PoolTypes'
    BY <1>0, <1>c DEF TypeOK, PoolTypes, Views
  <2> QED
    BY <2>1, <2>2, <2>3, <2>4 DEF TypeOK
<1>2. (ViewsNameRows /\ ViewsFresh /\ DownIsEmpty)'
  BY <1>c DEF IInv, ViewsNameRows, ViewsFresh, DownIsEmpty
<1>3. ReturnedRows'
  BY <1>0, <1>b DEF IInv, ReturnedRows, TypeOK, RowTypes, ViewsNameRows
<1>4. LeaseExclusive'
  BY <1>a, <1>b, <1>c DEF IInv, LeaseExclusive, InDispatcher, InQueue, AtWorker
<1>5. HeldRowsRun'
  BY <1>0, <1>a, <1>b, <1>c DEF IInv, HeldRowsRun, InDispatcher, TypeOK, RowTypes, ViewsNameRows
<1>6. (RetryBudget /\ WaitingRowsSpare)'
  BY <1>0, <1>c DEF IInv, RetryBudget, WaitingRowsSpare, Spare, TypeOK, RowTypes
<1>7. LogOnlyOnFailed'
  BY <1>0 DEF IInv, LogOnlyOnFailed, TypeOK, RowTypes
<1>8. OneInflightSyncPerRepo'
  BY <1>0 DEF IInv, OneInflightSyncPerRepo, Inflight, TypeOK, RowTypes
<1> QED
  BY <1>1, <1>2, <1>3, <1>4, <1>5, <1>6, <1>7, <1>8 DEF IInv

\* The dispatcher moves without touching rows, channel or workers.
LEMMA QuietInv ==
    ASSUME IInv, UNCHANGED <<rowVars, queue, wview, wpc, boot, phase>>, phase = "up",
           dpc' \in {"select", "drain", "stopped"}, dview' \in {dview, NoView},
           cancelled' \in BOOLEAN, dbErrors' \in 0..MaxDbErrors
    PROVE  IInv'
<1> USE DEF rowVars
<1>1. TypeOK'
  <2>1. RowTypes' /\ FlagTypes'
    BY DEF IInv, TypeOK, RowTypes, FlagTypes
  <2>2. ProcTypes'
    BY DEF IInv, TypeOK, ProcTypes
  <2>3. PoolTypes'
    BY DEF IInv, TypeOK, PoolTypes, Views, NoView
  <2> QED
    BY <2>1, <2>2, <2>3 DEF TypeOK
<1>2. (ViewsNameRows /\ ViewsFresh /\ DownIsEmpty)'
  BY DEF IInv, ViewsNameRows, ViewsFresh, DownIsEmpty
<1>3. ReturnedRows'
  BY DEF IInv, ReturnedRows
<1>4. LeaseExclusive'
  BY DEF IInv, LeaseExclusive, InDispatcher, InQueue, AtWorker
<1>5. HeldRowsRun'
  BY DEF IInv, HeldRowsRun, InDispatcher
<1>6. (RetryBudget /\ WaitingRowsSpare)'
  BY DEF IInv, RetryBudget, WaitingRowsSpare, Spare
<1>7. LogOnlyOnFailed'
  BY DEF IInv, LogOnlyOnFailed
<1>8. OneInflightSyncPerRepo'
  BY DEF IInv, OneInflightSyncPerRepo
<1> QED
  BY <1>1, <1>2, <1>3, <1>4, <1>5, <1>6, <1>7, <1>8 DEF IInv

\* The dispatcher's other steps move no view into the pool.
LEMMA DispatcherInv ==
    ASSUME IInv, DispatchWake \/ DrainDone \/ LeaseErr \/ SendCancelled \/ DispatchStop
    PROVE  IInv'
<1>1. cancelled \in BOOLEAN /\ dbErrors \in 0..MaxDbErrors
  BY DEF IInv, TypeOK, ProcTypes
<1>2. cancelled' = cancelled /\ dbErrors' \in 0..MaxDbErrors
  BY <1>1 DEF DispatchWake, DrainDone, LeaseErr, SendCancelled, DispatchStop, procVars
<1>3. /\ UNCHANGED <<rowVars, queue, wview, wpc, boot, phase>> /\ phase = "up"
      /\ dpc' \in {"select", "drain", "stopped"} /\ dview' \in {dview, NoView}
  BY DEF DispatchWake, DrainDone, LeaseErr, SendCancelled, DispatchStop, procVars
<1> QED
  BY <1>1, <1>2, <1>3, QuietInv

\* The view moves from the dispatcher to the end of the channel.
LEMMA SendInv == ASSUME IInv, Send PROVE IInv'
<1> USE DEF Send, procVars, rowVars
<1>0. /\ dview \in Views /\ queue \in Seq(Views) /\ Len(queue) \in Nat
      /\ dpc = "send" /\ dpc' = "drain"
  BY DEF IInv, TypeOK, PoolTypes
<1>a. /\ Len(queue') = Len(queue) + 1
      /\ \A i \in 1..Len(queue) : queue'[i] = queue[i]
      /\ queue'[Len(queue) + 1] = dview
      /\ queue' \in Seq(Views)
  BY <1>0
<1>b. \A i \in 1..Len(queue') : i \in 1..Len(queue) \/ i = Len(queue) + 1
  BY <1>0, <1>a
<1>1. TypeOK'
  <2>1. RowTypes' /\ FlagTypes' /\ ProcTypes'
    BY DEF IInv, TypeOK, RowTypes, FlagTypes, ProcTypes
  <2>2. Len(queue') <= QueueCap
    BY <1>0, <1>a, QueueCapNat
  <2>3. NoView \in Views
    BY DEF NoView, Views
  <2>4. PoolTypes'
    BY <1>a, <2>2, <2>3 DEF IInv, TypeOK, PoolTypes
  <2> QED
    BY <2>1, <2>4 DEF TypeOK
<1>2. (ViewsNameRows /\ ViewsFresh /\ DownIsEmpty)'
  BY <1>0, <1>a, <1>b DEF IInv, ViewsNameRows, ViewsFresh, DownIsEmpty
<1>3. ReturnedRows'
  BY DEF IInv, ReturnedRows
<1>4. LeaseExclusive'
  BY <1>0, <1>a, <1>b DEF IInv, LeaseExclusive, InDispatcher, InQueue, AtWorker
<1>5. HeldRowsRun'
  BY <1>0, <1>a, <1>b DEF IInv, HeldRowsRun, InDispatcher, ViewsNameRows
<1>6. (RetryBudget /\ WaitingRowsSpare)'
  BY <1>0, <1>a, <1>b DEF IInv, RetryBudget, WaitingRowsSpare, Spare
<1>7. LogOnlyOnFailed'
  BY DEF IInv, LogOnlyOnFailed
<1>8. OneInflightSyncPerRepo'
  BY DEF IInv, OneInflightSyncPerRepo
<1> QED
  BY <1>1, <1>2, <1>3, <1>4, <1>5, <1>6, <1>7, <1>8 DEF IInv

\* The view moves from the head of the channel to a worker, and the handler
\* start uses up the execution its row had to spare.
LEMMA RecvInv == ASSUME IInv, NEW w \in Workers, Recv(w) PROVE IInv'
<1> USE DEF Recv, procVars
<1>0. queue \in Seq(Views) /\ queue # <<>> /\ Len(queue) \in Nat
  BY DEF IInv, TypeOK, PoolTypes
<1>a. /\ Len(queue) > 0 /\ Len(queue') = Len(queue) - 1
      /\ \A i \in 1..Len(queue') : queue'[i] = queue[i + 1] /\ i + 1 \in 1..Len(queue)
      /\ Head(queue) = queue[1] /\ 1 \in 1..Len(queue)
      /\ queue' \in Seq(Views)
  BY <1>0
<1> DEFINE j == queue[1].id
<1>b. /\ queue[1] \in Views /\ j \in Jobs
      /\ runs' = [runs EXCEPT ![j] = @ + 1]
      /\ wview' = [wview EXCEPT ![w] = queue[1]]
  BY <1>0, <1>a DEF IInv, ViewsNameRows
<1>c. /\ \A i \in 1..Len(queue') : queue'[i].id # j
      /\ dpc = "send" => dview.id # j
      /\ \A x \in Workers : wpc[x] # "idle" => wview[x].id # j
  BY <1>a, <1>b DEF IInv, LeaseExclusive, InDispatcher, InQueue, AtWorker
<1>d. status[j] = "running" /\ Spare(j) /\ queue[1].attempts = attempts[j] /\ leaseBoot[j] = boot
  BY <1>a DEF IInv, HeldRowsRun, WaitingRowsSpare, ViewsFresh
<1>e. /\ UNCHANGED <<status, attempts, due, stale, log, summary, leaseBoot, dpc, dview, procVars>>
      /\ wpc' = [wpc EXCEPT ![w] = "handling"] /\ wpc[w] = "idle" /\ phase = "up"
  OBVIOUS
<1> HIDE DEF j, Recv
<1> USE <1>e
<1>1. TypeOK'
  <2>0. runs \in [Jobs -> Nat] /\ runs' \in [Jobs -> Nat]
    BY <1>b DEF IInv, TypeOK, RowTypes
  <2>1. RowTypes'
    BY <2>0 DEF IInv, TypeOK, RowTypes
  <2>2. FlagTypes' /\ ProcTypes'
    BY DEF IInv, TypeOK, FlagTypes, ProcTypes
  <2>3. Len(queue') <= QueueCap
    BY <1>0, <1>a, QueueCapNat DEF IInv, TypeOK, PoolTypes
  <2>4. PoolTypes'
    BY <1>a, <1>b, <2>3 DEF IInv, TypeOK, PoolTypes
  <2> QED
    BY <2>1, <2>2, <2>4 DEF TypeOK
<1>2. (ViewsNameRows /\ ViewsFresh /\ DownIsEmpty)'
  <2>1. wpc' = [wpc EXCEPT ![w] = "handling"] /\ wpc \in [Workers -> {"idle", "handling", "returned"}]
        /\ wview \in [Workers -> Views]
    BY DEF IInv, TypeOK, PoolTypes
  <2>2. ViewsNameRows'
    BY <1>a, <1>b, <2>1 DEF IInv, ViewsNameRows, j
  <2>3. ViewsFresh'
    <3>1. \A i \in 1..Len(queue') : queue'[i].attempts = attempts[queue'[i].id]
      BY <1>a DEF IInv, ViewsFresh
    <3>2. \A x \in Workers : wpc'[x] = "handling" => wview'[x].attempts = attempts[wview'[x].id]
      BY <1>b, <1>d, <2>1 DEF IInv, ViewsFresh, j
    <3> QED
      BY <3>1, <3>2 DEF IInv, ViewsFresh
  <2>4. DownIsEmpty'
    BY DEF DownIsEmpty
  <2> QED
    BY <2>2, <2>3, <2>4
<1>3. ReturnedRows'
  BY <1>b DEF IInv, ReturnedRows, TypeOK, PoolTypes
<1>4. LeaseExclusive'
  <2>1. /\ wpc' = [wpc EXCEPT ![w] = "handling"] /\ wpc[w] = "idle"
        /\ wpc \in [Workers -> {"idle", "handling", "returned"}]
        /\ wview \in [Workers -> Views] /\ dpc' = dpc /\ dview' = dview
    BY DEF IInv, TypeOK, PoolTypes
  <2>2. \A x \in Workers, k \in Jobs :
           AtWorker(k, x)' => (x = w /\ k = j) \/ (x # w /\ k # j /\ AtWorker(k, x))
    BY <1>b, <1>c, <2>1 DEF AtWorker, j
  <2>3. \A k \in Jobs, i \in 1..Len(queue') :
           InQueue(k, i)' => k # j /\ i + 1 \in 1..Len(queue) /\ InQueue(k, i + 1)
    BY <1>a, <1>c DEF InQueue
  <2>4. \A k \in Jobs : InDispatcher(k)' => k # j /\ InDispatcher(k)
    BY <1>c, <2>1 DEF InDispatcher
  <2>5. ASSUME NEW k \in Jobs, NEW i \in 1..Len(queue'), NEW l \in 1..Len(queue'),
               InQueue(k, i)', InQueue(k, l)'
        PROVE  i = l
    <3>1. i + 1 \in 1..Len(queue) /\ l + 1 \in 1..Len(queue)
          /\ InQueue(k, i + 1) /\ InQueue(k, l + 1)
      BY <2>3, <2>5
    <3>2. i + 1 = l + 1
      BY <3>1 DEF IInv, LeaseExclusive
    <3> QED
      BY <3>2, <1>a, <1>0
  <2>6. ASSUME NEW k \in Jobs, NEW x \in Workers, NEW y \in Workers,
               AtWorker(k, x)', AtWorker(k, y)'
        PROVE  x = y
    BY <2>2, <2>6 DEF IInv, LeaseExclusive
  <2>7. ASSUME NEW k \in Jobs, NEW i \in 1..Len(queue'), InQueue(k, i)'
        PROVE  ~InDispatcher(k)' /\ \A x \in Workers : ~AtWorker(k, x)'
    BY <2>2, <2>3, <2>4, <2>7 DEF IInv, LeaseExclusive
  <2>8. ASSUME NEW k \in Jobs, InDispatcher(k)' PROVE \A x \in Workers : ~AtWorker(k, x)'
    BY <2>2, <2>4, <2>8 DEF IInv, LeaseExclusive
  <2> QED
    BY <2>5, <2>6, <2>7, <2>8 DEF LeaseExclusive
<1>5. HeldRowsRun'
  BY <1>a, <1>b, <1>d DEF IInv, HeldRowsRun, InDispatcher, TypeOK, PoolTypes, j
<1>6. (RetryBudget /\ WaitingRowsSpare)'
  <2>1. /\ runs \in [Jobs -> Nat] /\ attempts \in [Jobs -> Nat] /\ boot \in Nat
        /\ attempts' = attempts /\ status' = status /\ boot' = boot /\ dview' = dview /\ dpc' = dpc
    BY DEF IInv, TypeOK, RowTypes, ProcTypes
  <2>2. \A k \in Jobs : runs'[k] = IF k = j THEN runs[k] + 1 ELSE runs[k]
    BY <1>b, <2>1
  <2>3. RetryBudget'
    BY <1>d, <2>1, <2>2 DEF IInv, RetryBudget, Spare
  <2>4. \A k \in Jobs : status'[k] \in {"none", "pending"} => Spare(k)'
    BY <1>d, <2>1, <2>2 DEF IInv, WaitingRowsSpare, Spare
  <2>5. dpc' = "send" => Spare(dview.id)'
    <3>1. dpc = "send" => dview.id \in Jobs /\ runs[dview.id] < attempts[dview.id] + boot
      BY DEF IInv, WaitingRowsSpare, ViewsNameRows, Spare
    <3> QED
      BY <1>c, <2>1, <2>2, <3>1 DEF Spare
  <2>6. \A i \in 1..Len(queue') : runs'[queue'[i].id] < attempts'[queue'[i].id] + boot'
    <3>1. \A i \in 1..Len(queue') :
             queue'[i].id \in Jobs /\ runs[queue'[i].id] < attempts[queue'[i].id] + boot
      BY <1>a DEF IInv, WaitingRowsSpare, ViewsNameRows, Spare
    <3> QED
      BY <1>c, <2>1, <2>2, <3>1
  <2> QED
    BY <2>3, <2>4, <2>5, <2>6 DEF WaitingRowsSpare, Spare
<1>7. LogOnlyOnFailed'
  BY DEF IInv, LogOnlyOnFailed
<1>8. OneInflightSyncPerRepo'
  BY DEF IInv, OneInflightSyncPerRepo
<1> QED
  BY <1>1, <1>2, <1>3, <1>4, <1>5, <1>6, <1>7, <1>8 DEF IInv

\* What an outcome write does to the row: nothing, a charged retry, or a
\* terminal status.
Outcome(j) ==
    \/ UNCHANGED <<status, attempts, due, log>>
    \/ /\ status[j] = "running" /\ attempts[j] + 1 < MaxAttempts
       /\ status' = [status EXCEPT ![j] = "pending"]
       /\ attempts' = [attempts EXCEPT ![j] = @ + 1]
       /\ due' = [due EXCEPT ![j] = FALSE]
       /\ log' = log
    \/ /\ status[j] = "running"
       /\ status' = [status EXCEPT ![j] = "done"]
       /\ UNCHANGED <<attempts, due, log>>
    \/ /\ status[j] = "running"
       /\ status' = [status EXCEPT ![j] = "failed"]
       /\ UNCHANGED <<attempts, due>>
       /\ log' \in {log, [log EXCEPT ![j] = "counts"]}

\* Any outcome write is on the row its worker holds, which nobody else holds.
LEMMA OutcomeInv ==
    ASSUME IInv, NEW w \in Workers, wpc[w] # "idle", phase = "up",
           NEW j \in Jobs, wview[w].id = j, Release(w), Outcome(j),
           UNCHANGED <<stale, summary, leaseBoot, runs, dpc, dview, queue, phase, boot, cancelled>>,
           dbErrors' \in 0..MaxDbErrors
    PROVE  IInv'
<1> USE DEF Release
<1>0. TypeOK
  BY DEF IInv
<1>a. /\ \A i \in 1..Len(queue) : queue[i].id # j
      /\ \A x \in Workers : x # w /\ wpc[x] # "idle" => wview[x].id # j
      /\ dpc = "send" => dview.id # j
  BY DEF IInv, LeaseExclusive, InDispatcher, InQueue, AtWorker
<1>b. /\ \A x \in Workers : wpc'[x] # "idle" => x # w /\ wpc'[x] = wpc[x] /\ wview'[x] = wview[x]
  BY <1>0 DEF TypeOK, PoolTypes
<1>c. \A k \in Jobs : k # j => status'[k] = status[k] /\ attempts'[k] = attempts[k]
  BY <1>0 DEF Outcome, TypeOK, RowTypes
<1>1. TypeOK'
  <2>1. RowTypes'
    BY <1>0 DEF Outcome, TypeOK, RowTypes
  <2>2. FlagTypes'
    BY <1>0 DEF Outcome, TypeOK, FlagTypes
  <2>3. ProcTypes'
    BY <1>0 DEF TypeOK, ProcTypes
  <2>4. PoolTypes'
    BY <1>0 DEF TypeOK, PoolTypes, Views, NoView
  <2> QED
    BY <2>1, <2>2, <2>3, <2>4 DEF TypeOK
<1>2. (ViewsNameRows /\ ViewsFresh /\ DownIsEmpty)'
  BY <1>a, <1>b, <1>c DEF IInv, ViewsNameRows, ViewsFresh, DownIsEmpty
<1>3. ReturnedRows'
  BY <1>a, <1>b, <1>c DEF IInv, ReturnedRows, ViewsNameRows
<1>4. LeaseExclusive'
  BY <1>b DEF IInv, LeaseExclusive, InDispatcher, InQueue, AtWorker
<1>5. HeldRowsRun'
  BY <1>a, <1>b, <1>c DEF IInv, HeldRowsRun, InDispatcher, ViewsNameRows
<1>6. (RetryBudget /\ WaitingRowsSpare)'
  <2>1. /\ attempts'[j] < MaxAttempts /\ runs[j] <= attempts'[j] + boot
        /\ status'[j] \in {"none", "pending"} => runs[j] < attempts'[j] + boot
    BY <1>0 DEF IInv, Outcome, TypeOK, RowTypes, ProcTypes, RetryBudget, WaitingRowsSpare, Spare
  <2> QED
    BY <2>1, <1>a, <1>c DEF IInv, RetryBudget, WaitingRowsSpare, Spare, ViewsNameRows
<1>7. LogOnlyOnFailed'
  BY <1>0 DEF IInv, Outcome, LogOnlyOnFailed, TypeOK, RowTypes
<1>8. OneInflightSyncPerRepo'
  <2>1. \A k \in Jobs : status'[k] \in Inflight => status[k] \in Inflight
    BY <1>0 DEF Outcome, Inflight, TypeOK, RowTypes
  <2> QED
    BY <2>1 DEF IInv, OneInflightSyncPerRepo
<1> QED
  BY <1>1, <1>2, <1>3, <1>4, <1>5, <1>6, <1>7, <1>8 DEF IInv

\* The four ways a handler ends are outcome writes.
LEMMA HandlerIsOutcome ==
    ASSUME IInv, NEW w \in Workers,
           HandlerOk(w) \/ HandlerPartial(w) \/ HandlerOverLimit(w) \/ HandlerError(w)
    PROVE  /\ wpc[w] # "idle" /\ phase = "up" /\ wview[w].id \in Jobs
           /\ Release(w) /\ Outcome(wview[w].id)
           /\ UNCHANGED <<stale, summary, leaseBoot, runs, dpc, dview, queue, phase, boot, cancelled>>
           /\ dbErrors' \in 0..MaxDbErrors
<1> DEFINE j == wview[w].id
<1>0. TypeOK /\ dbErrors \in 0..MaxDbErrors
  BY DEF IInv, TypeOK, ProcTypes
<1>1. wpc[w] # "idle" /\ phase = "up"
  BY DEF HandlerOk, HandlerPartial, HandlerOverLimit, HandlerError, Handling
<1>2. j \in Jobs
  BY <1>1 DEF IInv, ViewsNameRows
<1>3. wpc[w] = "handling" => status[j] = "running" /\ wview[w].attempts = attempts[j]
  BY DEF IInv, HeldRowsRun, ViewsFresh
<1>4. wpc[w] = "returned" => Kind[j] = "scan"
  BY DEF IInv, ReturnedRows
<1>5. attempts[j] \in Nat
  BY <1>0, <1>2 DEF TypeOK, RowTypes
<1>6. dbErrors' \in 0..MaxDbErrors
  BY <1>0 DEF HandlerOk, HandlerPartial, HandlerOverLimit, HandlerError, TxCommits, TxFails, TerminalTxFails
<1>7. /\ Release(w)
      /\ UNCHANGED <<stale, summary, leaseBoot, runs, dpc, dview, queue, phase, boot, cancelled>>
  BY DEF HandlerOk, HandlerPartial, HandlerOverLimit, HandlerError
<1>8. Outcome(j)
  <2>1. CASE HandlerOk(w)
    BY <2>1, <1>3, <1>4 DEF HandlerOk, MarkDone, Outcome
  <2>2. CASE HandlerPartial(w)
    BY <2>2, <1>3 DEF HandlerPartial, Handling, Outcome
  <2>3. CASE HandlerOverLimit(w)
    BY <2>3, <1>3 DEF HandlerOverLimit, Handling, Outcome
  <2>4. CASE HandlerError(w)
    BY <2>4, <1>3, <1>5 DEF HandlerError, Handling, RetryLadder, Outcome
  <2> QED
    BY <2>1, <2>2, <2>3, <2>4
<1> QED
  BY <1>1, <1>2, <1>6, <1>7, <1>8

\* What a handler's return writes is such an outcome.
LEMMA HandlerInv ==
    ASSUME IInv, NEW w \in Workers,
           HandlerOk(w) \/ HandlerPartial(w) \/ HandlerOverLimit(w) \/ HandlerError(w)
    PROVE  IInv'
BY HandlerIsOutcome, OutcomeInv

\* The scan handler's own terminal write leaves the worker holding a row that
\* only the guarded MarkDone may still touch.
LEMMA ScanInv ==
    ASSUME IInv, NEW w \in Workers, ScanCommit(w) \/ ScanPermFail(w) PROVE IInv'
<1> DEFINE j == wview[w].id
<1>0. TypeOK /\ wpc[w] = "handling" /\ Kind[j] = "scan" /\ phase = "up"
  BY DEF IInv, ScanCommit, ScanPermFail, Handling
<1>a. /\ \A i \in 1..Len(queue) : queue[i].id # j
      /\ \A x \in Workers : x # w /\ wpc[x] # "idle" => wview[x].id # j
      /\ dpc = "send" => dview.id # j
      /\ j \in Jobs /\ status[j] = "running"
  BY <1>0 DEF IInv, LeaseExclusive, InDispatcher, InQueue, AtWorker, ViewsNameRows, HeldRowsRun
<1>b. /\ wpc' = [wpc EXCEPT ![w] = "returned"]
      /\ UNCHANGED <<attempts, due, stale, log, leaseBoot, runs, dpc, dview, queue, wview, phase, boot, cancelled>>
  BY DEF ScanCommit, ScanPermFail
<1>c. status' \in {status, [status EXCEPT ![j] = "done"], [status EXCEPT ![j] = "failed"]}
  BY DEF ScanCommit, ScanPermFail
<1>d. summary' \in {summary, [summary EXCEPT ![j] = TRUE]}
  BY DEF ScanCommit, ScanPermFail
<1>e. dbErrors' \in 0..MaxDbErrors
  BY <1>0 DEF ScanCommit, ScanPermFail, TxCommits, TxFails, TypeOK, ProcTypes
<1>f. wpc \in [Workers -> {"idle", "handling", "returned"}]
  BY <1>0 DEF TypeOK, PoolTypes
<1>g. /\ \A k \in Jobs : k # j => status'[k] = status[k]
      /\ status'[j] \in {"running", "done", "failed"}
  BY <1>0, <1>a, <1>c DEF TypeOK, RowTypes
<1> HIDE DEF j
<1>1. TypeOK'
  <2>1. RowTypes'
    BY <1>0, <1>a, <1>b, <1>c DEF TypeOK, RowTypes
  <2>2. FlagTypes'
    BY <1>0, <1>a, <1>b, <1>d DEF TypeOK, FlagTypes
  <2>3. ProcTypes'
    BY <1>0, <1>b, <1>e DEF TypeOK, ProcTypes
  <2>4. PoolTypes'
    BY <1>0, <1>b DEF TypeOK, PoolTypes
  <2> QED
    BY <2>1, <2>2, <2>3, <2>4 DEF TypeOK
<1>2. (ViewsNameRows /\ ViewsFresh /\ DownIsEmpty)'
  BY <1>0, <1>a, <1>b, <1>f DEF IInv, ViewsNameRows, ViewsFresh, DownIsEmpty, j
<1>3. ReturnedRows'
  BY <1>0, <1>a, <1>b, <1>f, <1>g DEF IInv, ReturnedRows, ViewsNameRows, j
<1>4. LeaseExclusive'
  BY <1>0, <1>b, <1>f DEF IInv, LeaseExclusive, InDispatcher, InQueue, AtWorker
<1>5. HeldRowsRun'
  BY <1>a, <1>b, <1>f, <1>g DEF IInv, HeldRowsRun, InDispatcher, ViewsNameRows
<1>6. (RetryBudget /\ WaitingRowsSpare)'
  BY <1>a, <1>b, <1>g DEF IInv, RetryBudget, WaitingRowsSpare, Spare
<1>7. LogOnlyOnFailed'
  BY <1>a, <1>b, <1>g DEF IInv, LogOnlyOnFailed
<1>8. OneInflightSyncPerRepo'
  BY <1>a, <1>g DEF IInv, OneInflightSyncPerRepo, Inflight
<1> QED
  BY <1>1, <1>2, <1>3, <1>4, <1>5, <1>6, <1>7, <1>8 DEF IInv

\* The process is asked to stop, or time passes.
LEMMA ShutdownInv == ASSUME IInv, Shutdown PROVE IInv'
<1> USE DEF Shutdown, rowVars, poolVars
<1>1. TypeOK'
  <2>1. RowTypes' /\ FlagTypes' /\ PoolTypes'
    BY DEF IInv, TypeOK, RowTypes, FlagTypes, PoolTypes
  <2>2. ProcTypes'
    BY DEF IInv, TypeOK, ProcTypes
  <2> QED
    BY <2>1, <2>2 DEF TypeOK
<1>2. (ViewsNameRows /\ ViewsFresh /\ DownIsEmpty)'
  BY DEF IInv, ViewsNameRows, ViewsFresh, DownIsEmpty
<1>3. ReturnedRows'
  BY DEF IInv, ReturnedRows
<1>4. LeaseExclusive'
  BY DEF IInv, LeaseExclusive, InDispatcher, InQueue, AtWorker
<1>5. HeldRowsRun'
  BY DEF IInv, HeldRowsRun, InDispatcher
<1>6. (RetryBudget /\ WaitingRowsSpare)'
  BY DEF IInv, RetryBudget, WaitingRowsSpare, Spare
<1>7. LogOnlyOnFailed'
  BY DEF IInv, LogOnlyOnFailed
<1>8. OneInflightSyncPerRepo'
  BY DEF IInv, OneInflightSyncPerRepo
<1> QED
  BY <1>1, <1>2, <1>3, <1>4, <1>5, <1>6, <1>7, <1>8 DEF IInv

\* The passage of time changes no status.
LEMMA TimeInv ==
    ASSUME IInv, NEW j \in Jobs, BackoffElapses(j) \/ LeaseAges(j) PROVE IInv'
<1>0. UNCHANGED <<status, attempts, log, summary, leaseBoot, runs, poolVars, procVars>>
  BY DEF BackoffElapses, LeaseAges
<1>1. TypeOK'
  <2>1. RowTypes' /\ ProcTypes' /\ PoolTypes'
    BY <1>0 DEF IInv, TypeOK, RowTypes, ProcTypes, PoolTypes, poolVars, procVars
  <2>2. FlagTypes'
    BY DEF IInv, TypeOK, FlagTypes, BackoffElapses, LeaseAges
  <2> QED
    BY <2>1, <2>2 DEF TypeOK
<1> USE <1>0 DEF poolVars, procVars
<1>2. (ViewsNameRows /\ ViewsFresh /\ DownIsEmpty)'
  BY DEF IInv, ViewsNameRows, ViewsFresh, DownIsEmpty
<1>3. ReturnedRows'
  BY DEF IInv, ReturnedRows
<1>4. LeaseExclusive'
  BY DEF IInv, LeaseExclusive, InDispatcher, InQueue, AtWorker
<1>5. HeldRowsRun'
  BY DEF IInv, HeldRowsRun, InDispatcher
<1>6. (RetryBudget /\ WaitingRowsSpare)'
  BY DEF IInv, RetryBudget, WaitingRowsSpare, Spare
<1>7. LogOnlyOnFailed'
  BY DEF IInv, LogOnlyOnFailed
<1>8. OneInflightSyncPerRepo'
  BY DEF IInv, OneInflightSyncPerRepo
<1> QED
  BY <1>1, <1>2, <1>3, <1>4, <1>5, <1>6, <1>7, <1>8 DEF IInv

\* A halted process holds nothing; the rows it held stay running.
LEMMA HaltInv == ASSUME IInv, Halt PROVE IInv'
<1> USE DEF Halt, rowVars
<1>0. <<>> \in Seq(Views) /\ Len(<<>>) = 0 /\ NoView \in Views /\ 1..0 = {}
  BY DEF NoView, Views
<1>1. TypeOK'
  <2>1. RowTypes' /\ FlagTypes'
    BY DEF IInv, TypeOK, RowTypes, FlagTypes
  <2>2. ProcTypes'
    BY DEF IInv, TypeOK, ProcTypes
  <2>3. PoolTypes'
    BY <1>0, QueueCapNat DEF PoolTypes
  <2> QED
    BY <2>1, <2>2, <2>3 DEF TypeOK
<1>2. (ViewsNameRows /\ ViewsFresh /\ DownIsEmpty)'
  BY <1>0 DEF ViewsNameRows, ViewsFresh, DownIsEmpty
<1>3. ReturnedRows'
  BY DEF ReturnedRows
<1>4. LeaseExclusive'
  BY <1>0 DEF LeaseExclusive, InDispatcher, InQueue, AtWorker
<1>5. HeldRowsRun'
  BY <1>0 DEF HeldRowsRun, InDispatcher
<1>6. (RetryBudget /\ WaitingRowsSpare)'
  BY <1>0 DEF IInv, RetryBudget, WaitingRowsSpare, Spare
<1>7. LogOnlyOnFailed'
  BY DEF IInv, LogOnlyOnFailed
<1>8. OneInflightSyncPerRepo'
  BY DEF IInv, OneInflightSyncPerRepo
<1> QED
  BY <1>1, <1>2, <1>3, <1>4, <1>5, <1>6, <1>7, <1>8 DEF IInv

\* The sweep touches only running rows, and no place of the pool holds one.
LEMMA BootInv == ASSUME IInv, Boot PROVE IInv'
<1>0. /\ TypeOK /\ queue' = <<>> /\ Len(queue') = 0 /\ 1..0 = {}
      /\ \A w \in Workers : wpc'[w] = "idle"
      /\ dpc' = "drain" /\ phase' = "up" /\ boot' = boot + 1 /\ boot < MaxBoots
      /\ UNCHANGED <<attempts, due, stale, summary, leaseBoot, runs, dview, queue, wview, wpc, dbErrors>>
      /\ cancelled' = FALSE
  BY DEF IInv, DownIsEmpty, Boot
<1>a. \A j \in Jobs :
        \/ status'[j] = status[j] /\ log'[j] = log[j]
        \/ status[j] = "running" /\ status'[j] = "failed"
        \/ status[j] = "running" /\ status'[j] = "pending" /\ log'[j] = log[j]
  BY DEF Boot, RecoverStuckJobs
<1>b. boot \in 1..MaxBoots /\ boot' \in 1..MaxBoots
  BY <1>0 DEF TypeOK, ProcTypes
<1>1. TypeOK'
  <2>1. status' \in [Jobs -> {"none", "pending", "running", "done", "failed"}]
    BY <1>0 DEF Boot, RecoverStuckJobs, TypeOK, RowTypes
  <2>2. log' \in [Jobs -> {"none", "counts", "null"}]
    BY <1>0 DEF Boot, RecoverStuckJobs, TypeOK, RowTypes
  <2>3. RowTypes'
    BY <1>0, <2>1, <2>2 DEF TypeOK, RowTypes
  <2>4. FlagTypes' /\ PoolTypes'
    BY <1>0 DEF TypeOK, FlagTypes, PoolTypes
  <2>5. ProcTypes'
    BY <1>0, <1>b DEF TypeOK, ProcTypes
  <2> QED
    BY <2>3, <2>4, <2>5 DEF TypeOK
<1>2. (ViewsNameRows /\ ViewsFresh /\ DownIsEmpty)'
  BY <1>0 DEF ViewsNameRows, ViewsFresh, DownIsEmpty
<1>3. ReturnedRows'
  BY <1>0 DEF ReturnedRows
<1>4. LeaseExclusive'
  BY <1>0 DEF LeaseExclusive, InDispatcher, InQueue, AtWorker
<1>5. HeldRowsRun'
  BY <1>0 DEF HeldRowsRun, InDispatcher
<1>6. (RetryBudget /\ WaitingRowsSpare)'
  <2>1. \A j \in Jobs : runs[j] \in Nat /\ attempts[j] \in Nat
    BY <1>0 DEF TypeOK, RowTypes
  <2> QED
    BY <1>0, <1>b, <2>1 DEF IInv, RetryBudget, WaitingRowsSpare, Spare
<1>7. LogOnlyOnFailed'
  BY <1>a DEF IInv, LogOnlyOnFailed
<1>8. OneInflightSyncPerRepo'
  BY <1>a DEF IInv, OneInflightSyncPerRepo, Inflight
<1> QED
  BY <1>1, <1>2, <1>3, <1>4, <1>5, <1>6, <1>7, <1>8 DEF IInv

\* Stuttering.
LEMMA StutterInv == ASSUME IInv, UNCHANGED vars PROVE IInv'
<1> USE DEF vars, rowVars, poolVars, procVars
<1>1. TypeOK'
  BY DEF IInv, TypeOK, RowTypes, FlagTypes, ProcTypes, PoolTypes
<1>2. (ViewsNameRows /\ ViewsFresh /\ DownIsEmpty)'
  BY DEF IInv, ViewsNameRows, ViewsFresh, DownIsEmpty
<1>3. ReturnedRows'
  BY DEF IInv, ReturnedRows
<1>4. LeaseExclusive'
  BY DEF IInv, LeaseExclusive, InDispatcher, InQueue, AtWorker
<1>5. HeldRowsRun'
  BY DEF IInv, HeldRowsRun, InDispatcher
<1>6. (RetryBudget /\ WaitingRowsSpare)'
  BY DEF IInv, RetryBudget, WaitingRowsSpare, Spare
<1>7. LogOnlyOnFailed'
  BY DEF IInv, LogOnlyOnFailed
<1>8. OneInflightSyncPerRepo'
  BY DEF IInv, OneInflightSyncPerRepo
<1> QED
  BY <1>1, <1>2, <1>3, <1>4, <1>5, <1>6, <1>7, <1>8 DEF IInv

\* Every step preserves the invariant.
LEMMA NextInv == IInv /\ [Next]_vars => IInv'
<1> SUFFICES ASSUME IInv, [Next]_vars PROVE IInv'
  OBVIOUS
<1>1. CASE Dispatcher
  BY <1>1, DispatcherInv, LeaseOneInv, SendInv DEF Dispatcher
<1>2. ASSUME NEW w \in Workers, Worker(w) PROVE IInv'
  BY <1>2, RecvInv, ScanInv, HandlerInv DEF Worker
<1>3. ASSUME NEW j \in Jobs, Enqueue(j) \/ BackoffElapses(j) \/ LeaseAges(j) PROVE IInv'
  BY <1>3, EnqueueInv, TimeInv
<1>4. CASE Shutdown \/ ShutdownDone \/ Kill \/ Boot
  BY <1>4, ShutdownInv, HaltInv, BootInv DEF ShutdownDone, Kill
<1> QED
  BY <1>1, <1>2, <1>3, <1>4, StutterInv DEF Next

\* No step reopens a terminal row: an outcome write only hits a row that is
\* 'running', and the sweep of a boot only sweeps such rows.
LEMMA NextTerminal ==
    ASSUME IInv, [Next]_vars, NEW j \in Jobs, status[j] \in Terminal
    PROVE  status'[j] = status[j]
<1> USE DEF Terminal
<1>0. status \in [Jobs -> {"none", "pending", "running", "done", "failed"}]
  BY DEF IInv, TypeOK, RowTypes
<1>1. CASE Dispatcher
  BY <1>0, <1>1 DEF Dispatcher, DispatchWake, DrainDone, LeaseErr, Send, SendCancelled,
      DispatchStop, LeaseOne, rowVars
<1>2. ASSUME NEW w \in Workers, Worker(w) PROVE status'[j] = status[j]
  <2>1. CASE Recv(w)
    BY <2>1 DEF Recv
  <2>2. CASE ScanCommit(w) \/ ScanPermFail(w)
    <3>1. wpc[w] = "handling" /\ status[wview[w].id] = "running"
      BY <2>2 DEF ScanCommit, ScanPermFail, Handling, IInv, HeldRowsRun
    <3> QED
      BY <1>0, <2>2, <3>1 DEF ScanCommit, ScanPermFail
  <2>3. CASE HandlerOk(w) \/ HandlerPartial(w) \/ HandlerOverLimit(w) \/ HandlerError(w)
    <3>1. Outcome(wview[w].id)
      BY <2>3, HandlerIsOutcome
    <3> QED
      BY <1>0, <3>1 DEF Outcome
  <2> QED
    BY <1>2, <2>1, <2>2, <2>3 DEF Worker
<1>3. ASSUME NEW k \in Jobs, Enqueue(k) \/ BackoffElapses(k) \/ LeaseAges(k)
      PROVE  status'[j] = status[j]
  BY <1>0, <1>3 DEF Enqueue, BackoffElapses, LeaseAges
<1>4. CASE Shutdown \/ ShutdownDone \/ Kill \/ Boot
  BY <1>4 DEF Shutdown, ShutdownDone, Kill, Halt, Boot, RecoverStuckJobs, rowVars
<1>5. CASE UNCHANGED vars
  BY <1>5 DEF vars, rowVars
<1> QED
  BY <1>1, <1>2, <1>3, <1>4, <1>5 DEF Next

-----------------------------------------------------------------------------
(* The refinement of JobQueue.                                             *)

\* A step that changes neither rows nor who holds a running row stutters.
LEMMA QueueStutters ==
    ASSUME UNCHANGED <<status, attempts>>,
           \A k \in Jobs : status[k] = "running" => (Held(k)' <=> Held(k))
    PROVE  UNCHANGED Queue!vars
<1>1. QueueState' = QueueState
  BY DEF QueueState
<1> QED
  BY <1>1 DEF Queue!vars

\* A step that changes one row of the queue is a move of that row.
LEMMA QueueMoves ==
    ASSUME NEW j \in Jobs, NEW to, QueueState'[j] = to,
           \A k \in Jobs : k # j => QueueState'[k] = QueueState[k]
    PROVE  Queue!Move(j, QueueState[j], to)
<1>1. QueueState' = [QueueState EXCEPT ![j] = to]
  BY DEF QueueState
<1> QED
  BY <1>1 DEF Queue!Move

\* Other rows keep their place when their status and their holder do.
LEMMA OthersKeep ==
    ASSUME NEW j, \A k \in Jobs : k # j => status'[k] = status[k],
           \A k \in Jobs : k # j => (Held(k)' <=> Held(k))
    PROVE  \A k \in Jobs : k # j => QueueState'[k] = QueueState[k]
BY DEF QueueState

\* The dispatcher takes pending rows and drops one when it is cancelled.
LEMMA DispatcherQueue == ASSUME IInv, Dispatcher PROVE [Queue!Next]_(Queue!vars)
<1>0. /\ status \in [Jobs -> {"none", "pending", "running", "done", "failed"}]
      /\ queue \in Seq(Views) /\ Len(queue) \in Nat /\ dview \in Views
  BY DEF IInv, TypeOK, RowTypes, PoolTypes
<1>1. CASE DispatchWake \/ DrainDone \/ LeaseErr \/ DispatchStop
  <2>1. dpc # "send" /\ dpc' # "send" /\ UNCHANGED <<status, attempts, queue, wview, wpc>>
    BY <1>1 DEF DispatchWake, DrainDone, LeaseErr, DispatchStop, rowVars
  <2>2. \A k \in Jobs : Held(k)' <=> Held(k)
    BY <2>1 DEF Held, InDispatcher, InQueue, AtWorker
  <2> QED
    BY <2>1, <2>2, QueueStutters
<1>2. CASE Send
  <2>1. /\ dpc = "send" /\ dpc' = "drain" /\ queue' = Append(queue, dview)
        /\ UNCHANGED <<status, attempts, wview, wpc>>
    BY <1>2 DEF Send, rowVars
  <2>2. /\ Len(queue') = Len(queue) + 1
        /\ \A i \in 1..Len(queue) : queue'[i] = queue[i]
        /\ queue'[Len(queue) + 1] = dview
        /\ \A i \in 1..Len(queue') : i \in 1..Len(queue) \/ i = Len(queue) + 1
        /\ \A i \in 1..Len(queue) : i \in 1..Len(queue')
        /\ Len(queue) + 1 \in 1..Len(queue')
    BY <1>0, <2>1
  <2>3. \A k \in Jobs : Held(k)' <=> Held(k)
    BY <2>1, <2>2 DEF Held, InDispatcher, InQueue, AtWorker
  <2> QED
    BY <2>1, <2>3, QueueStutters
<1>3. CASE SendCancelled
  <2>1. /\ dpc = "send" /\ dpc' = "select" /\ UNCHANGED <<status, attempts, queue, wview, wpc>>
    BY <1>3 DEF SendCancelled, rowVars
  <2>a. PICK j \in Jobs : j = dview.id
    BY <2>1 DEF IInv, ViewsNameRows
  <2>2. j \in Jobs /\ status[j] = "running"
    BY <2>1, <2>a DEF IInv, HeldRowsRun, InDispatcher
  <2>3. Held(j) /\ ~Held(j)'
    BY <2>1, <2>a DEF IInv, LeaseExclusive, Held, InDispatcher, InQueue, AtWorker
  <2>4. \A k \in Jobs : k # j => (Held(k)' <=> Held(k))
    BY <2>1, <2>a DEF Held, InDispatcher, InQueue, AtWorker
  <2>5. \A k \in Jobs : k # j => QueueState'[k] = QueueState[k]
    BY <2>1, <2>4, OthersKeep
  <2>6. QueueState[j] = "held" /\ QueueState'[j] = "stranded"
    BY <2>1, <2>2, <2>3 DEF QueueState
  <2>7. Queue!Strand(j)
    BY <2>1, <2>2, <2>5, <2>6, QueueMoves DEF Queue!Strand
  <2> QED
    BY <2>2, <2>7 DEF Queue!Next
<1>4. ASSUME NEW j \in Jobs, LeaseOne(j) PROVE [Queue!Next]_(Queue!vars)
  <2>1. /\ dpc = "drain" /\ dpc' = "send" /\ dview' = View(j) /\ status[j] = "pending"
        /\ status' = [status EXCEPT ![j] = "running"] /\ UNCHANGED <<attempts, queue, wview, wpc>>
    BY <1>4 DEF LeaseOne
  <2>2. dview'.id = j
    BY <2>1 DEF View
  <2>3. Held(j)'
    BY <2>1, <2>2 DEF Held, InDispatcher
  <2>4. \A k \in Jobs : k # j => (Held(k)' <=> Held(k))
    BY <2>1, <2>2 DEF Held, InDispatcher, InQueue, AtWorker
  <2>5. \A k \in Jobs : k # j => status'[k] = status[k]
    BY <1>0, <2>1
  <2>6. \A k \in Jobs : k # j => QueueState'[k] = QueueState[k]
    BY <2>4, <2>5, OthersKeep
  <2>7. QueueState[j] = "pending" /\ QueueState'[j] = "held"
    BY <1>0, <2>1, <2>3 DEF QueueState
  <2>8. Queue!Take(j)
    BY <2>1, <2>6, <2>7, QueueMoves DEF Queue!Take
  <2> QED
    BY <2>8 DEF Queue!Next
<1> QED
  BY <1>1, <1>2, <1>3, <1>4 DEF Dispatcher

\* A view that moves to a worker stays held.
LEMMA RecvQueue == ASSUME IInv, NEW w \in Workers, Recv(w) PROVE UNCHANGED Queue!vars
<1>0. /\ queue \in Seq(Views) /\ queue # <<>> /\ Len(queue) \in Nat
      /\ wview \in [Workers -> Views] /\ wpc \in [Workers -> {"idle", "handling", "returned"}]
  BY DEF IInv, TypeOK, PoolTypes, Recv
<1>1. /\ wview' = [wview EXCEPT ![w] = Head(queue)] /\ wpc' = [wpc EXCEPT ![w] = "handling"]
      /\ queue' = Tail(queue) /\ wpc[w] = "idle"
      /\ UNCHANGED <<status, attempts, dpc, dview>>
  BY DEF Recv
<1>2. /\ Len(queue') = Len(queue) - 1 /\ Head(queue) = queue[1] /\ 1 \in 1..Len(queue)
      /\ \A i \in 1..Len(queue') : queue'[i] = queue[i + 1] /\ i + 1 \in 1..Len(queue)
      /\ \A i \in 1..Len(queue) : i # 1 => i - 1 \in 1..Len(queue') /\ queue[i] = queue'[i - 1]
  BY <1>0, <1>1
<1>3. ASSUME NEW k \in Jobs PROVE Held(k)' => Held(k)
  BY <1>0, <1>1, <1>2 DEF Held, InDispatcher, InQueue, AtWorker
<1>4. ASSUME NEW k \in Jobs, NEW i \in 1..Len(queue), InQueue(k, i) PROVE Held(k)'
  <2>1. CASE i = 1
    <3>1. AtWorker(k, w)'
      BY <1>0, <1>1, <1>2, <1>4, <2>1 DEF InQueue, AtWorker
    <3> QED
      BY <3>1 DEF Held
  <2>2. CASE i # 1
    <3>1. i - 1 \in 1..Len(queue') /\ InQueue(k, i - 1)'
      BY <1>2, <1>4, <2>2 DEF InQueue
    <3> QED
      BY <3>1 DEF Held
  <2> QED
    BY <2>1, <2>2
<1>5. ASSUME NEW k \in Jobs, NEW x \in Workers, AtWorker(k, x) PROVE Held(k)'
  <2>1. x # w /\ AtWorker(k, x)'
    BY <1>0, <1>1, <1>5 DEF AtWorker
  <2> QED
    BY <2>1 DEF Held
<1>6. ASSUME NEW k \in Jobs, Held(k) PROVE Held(k)'
  <2>1. CASE InDispatcher(k)
    BY <2>1, <1>1 DEF Held, InDispatcher
  <2> QED
    BY <2>1, <1>4, <1>5, <1>6 DEF Held
<1> QED
  BY <1>1, <1>3, <1>6, QueueStutters

\* The scan handler's own terminal write finishes its row.
LEMMA ScanQueue ==
    ASSUME IInv, NEW w \in Workers, ScanCommit(w) \/ ScanPermFail(w)
    PROVE  [Queue!Next]_(Queue!vars)
<1> DEFINE j == wview[w].id
<1>0. /\ status \in [Jobs -> {"none", "pending", "running", "done", "failed"}]
      /\ wpc \in [Workers -> {"idle", "handling", "returned"}]
  BY DEF IInv, TypeOK, RowTypes, PoolTypes
<1>1. /\ wpc[w] = "handling" /\ wpc' = [wpc EXCEPT ![w] = "returned"]
      /\ UNCHANGED <<attempts, dpc, dview, queue, wview>>
      /\ status' \in {status, [status EXCEPT ![j] = "done"], [status EXCEPT ![j] = "failed"]}
  BY DEF ScanCommit, ScanPermFail, Handling
<1>2. j \in Jobs /\ status[j] = "running" /\ Held(j)
  BY <1>1 DEF IInv, ViewsNameRows, HeldRowsRun, Held, AtWorker
<1>3. \A k \in Jobs : Held(k)' <=> Held(k)
  BY <1>0, <1>1 DEF Held, InDispatcher, InQueue, AtWorker
<1>4. QueueState[j] = "held"
  BY <1>2 DEF QueueState
<1>5. CASE status' = status
  BY <1>1, <1>3, <1>5, QueueStutters
<1>6. ASSUME NEW to \in {"done", "failed"}, status' = [status EXCEPT ![j] = to]
      PROVE  Queue!Next
  <2>1. \A k \in Jobs : k # j => status'[k] = status[k]
    BY <1>0, <1>6
  <2>2. \A k \in Jobs : k # j => QueueState'[k] = QueueState[k]
    BY <1>3, <2>1, OthersKeep
  <2>3. QueueState'[j] = to
    BY <1>0, <1>2, <1>6 DEF QueueState
  <2>4. Queue!Move(j, "held", to)
    BY <1>2, <1>4, <2>2, <2>3, QueueMoves
  <2> QED
    BY <1>1, <1>2, <2>4 DEF Queue!Next, Queue!Finish
<1> QED
  BY <1>1, <1>5, <1>6

\* An outcome write finishes, retries or strands the row of its worker.
LEMMA HandlerQueue ==
    ASSUME IInv, NEW w \in Workers,
           HandlerOk(w) \/ HandlerPartial(w) \/ HandlerOverLimit(w) \/ HandlerError(w)
    PROVE  [Queue!Next]_(Queue!vars)
<1>0. /\ status \in [Jobs -> {"none", "pending", "running", "done", "failed"}]
      /\ attempts \in [Jobs -> Nat]
      /\ wpc \in [Workers -> {"idle", "handling", "returned"}] /\ wview \in [Workers -> Views]
  BY DEF IInv, TypeOK, RowTypes, PoolTypes
<1>a. wview[w].id \in Jobs
  BY HandlerIsOutcome
<1>b. PICK j \in Jobs : j = wview[w].id
  BY <1>a
<1>1. /\ wpc[w] # "idle" /\ j \in Jobs /\ Outcome(j)
      /\ wview' = [wview EXCEPT ![w] = NoView] /\ wpc' = [wpc EXCEPT ![w] = "idle"]
      /\ UNCHANGED <<dpc, dview, queue>>
  BY <1>b, HandlerIsOutcome DEF Release
<1>2. Held(j) /\ ~Held(j)'
  BY <1>0, <1>1, <1>b DEF IInv, LeaseExclusive, Held, InDispatcher, InQueue, AtWorker
<1>3. \A k \in Jobs : k # j => (Held(k)' <=> Held(k))
  BY <1>0, <1>1, <1>b DEF Held, InDispatcher, InQueue, AtWorker
<1>4. \A k \in Jobs : k # j => status'[k] = status[k]
  BY <1>0, <1>1 DEF Outcome
<1>5. \A k \in Jobs : k # j => QueueState'[k] = QueueState[k]
  BY <1>3, <1>4, OthersKeep
<1>6. status[j] = "running" => QueueState[j] = "held"
  BY <1>1, <1>2 DEF QueueState
<1>7. CASE UNCHANGED <<status, attempts>> /\ status[j] # "running"
  BY <1>3, <1>7, QueueStutters
<1>8. CASE UNCHANGED <<status, attempts>> /\ status[j] = "running"
  <2>1. QueueState'[j] = "stranded"
    BY <1>1, <1>2, <1>8 DEF QueueState
  <2>2. Queue!Move(j, "held", "stranded")
    BY <1>1, <1>5, <1>6, <1>8, <2>1, QueueMoves
  <2> QED
    BY <1>1, <1>8, <2>2 DEF Queue!Next, Queue!Strand
<1>9. CASE /\ status[j] = "running" /\ attempts[j] + 1 < MaxAttempts
           /\ status' = [status EXCEPT ![j] = "pending"]
           /\ attempts' = [attempts EXCEPT ![j] = @ + 1]
  <2>1. QueueState'[j] = "pending"
    BY <1>0, <1>1, <1>9 DEF QueueState
  <2>2. Queue!Move(j, "held", "pending")
    BY <1>1, <1>5, <1>6, <1>9, <2>1, QueueMoves
  <2> QED
    BY <1>1, <1>9, <2>2 DEF Queue!Next, Queue!Retry
<1>10. ASSUME NEW to \in {"done", "failed"}, status[j] = "running",
              status' = [status EXCEPT ![j] = to], attempts' = attempts
       PROVE  Queue!Next
  <2>1. QueueState'[j] = to
    BY <1>0, <1>1, <1>10 DEF QueueState
  <2>2. Queue!Move(j, "held", to)
    BY <1>1, <1>5, <1>6, <1>10, <2>1, QueueMoves
  <2> QED
    BY <1>1, <1>10, <2>2 DEF Queue!Next, Queue!Finish
<1> QED
  BY <1>1, <1>7, <1>8, <1>9, <1>10 DEF Outcome

\* What is held is stranded when the process ends.
LEMMA HaltQueue == ASSUME IInv, Halt PROVE Queue!Crash
<1>1. /\ dpc' = "stopped" /\ queue' = <<>> /\ Len(queue') = 0
      /\ \A w \in Workers : wpc'[w] = "idle"
      /\ UNCHANGED <<status, attempts>>
  BY DEF Halt, rowVars
<1>2. \A k \in Jobs : ~Held(k)'
  BY <1>1 DEF Held, InDispatcher, InQueue, AtWorker
<1>3. status \in [Jobs -> {"none", "pending", "running", "done", "failed"}]
  BY DEF IInv, TypeOK, RowTypes
<1>4. QueueState' = [k \in Jobs |-> IF QueueState[k] = "held" THEN "stranded" ELSE QueueState[k]]
  BY <1>1, <1>2, <1>3 DEF QueueState
<1> QED
  BY <1>1, <1>4 DEF Queue!Crash

\* The sweep of a boot gives up or hands out rows that nobody holds.
LEMMA BootQueue == ASSUME IInv, Boot PROVE Queue!Recover
<1>1. /\ dpc # "send" /\ queue = <<>> /\ \A w \in Workers : wpc[w] = "idle"
      /\ dpc' = "drain" /\ UNCHANGED <<attempts, queue, wview, wpc>>
  BY DEF IInv, DownIsEmpty, Boot
<1>2. \A k \in Jobs : ~Held(k) /\ ~Held(k)'
  BY <1>1 DEF Held, InDispatcher, InQueue, AtWorker
<1>3. \A k \in Jobs : QueueState[k] = IF status[k] = "running" THEN "stranded" ELSE status[k]
  BY <1>2 DEF QueueState
<1> DEFINE Old == {j \in Jobs : QueueState[j] = "stranded" /\ status[j] = "running" /\ stale[j]}
           S == {j \in Old : Kind[j] = "helm_sync"}
<1>4. S \in SUBSET {j \in Jobs : QueueState[j] = "stranded"}
      /\ Old \in SUBSET {j \in Jobs : QueueState[j] = "stranded"}
  OBVIOUS
<1>5. QueueState' = [j \in Jobs |-> IF j \in S THEN "failed"
                                    ELSE IF j \in Old THEN "pending" ELSE QueueState[j]]
  <2>1. ASSUME NEW j \in Jobs
        PROVE  QueueState'[j] = IF j \in S THEN "failed"
                                ELSE IF j \in Old THEN "pending" ELSE QueueState[j]
    <3>1. QueueState'[j] = IF status'[j] = "running" THEN "stranded" ELSE status'[j]
      BY <1>2 DEF QueueState
    <3>2. status'[j] = IF status[j] = "running" /\ stale[j] /\ Kind[j] = "helm_sync" THEN "failed"
                       ELSE IF status[j] = "running" /\ stale[j] THEN "pending" ELSE status[j]
      BY DEF Boot, RecoverStuckJobs
    <3> QED
      BY <1>3, <3>1, <3>2
  <2> QED
    BY <2>1 DEF QueueState
<1> QED
  BY <1>1, <1>4, <1>5 DEF Queue!Recover

\* Every step of the pool is a step of the queue or leaves it as it is.
LEMMA NextQueue == ASSUME IInv, [Next]_vars PROVE [Queue!Next]_(Queue!vars)
<1>1. CASE Dispatcher
  BY <1>1, DispatcherQueue
<1>2. ASSUME NEW w \in Workers, Worker(w) PROVE [Queue!Next]_(Queue!vars)
  BY <1>2, RecvQueue, ScanQueue, HandlerQueue DEF Worker
<1>3. ASSUME NEW j \in Jobs, Enqueue(j) PROVE [Queue!Next]_(Queue!vars)
  <2>1. /\ status[j] = "none" /\ status' = [status EXCEPT ![j] = "pending"]
        /\ UNCHANGED <<attempts, dpc, dview, queue, wview, wpc>>
        /\ status \in [Jobs -> {"none", "pending", "running", "done", "failed"}]
    BY <1>3 DEF Enqueue, poolVars, IInv, TypeOK, RowTypes
  <2>2. \A k \in Jobs : k # j => (Held(k)' <=> Held(k))
    BY <2>1 DEF Held, InDispatcher, InQueue, AtWorker
  <2>3. \A k \in Jobs : k # j => QueueState'[k] = QueueState[k]
    BY <2>1, <2>2, OthersKeep
  <2>4. QueueState[j] = "none" /\ QueueState'[j] = "pending"
    BY <2>1 DEF QueueState
  <2>5. Queue!Submit(j)
    BY <2>1, <2>3, <2>4, QueueMoves DEF Queue!Submit
  <2> QED
    BY <2>5 DEF Queue!Next
<1>4. CASE (\E j \in Jobs : BackoffElapses(j) \/ LeaseAges(j)) \/ Shutdown \/ UNCHANGED vars
  <2>1. UNCHANGED <<status, attempts, dpc, dview, queue, wview, wpc>>
    BY <1>4 DEF BackoffElapses, LeaseAges, Shutdown, vars, rowVars, poolVars
  <2>2. \A k \in Jobs : Held(k)' <=> Held(k)
    BY <2>1 DEF Held, InDispatcher, InQueue, AtWorker
  <2> QED
    BY <2>1, <2>2, QueueStutters
<1>5. CASE ShutdownDone \/ Kill \/ Boot
  BY <1>5, HaltQueue, BootQueue DEF ShutdownDone, Kill, Queue!Next
<1> QED
  BY <1>1, <1>2, <1>3, <1>4, <1>5 DEF Next

-----------------------------------------------------------------------------
(* Three facts with invariants of their own, on top of IInv.               *)

\* A helm sync that waits has not used the attempt it is charged with.
HelmInv ==
    /\ HelmRunsOncePerAttempt
    /\ \A j \in Jobs : Kind[j] = "helm_sync" /\ status[j] \in {"none", "pending"} =>
          runs[j] <= attempts[j]
    /\ dpc = "send" /\ Kind[dview.id] = "helm_sync" => runs[dview.id] <= attempts[dview.id]
    /\ \A i \in 1..Len(queue) : Kind[queue[i].id] = "helm_sync" =>
          runs[queue[i].id] <= attempts[queue[i].id]

\* Every step keeps it: only a charged retry makes a helm sync wait again.
LEMMA HelmStep ==
    ASSUME IInv, HelmInv, [Next]_vars
    PROVE  HelmInv'
<1> USE DEF HelmInv, HelmRunsOncePerAttempt
<1>0. /\ status \in [Jobs -> {"none", "pending", "running", "done", "failed"}]
      /\ attempts \in [Jobs -> 0..MaxAttempts] /\ runs \in [Jobs -> Nat]
      /\ queue \in Seq(Views) /\ ViewsNameRows
  BY DEF IInv, TypeOK, RowTypes, PoolTypes
<1>1. CASE DispatchWake \/ DrainDone \/ LeaseErr \/ SendCancelled \/ DispatchStop
  BY <1>1 DEF DispatchWake, DrainDone, LeaseErr, SendCancelled, DispatchStop, rowVars
<1>2. ASSUME NEW j \in Jobs, LeaseOne(j)
      PROVE  HelmInv'
  <2>1. /\ status[j] = "pending" /\ status' = [status EXCEPT ![j] = "running"]
        /\ dview'.id = j /\ UNCHANGED <<attempts, runs, queue>>
    BY <1>2 DEF LeaseOne, View
  <2> QED
    BY <1>0, <2>1
<1>3. CASE Send
  <2>1. /\ dpc = "send" /\ dpc' = "drain" /\ queue' = Append(queue, dview)
        /\ UNCHANGED <<status, attempts, runs>>
    BY <1>3 DEF Send, rowVars
  <2>2. dview \in Views
    BY DEF IInv, TypeOK, PoolTypes
  <2>3. \A i \in 1..Len(queue') :
           queue'[i] = dview \/ (i \in 1..Len(queue) /\ queue'[i] = queue[i])
    BY <1>0, <2>1, <2>2
  <2> QED
    BY <1>0, <2>1, <2>3
<1>4. ASSUME NEW w \in Workers, Recv(w)
      PROVE  HelmInv'
  <2>1. /\ queue # <<>> /\ queue' = Tail(queue)
        /\ runs' = [runs EXCEPT ![Head(queue).id] = @ + 1]
        /\ UNCHANGED <<status, attempts, dpc, dview>>
    BY <1>4 DEF Recv
  <2>2. Len(queue) > 0 /\ Head(queue) = queue[1] /\ Head(queue).id \in Jobs
    BY <1>0, <2>1 DEF ViewsNameRows
  <2>3. PICK h \in Jobs : h = Head(queue).id
    BY <2>2
  <2>4. /\ runs'[h] = runs[h] + 1
        /\ \A k \in Jobs : k # h => runs'[k] = runs[k]
    BY <1>0, <2>1, <2>3
  <2>5. \A i \in 1..Len(queue') : i + 1 \in 1..Len(queue) /\ queue'[i] = queue[i + 1]
    BY <1>0, <2>1, <2>2
  <2>6. /\ status[h] = "running"
        /\ dpc = "send" => dview.id # h
        /\ \A i \in 1..Len(queue') : queue'[i].id # h
    <3>1. InQueue(h, 1) /\ 1 \in 1..Len(queue)
      BY <1>0, <2>2, <2>3 DEF InQueue
    <3>2. status[h] = "running"
      BY <2>2, <2>3, <3>1 DEF IInv, HeldRowsRun
    <3>3. dpc = "send" => dview.id # h
      BY <3>1 DEF IInv, LeaseExclusive, InDispatcher
    <3>4. \A i \in 1..Len(queue) : queue[i].id = h => i = 1
      BY <3>1 DEF IInv, LeaseExclusive, InQueue
    <3>5. ASSUME NEW i \in 1..Len(queue')
          PROVE  queue'[i].id # h
      BY <1>0, <2>5, <3>4
    <3> QED
      BY <3>2, <3>3, <3>5
  <2>7. Kind[h] = "helm_sync" => runs[h] <= attempts[h]
    BY <1>0, <2>2, <2>3
  <2>8. \A j \in Jobs : Kind[j] = "helm_sync" => runs'[j] <= attempts'[j] + 1
    BY <1>0, <2>1, <2>4, <2>7
  <2>9. \A j \in Jobs : Kind[j] = "helm_sync" /\ status'[j] \in {"none", "pending"} =>
           runs'[j] <= attempts'[j]
    BY <1>0, <2>1, <2>4, <2>6
  <2>10. dpc' = "send" /\ Kind[dview'.id] = "helm_sync" => runs'[dview'.id] <= attempts'[dview'.id]
    BY <1>0, <2>1, <2>4, <2>6 DEF ViewsNameRows
  <2>11. ASSUME NEW i \in 1..Len(queue'), Kind[queue'[i].id] = "helm_sync"
         PROVE  runs'[queue'[i].id] <= attempts'[queue'[i].id]
    <3>1. queue'[i].id \in Jobs /\ runs[queue'[i].id] <= attempts[queue'[i].id]
      BY <1>0, <2>5, <2>11 DEF ViewsNameRows
    <3> QED
      BY <2>1, <2>4, <2>6, <3>1
  <2> QED
    BY <2>8, <2>9, <2>10, <2>11
<1>5. ASSUME NEW w \in Workers, ScanCommit(w) \/ ScanPermFail(w)
      PROVE  HelmInv'
  <2>1. UNCHANGED <<attempts, runs, dpc, dview, queue>>
    BY <1>5 DEF ScanCommit, ScanPermFail
  <2>2. \A k \in Jobs : status'[k] \in {status[k], "done", "failed"}
    BY <1>0, <1>5 DEF ScanCommit, ScanPermFail
  <2> QED
    BY <1>0, <2>1, <2>2
<1>6. ASSUME NEW w \in Workers,
             HandlerOk(w) \/ HandlerPartial(w) \/ HandlerOverLimit(w) \/ HandlerError(w)
      PROVE  HelmInv'
  <2>1. PICK j \in Jobs : Outcome(j) /\ UNCHANGED <<runs, dpc, dview, queue>>
    BY <1>6, HandlerIsOutcome
  <2>2. \A k \in Jobs : attempts'[k] \in Nat /\ attempts'[k] >= attempts[k]
    BY <1>0, <2>1 DEF Outcome
  <2>3. \A k \in Jobs : status'[k] \in {"none", "pending"} =>
           status[k] = status'[k] \/ attempts'[k] = attempts[k] + 1
    BY <1>0, <2>1 DEF Outcome
  <2> QED
    BY <1>0, <2>1, <2>2, <2>3 DEF ViewsNameRows
<1>7. ASSUME NEW j \in Jobs, Enqueue(j) \/ BackoffElapses(j) \/ LeaseAges(j)
      PROVE  HelmInv'
  <2>1. UNCHANGED <<attempts, runs, dpc, dview, queue>>
    BY <1>7 DEF Enqueue, BackoffElapses, LeaseAges, poolVars
  <2>2. \A k \in Jobs : status'[k] = status[k] \/ status[k] = "none"
    BY <1>0, <1>7 DEF Enqueue, BackoffElapses, LeaseAges
  <2> QED
    BY <1>0, <2>1, <2>2
<1>8. CASE Shutdown \/ UNCHANGED vars
  BY <1>8 DEF Shutdown, vars, rowVars, poolVars
<1>9. CASE ShutdownDone \/ Kill
  BY <1>9 DEF ShutdownDone, Kill, Halt, rowVars
<1>10. CASE Boot
  <2>1. UNCHANGED <<attempts, runs, dview, queue>> /\ dpc' = "drain"
    BY <1>10 DEF Boot
  <2>2. \A k \in Jobs : Kind[k] = "helm_sync" => status'[k] \in {status[k], "failed"}
    BY <1>0, <1>10 DEF Boot, RecoverStuckJobs
  <2> QED
    BY <1>0, <2>1, <2>2
<1> QED
  BY <1>1, <1>2, <1>3, <1>4, <1>5, <1>6, <1>7, <1>8, <1>9, <1>10 DEF Next, Dispatcher, Worker

\* A scan handler that has returned without its row written was cancelled.
ScanRowsInv ==
    /\ ScanDoneHasSummary
    /\ \A w \in Workers :
          wpc[w] = "returned" /\ status[wview[w].id] = "running" => cancelled

\* Every step keeps it, as long as no write of a live process fails.
LEMMA ScanRowsStep ==
    ASSUME MaxDbErrors = 0, IInv, ScanRowsInv, [Next]_vars
    PROVE  ScanRowsInv'
<1> USE DEF ScanRowsInv, ScanDoneHasSummary
<1>0. /\ status \in [Jobs -> {"none", "pending", "running", "done", "failed"}]
      /\ wpc \in [Workers -> {"idle", "handling", "returned"}]
      /\ wview \in [Workers -> Views] /\ summary \in [Jobs -> BOOLEAN] /\ ViewsNameRows
      /\ dbErrors = 0
  BY DEF IInv, TypeOK, RowTypes, FlagTypes, ProcTypes, PoolTypes
<1>1. CASE DispatchWake \/ DrainDone \/ LeaseErr \/ Send \/ SendCancelled \/ DispatchStop
  BY <1>1 DEF DispatchWake, DrainDone, LeaseErr, Send, SendCancelled, DispatchStop, rowVars,
              procVars
<1>2. ASSUME NEW j \in Jobs, LeaseOne(j)
      PROVE  ScanRowsInv'
  <2>1. /\ status[j] = "pending" /\ status' = [status EXCEPT ![j] = "running"]
        /\ UNCHANGED <<summary, wview, wpc, cancelled>>
    BY <1>2 DEF LeaseOne, procVars
  <2>2. \A w \in Workers : wpc[w] = "returned" => status[wview[w].id] # "pending"
    BY DEF IInv, ReturnedRows
  <2> QED
    BY <1>0, <2>1, <2>2 DEF ViewsNameRows
<1>3. ASSUME NEW w \in Workers, Recv(w)
      PROVE  ScanRowsInv'
  <2>1. /\ UNCHANGED <<status, summary, cancelled>>
        /\ wpc' = [wpc EXCEPT ![w] = "handling"] /\ wview' = [wview EXCEPT ![w] = Head(queue)]
    BY <1>3 DEF Recv, procVars
  <2> QED
    BY <1>0, <2>1
<1>4. ASSUME NEW w \in Workers, ScanCommit(w) \/ ScanPermFail(w)
      PROVE  ScanRowsInv'
  <2>0. PICK j \in Jobs : j = wview[w].id
    BY <1>0, <1>4 DEF ScanCommit, ScanPermFail, Handling, ViewsNameRows
  <2>1. wpc[w] = "handling" /\ wpc' = [wpc EXCEPT ![w] = "returned"]
        /\ UNCHANGED <<wview, cancelled>>
    BY <1>4 DEF ScanCommit, ScanPermFail, Handling
  <2>2. \A x \in Workers : x # w /\ wpc[x] = "returned" => wview[x].id # j
    BY <1>0, <2>0, <2>1 DEF IInv, LeaseExclusive, AtWorker
  <2>3. \/ /\ status' = [status EXCEPT ![j] = "done"] /\ summary' = [summary EXCEPT ![j] = TRUE]
        \/ /\ status' = [status EXCEPT ![j] = "failed"] /\ UNCHANGED summary
        \/ UNCHANGED <<status, summary>> /\ cancelled
    BY <1>0, <1>4, <2>0 DEF ScanCommit, ScanPermFail, TxFails
  <2>4. ScanDoneHasSummary'
    BY <1>0, <2>3
  <2>5. \A x \in Workers : wpc'[x] = "returned" /\ status'[wview'[x].id] = "running" => cancelled'
    BY <1>0, <2>0, <2>1, <2>2, <2>3 DEF ViewsNameRows
  <2> QED
    BY <2>4, <2>5
<1>5. ASSUME NEW w \in Workers,
             HandlerOk(w) \/ HandlerPartial(w) \/ HandlerOverLimit(w) \/ HandlerError(w)
      PROVE  ScanRowsInv'
  <2>0. PICK j \in Jobs : j = wview[w].id /\ wpc[w] # "idle" /\ Outcome(j)
    BY <1>5, HandlerIsOutcome
  <2>1. Release(w) /\ UNCHANGED <<summary, cancelled>>
    BY <1>5, HandlerIsOutcome
  <2>2. \A x \in Workers : wpc'[x] = "returned" =>
           x # w /\ wpc[x] = "returned" /\ wview'[x] = wview[x]
    BY <1>0, <2>1 DEF Release
  <2>3. \A k \in Jobs : k # j => status'[k] = status[k]
    BY <1>0, <2>0 DEF Outcome
  <2>4. \A x \in Workers : wpc'[x] = "returned" => wview[x].id # j
    BY <2>0, <2>2 DEF IInv, LeaseExclusive, AtWorker
  <2>5. Kind[j] = "scan" /\ status'[j] = "done" => status[j] = "done"
    <3>1. CASE HandlerOk(w)
      <4>1. CASE status' = status
        BY <4>1
      <4>2. CASE TxCommits /\ MarkDone(j)
        <5>1. Kind[j] = "scan" => wpc[w] = "returned" /\ ~cancelled
          BY <2>0, <3>1, <4>2 DEF HandlerOk, TxCommits
        <5>2. Kind[j] = "scan" => status[j] # "running"
          BY <2>0, <5>1
        <5> QED
          BY <4>2, <5>2 DEF MarkDone
      <4> QED
        BY <2>0, <3>1, <4>1, <4>2 DEF HandlerOk
    <3>2. CASE HandlerPartial(w) \/ HandlerOverLimit(w) \/ HandlerError(w)
      BY <1>0, <2>0, <3>2 DEF HandlerPartial, HandlerOverLimit, HandlerError, RetryLadder
    <3> QED
      BY <1>5, <3>1, <3>2
  <2>6. ScanDoneHasSummary'
    BY <2>1, <2>3, <2>5
  <2>7. \A x \in Workers : wpc'[x] = "returned" /\ status'[wview'[x].id] = "running" => cancelled'
    <3> SUFFICES ASSUME NEW x \in Workers, wpc'[x] = "returned",
                        status'[wview'[x].id] = "running"
                 PROVE  cancelled'
      OBVIOUS
    <3>1. wpc[x] = "returned" /\ wview'[x] = wview[x] /\ wview[x].id \in Jobs /\ wview[x].id # j
      BY <1>0, <2>2, <2>4 DEF ViewsNameRows
    <3>2. status[wview[x].id] = "running"
      BY <2>3, <3>1
    <3> QED
      BY <2>1, <3>1, <3>2
  <2> QED
    BY <2>6, <2>7
<1>6. ASSUME NEW j \in Jobs, Enqueue(j) \/ BackoffElapses(j) \/ LeaseAges(j)
      PROVE  ScanRowsInv'
  <2>1. UNCHANGED <<summary, wview, wpc, cancelled>>
    BY <1>6 DEF Enqueue, BackoffElapses, LeaseAges, poolVars, procVars
  <2>2. \A k \in Jobs : status'[k] \in {status[k], "pending"}
    BY <1>0, <1>6 DEF Enqueue, BackoffElapses, LeaseAges
  <2> QED
    BY <1>0, <2>1, <2>2 DEF ViewsNameRows
<1>7. CASE Shutdown
  <2>1. UNCHANGED <<status, summary, wview, wpc>> /\ cancelled' = TRUE
    BY <1>7 DEF Shutdown, rowVars, poolVars
  <2> QED
    BY <2>1
<1>8. CASE ShutdownDone \/ Kill
  <2>1. UNCHANGED <<status, summary>> /\ wpc' = [w \in Workers |-> "idle"]
    BY <1>8 DEF ShutdownDone, Kill, Halt, rowVars
  <2> QED
    BY <2>1
<1>9. CASE Boot
  <2>1. UNCHANGED <<summary, wpc>> /\ \A w \in Workers : wpc[w] = "idle"
    BY <1>9 DEF Boot, IInv, DownIsEmpty
  <2>2. \A k \in Jobs : status'[k] = "done" => status[k] = "done"
    BY <1>0, <1>9 DEF Boot, RecoverStuckJobs
  <2> QED
    BY <2>1, <2>2
<1>10. CASE UNCHANGED vars
  BY <1>10 DEF vars, rowVars, poolVars, procVars
<1> QED
  BY <1>1, <1>2, <1>3, <1>4, <1>5, <1>6, <1>7, <1>8, <1>9, <1>10 DEF Next, Dispatcher, Worker

\* Every step keeps leases to their boot, if a restart outlasts the threshold.
LEMMA LeaseBootStep ==
    ASSUME SlowRestart, IInv, NoRowLeftFromEarlierBoot, [Next]_vars
    PROVE  NoRowLeftFromEarlierBoot'
<1> USE DEF NoRowLeftFromEarlierBoot
<1>0. /\ status \in [Jobs -> {"none", "pending", "running", "done", "failed"}]
      /\ leaseBoot \in [Jobs -> 0..MaxBoots]
  BY DEF IInv, TypeOK, RowTypes
<1>1. ASSUME UNCHANGED <<leaseBoot, phase, boot>>,
             \A k \in Jobs : status'[k] = "running" => status[k] = "running"
      PROVE  NoRowLeftFromEarlierBoot'
  BY <1>1
<1>2. CASE DispatchWake \/ DrainDone \/ LeaseErr \/ Send \/ SendCancelled \/ DispatchStop
           \/ Shutdown \/ UNCHANGED vars
  BY <1>1, <1>2 DEF DispatchWake, DrainDone, LeaseErr, Send, SendCancelled, DispatchStop,
                    Shutdown, vars, rowVars, procVars
<1>3. ASSUME NEW j \in Jobs, LeaseOne(j)
      PROVE  NoRowLeftFromEarlierBoot'
  BY <1>0, <1>3 DEF LeaseOne, procVars
<1>4. ASSUME NEW w \in Workers, Recv(w) \/ ScanCommit(w) \/ ScanPermFail(w)
      PROVE  NoRowLeftFromEarlierBoot'
  <2>1. \A k \in Jobs : status'[k] = "running" => status[k] = "running"
    BY <1>0, <1>4 DEF Recv, ScanCommit, ScanPermFail
  <2> QED
    BY <1>1, <1>4, <2>1 DEF Recv, ScanCommit, ScanPermFail, procVars
<1>5. ASSUME NEW w \in Workers,
             HandlerOk(w) \/ HandlerPartial(w) \/ HandlerOverLimit(w) \/ HandlerError(w)
      PROVE  NoRowLeftFromEarlierBoot'
  <2>1. PICK j \in Jobs : Outcome(j) /\ UNCHANGED <<leaseBoot, phase, boot>>
    BY <1>5, HandlerIsOutcome
  <2>2. \A k \in Jobs : status'[k] = "running" => status[k] = "running"
    BY <1>0, <2>1 DEF Outcome
  <2> QED
    BY <1>1, <2>1, <2>2
<1>6. ASSUME NEW j \in Jobs, Enqueue(j) \/ BackoffElapses(j) \/ LeaseAges(j)
      PROVE  NoRowLeftFromEarlierBoot'
  <2>1. \A k \in Jobs : status'[k] = "running" => status[k] = "running"
    BY <1>0, <1>6 DEF Enqueue, BackoffElapses, LeaseAges
  <2> QED
    BY <1>1, <1>6, <2>1 DEF Enqueue, BackoffElapses, LeaseAges, procVars
<1>7. CASE ShutdownDone \/ Kill
  BY <1>7 DEF ShutdownDone, Kill, Halt
<1>8. CASE Boot
  <2>1. \A j \in Jobs : status[j] = "running" => stale[j]
    BY <1>8 DEF Boot
  <2>2. \A j \in Jobs : status'[j] # "running"
    BY <1>0, <1>8, <2>1 DEF Boot, RecoverStuckJobs
  <2> QED
    BY <2>2
<1> QED
  BY <1>2, <1>3, <1>4, <1>5, <1>6, <1>7, <1>8 DEF Next, Dispatcher, Worker

-----------------------------------------------------------------------------
\* The inductive invariant holds in every reachable state.
THEOREM Invariance == Spec => []IInv
BY InitInv, NextInv, PTL DEF Spec

\* Rows, channel and program counters keep their types; in particular the
\* channel never exceeds its capacity and attempts never pass MaxAttempts.
THEOREM TypeCorrectness == Spec => []TypeOK
<1>1. IInv => TypeOK
  BY DEF IInv
<1> QED
  BY <1>1, Invariance, PTL

\* A leased row is in one place of the pool at a time.
THEOREM LeasesAreExclusive == Spec => []LeaseExclusive
<1>1. IInv => LeaseExclusive
  BY DEF IInv
<1> QED
  BY <1>1, Invariance, PTL

\* What the pool holds in memory is 'running' under a lease of this boot.
THEOREM HeldRowsAreLeased == Spec => []HeldRowsRun
<1>1. IInv => HeldRowsRun
  BY DEF IInv
<1> QED
  BY <1>1, Invariance, PTL

\* Executions are bounded by charged attempts plus process starts.
THEOREM RetriesAreBounded == Spec => []RetryBudget
<1>1. IInv => RetryBudget
  BY DEF IInv
<1> QED
  BY <1>1, Invariance, PTL

\* A helm sync that a dead process left behind is not run again: the helm
\* sweep comes before the generic one (boot_recovery.go:60).
THEOREM HelmIsNotRunAgain == Spec => []HelmRunsOncePerAttempt
<1>1. Init => HelmInv
  BY DEF Init, HelmInv, HelmRunsOncePerAttempt
<1>2. IInv /\ HelmInv /\ [Next]_vars => HelmInv'
  BY HelmStep
<1>3. HelmInv => HelmRunsOncePerAttempt
  BY DEF HelmInv
<1> QED
  BY <1>1, <1>2, <1>3, Invariance, PTL DEF Spec

\* A scan that is 'done' has its summary, if no write of a live process fails
\* (scan/handler.go:393 ignores such a failure).
THEOREM DoneScansHaveSummaries ==
    ASSUME MaxDbErrors = 0
    PROVE  Spec => []ScanDoneHasSummary
<1>1. Init => ScanRowsInv
  BY DEF Init, ScanRowsInv, ScanDoneHasSummary
<1>2. IInv /\ ScanRowsInv /\ [Next]_vars => ScanRowsInv'
  BY ScanRowsStep
<1>3. ScanRowsInv => ScanDoneHasSummary
  BY DEF ScanRowsInv
<1> QED
  BY <1>1, <1>2, <1>3, Invariance, PTL DEF Spec

\* No row of an earlier boot is still 'running' once the process serves, if
\* every restart outlasts StuckJobThreshold.
THEOREM EarlierBootsAreSwept ==
    ASSUME SlowRestart
    PROVE  Spec => []NoRowLeftFromEarlierBoot
<1>1. Init => NoRowLeftFromEarlierBoot
  BY DEF Init, NoRowLeftFromEarlierBoot
<1>2. IInv /\ NoRowLeftFromEarlierBoot /\ [Next]_vars => NoRowLeftFromEarlierBoot'
  BY LeaseBootStep
<1> QED
  BY <1>1, <1>2, Invariance, PTL DEF Spec

\* One sync per repository is in flight.
THEOREM SyncsAreExclusive == Spec => []OneInflightSyncPerRepo
<1>1. IInv => OneInflightSyncPerRepo
  BY DEF IInv
<1> QED
  BY <1>1, Invariance, PTL

\* A partial-sync log is only ever seen on a failed row.
THEOREM LogsAreTerminal == Spec => []LogOnlyOnFailed
<1>1. IInv => LogOnlyOnFailed
  BY DEF IInv
<1> QED
  BY <1>1, Invariance, PTL

\* Terminal rows stay terminal.
THEOREM TerminalRowsStay == Spec => TerminalStays
<1>1. IInv /\ [Next]_vars =>
        [\A j \in Jobs : status[j] \in Terminal => status'[j] = status[j]]_vars
  BY NextTerminal
<1> QED
  BY <1>1, Invariance, PTL DEF Spec, TerminalStays

\* The pool with its dispatcher, channel, workers, kills and boots implements
\* the queue of JobQueue.
THEOREM PoolImplementsQueue == Spec => ImplementsQueue
<1>1. Init => Queue!Init
  BY DEF Init, Queue!Init, QueueState
<1>2. IInv /\ [Next]_vars => [Queue!Next]_(Queue!vars)
  BY NextQueue
<1> QED
  BY <1>1, <1>2, Invariance, PTL DEF Spec, ImplementsQueue, Queue!Spec
=============================================================================
