------------------------------ MODULE JobPool ------------------------------
(***************************************************************************)
(* The DB-leased job runner of internal/jobs: rows of sync_jobs or scans,  *)
(* one dispatcher that leases due rows and hands them to a bounded channel,*)
(* worker goroutines, graceful shutdown, process kill and the sweep that   *)
(* runs at the next boot.  SQLite has one writer connection, so each       *)
(* statement or write transaction is one step.                             *)
(*                                                                         *)
(* Time is abstracted to the two comparisons the SQL makes with it:        *)
(* due[j] is next_run_at <= CURRENT_TIMESTAMP, and stale[j] is leased_at   *)
(* older than StuckJobThreshold.  A kick only shortens the wait for the    *)
(* poll tick, which can always fire.                                       *)
(***************************************************************************)
EXTENDS Naturals, Sequences, FiniteSets

CONSTANTS
    Jobs,         \* row ids that may ever be inserted
    Kind,         \* Kind[j]: sync_jobs.kind, or "scan" for a row of scans
    Repo,         \* Repo[j]: the repository the row is for
    Workers,      \* worker goroutines
    NoJob,        \* an empty hand
    MaxAttempts,  \* jobs.MaxAttempts
    MaxBoots,     \* bound: how often the process is started
    MaxDbErrors,  \* bound: failed write transactions of a live process
    SlowRestart   \* whether a restart takes longer than StuckJobThreshold

Kinds == {"helm_sync", "mirror_sync", "pull_external", "scan"}

\* The kinds POST .../sync enqueues.
SyncKinds == {"helm_sync", "mirror_sync"}

ASSUME JobsAssumption == NoJob \notin Jobs /\ IsFiniteSet(Workers) /\ Workers # {}
ASSUME KindAssumption == Kind \in [Jobs -> Kinds]

\* Each of the two pools serves one table.
ASSUME TableAssumption == \A j, k \in Jobs : Kind[j] = "scan" <=> Kind[k] = "scan"

ASSUME BoundsAssumption ==
    /\ MaxAttempts \in Nat \ {0}
    /\ MaxBoots \in Nat \ {0}
    /\ MaxDbErrors \in Nat
    /\ SlowRestart \in BOOLEAN

VARIABLES
    status,     \* status[j]: "none" (no row) or the status column
    attempts,   \* attempts[j]
    due,        \* due[j]: next_run_at has passed
    stale,      \* stale[j]: leased_at is older than StuckJobThreshold
    log,        \* log[j]: the partial-sync log column
    summary,    \* summary[j]: severity_summary_json is populated (scans)
    leaseBoot,  \* history: the boot whose dispatcher leased the row
    runs,       \* history: how often a handler was started for the row
    phase,      \* "down" or "up"
    boot,       \* history: number of process starts
    cancelled,  \* the pool's context
    dpc,        \* dispatcher: "select", "drain", "send" or "stopped"
    dview,      \* the JobView the dispatcher is sending
    queue,      \* the buffered channel of leased JobViews
    wview,      \* wview[w]: the JobView worker w handles
    wpc,        \* wpc[w]: "idle", "handling" or "returned" (scan wrote its row)
    dbErrors    \* write transactions that failed so far

rowVars == <<status, attempts, due, stale, log, summary, leaseBoot, runs>>
poolVars == <<dpc, dview, queue, wview, wpc>>
procVars == <<phase, boot, cancelled, dbErrors>>
vars == <<rowVars, poolVars, procVars>>

\* A JobView carries the attempts column as it was when the row was leased.
View(j) == [id |-> j, attempts |-> attempts[j]]
NoView == [id |-> NoJob, attempts |-> 0]
Views == [id : Jobs \cup {NoJob}, attempts : 0..MaxAttempts]

\* newPool makes the channel with one slot per worker.
QueueCap == Cardinality(Workers)

Inflight == {"pending", "running"}
Terminal == {"done", "failed"}

Init ==
    /\ status = [j \in Jobs |-> "none"]
    /\ attempts = [j \in Jobs |-> 0]
    /\ due = [j \in Jobs |-> FALSE]
    /\ stale = [j \in Jobs |-> FALSE]
    /\ log = [j \in Jobs |-> "none"]
    /\ summary = [j \in Jobs |-> FALSE]
    /\ leaseBoot = [j \in Jobs |-> 0]
    /\ runs = [j \in Jobs |-> 0]
    /\ phase = "up"
    /\ boot = 1
    /\ cancelled = FALSE
    /\ dpc = "drain"
    /\ dview = NoView
    /\ queue = <<>>
    /\ wview = [w \in Workers |-> NoView]
    /\ wpc = [w \in Workers |-> "idle"]
    /\ dbErrors = 0

-----------------------------------------------------------------------------
(* Enqueue.  POST .../sync refuses a repository with a row in flight, in   *)
(* the transaction that inserts; the other producers insert unconditionally.*)

\* Mutant: a pending row is not counted as in flight.
InflightForRunningOnly(j) ==
    \E k \in Jobs : Kind[k] # "scan" /\ Repo[k] = Repo[j] /\ status[k] = "running"

InflightFor(j) ==
    \E k \in Jobs : Kind[k] # "scan" /\ Repo[k] = Repo[j] /\ status[k] \in Inflight

Enqueue(j) ==
    /\ phase = "up"
    /\ status[j] = "none"
    /\ Kind[j] \in SyncKinds => ~InflightFor(j)
    /\ status' = [status EXCEPT ![j] = "pending"]
    /\ due' = [due EXCEPT ![j] = TRUE]
    /\ UNCHANGED <<attempts, stale, log, summary, leaseBoot, runs, poolVars, procVars>>

-----------------------------------------------------------------------------
(* The dispatcher goroutine.                                               *)

DispatchWake ==
    /\ phase = "up"
    /\ dpc = "select"
    /\ dpc' = "drain"
    /\ UNCHANGED <<rowVars, dview, queue, wview, wpc, procVars>>

\* Mutant: the lease statement does not exclude leased rows.
LeaseOneRunning(j) ==
    /\ phase = "up" /\ dpc = "drain" /\ ~cancelled
    /\ status[j] \in Inflight /\ due[j]
    /\ status' = [status EXCEPT ![j] = "running"]
    /\ stale' = [stale EXCEPT ![j] = FALSE]
    /\ leaseBoot' = [leaseBoot EXCEPT ![j] = boot]
    /\ dview' = View(j)
    /\ dpc' = "send"
    /\ UNCHANGED <<attempts, due, log, summary, runs, queue, wview, wpc, procVars>>

LeaseOne(j) ==
    /\ phase = "up" /\ dpc = "drain" /\ ~cancelled
    /\ status[j] = "pending" /\ due[j]
    /\ status' = [status EXCEPT ![j] = "running"]
    /\ stale' = [stale EXCEPT ![j] = FALSE]
    /\ leaseBoot' = [leaseBoot EXCEPT ![j] = boot]
    /\ dview' = View(j)
    /\ dpc' = "send"
    /\ UNCHANGED <<attempts, due, log, summary, runs, queue, wview, wpc, procVars>>

\* Nothing is due, or the context is cancelled.
DrainDone ==
    /\ phase = "up" /\ dpc = "drain"
    /\ cancelled \/ \A j \in Jobs : ~(status[j] = "pending" /\ due[j])
    /\ dpc' = "select"
    /\ UNCHANGED <<rowVars, dview, queue, wview, wpc, procVars>>

\* The lease statement failed: the drain ends, the next tick tries again.
LeaseErr ==
    /\ phase = "up" /\ dpc = "drain" /\ ~cancelled
    /\ dbErrors < MaxDbErrors
    /\ dbErrors' = dbErrors + 1
    /\ dpc' = "select"
    /\ UNCHANGED <<rowVars, dview, queue, wview, wpc, phase, boot, cancelled>>

Send ==
    /\ phase = "up" /\ dpc = "send"
    /\ Len(queue) < QueueCap
    /\ queue' = Append(queue, dview)
    /\ dview' = NoView
    /\ dpc' = "drain"
    /\ UNCHANGED <<rowVars, wview, wpc, procVars>>

\* The select took ctx.Done(): the leased row is dropped and stays 'running'.
SendCancelled ==
    /\ phase = "up" /\ dpc = "send" /\ cancelled
    /\ dview' = NoView
    /\ dpc' = "select"
    /\ UNCHANGED <<rowVars, queue, wview, wpc, procVars>>

\* The dispatcher closes the channel; workers go on draining its buffer.
DispatchStop ==
    /\ phase = "up" /\ dpc = "select" /\ cancelled
    /\ dpc' = "stopped"
    /\ UNCHANGED <<rowVars, dview, queue, wview, wpc, procVars>>

-----------------------------------------------------------------------------
(* The worker goroutines.                                                  *)

Recv(w) ==
    /\ phase = "up" /\ wpc[w] = "idle" /\ queue # <<>>
    /\ wview' = [wview EXCEPT ![w] = Head(queue)]
    /\ wpc' = [wpc EXCEPT ![w] = "handling"]
    /\ queue' = Tail(queue)
    /\ runs' = [runs EXCEPT ![Head(queue).id] = @ + 1]
    /\ UNCHANGED <<status, attempts, due, stale, log, summary, leaseBoot,
                   dpc, dview, procVars>>

Release(w) ==
    /\ wview' = [wview EXCEPT ![w] = NoView]
    /\ wpc' = [wpc EXCEPT ![w] = "idle"]

Handling(w, pc) == phase = "up" /\ wpc[w] = pc

\* A write transaction on the pool's context that does not commit: BeginTx
\* refuses a cancelled context, and a live database may fail.
TxFails ==
    \/ cancelled /\ dbErrors' = dbErrors
    \/ ~cancelled /\ dbErrors < MaxDbErrors /\ dbErrors' = dbErrors + 1

TxCommits == ~cancelled /\ dbErrors' = dbErrors

\* context.Background() replaces a cancelled context for terminal writes.
TerminalTxFails == dbErrors < MaxDbErrors /\ dbErrors' = dbErrors + 1

\* The scan handler's own transaction: scans.MarkDone with the summary, and
\* the vulnerabilities.  A transaction that fails is HandlerError.
ScanCommit(w) ==
    /\ Handling(w, "handling") /\ Kind[wview[w].id] = "scan"
    /\ TxCommits
    /\ status' = [status EXCEPT ![wview[w].id] = "done"]
    /\ summary' = [summary EXCEPT ![wview[w].id] = TRUE]
    /\ wpc' = [wpc EXCEPT ![w] = "returned"]
    /\ UNCHANGED <<attempts, due, stale, log, leaseBoot, runs, dpc, dview, queue,
                   wview, phase, boot, cancelled>>

\* permFailScan: the terminal write may fail; nil is returned either way.
ScanPermFail(w) ==
    /\ Handling(w, "handling") /\ Kind[wview[w].id] = "scan"
    /\ \/ TxCommits /\ status' = [status EXCEPT ![wview[w].id] = "failed"]
       \/ TxFails /\ status' = status
    /\ wpc' = [wpc EXCEPT ![w] = "returned"]
    /\ UNCHANGED <<attempts, due, stale, log, summary, leaseBoot, runs, dpc, dview,
                   queue, wview, phase, boot, cancelled>>

\* Mutant: the scans adapter overwrites the row its handler terminated.
MarkDoneUnguarded(j) == status' = [status EXCEPT ![j] = "done"]

\* MarkDone of the two adapters: the one for scans only touches a row that
\* is still 'running'.
MarkDone(j) ==
    status' = IF Kind[j] = "scan" /\ status[j] # "running"
              THEN status
              ELSE [status EXCEPT ![j] = "done"]

\* The handler returned nil.
HandlerOk(w) ==
    /\ phase = "up" /\ wpc[w] \in {"handling", "returned"}
    /\ Kind[wview[w].id] = "scan" => wpc[w] = "returned"
    /\ \/ TxCommits /\ MarkDone(wview[w].id)
       \/ TxFails /\ status' = status
    /\ Release(w)
    /\ UNCHANGED <<attempts, due, stale, log, summary, leaseBoot, runs, dpc, dview,
                   queue, phase, boot, cancelled>>

\* The handler returned a PartialSyncError: status and log in one UPDATE.
HandlerPartial(w) ==
    /\ Handling(w, "handling") /\ Kind[wview[w].id] = "helm_sync"
    /\ \/ /\ dbErrors' = dbErrors
          /\ status' = [status EXCEPT ![wview[w].id] = "failed"]
          /\ log' = [log EXCEPT ![wview[w].id] = "counts"]
       \/ TerminalTxFails /\ status' = status /\ log' = log
    /\ Release(w)
    /\ UNCHANGED <<attempts, due, stale, summary, leaseBoot, runs, dpc, dview, queue,
                   phase, boot, cancelled>>

\* The handler met an artifact or a metadata file over the configured limit.
HandlerOverLimit(w) ==
    /\ Handling(w, "handling") /\ Kind[wview[w].id] # "scan"
    /\ \/ dbErrors' = dbErrors /\ status' = [status EXCEPT ![wview[w].id] = "failed"]
       \/ TerminalTxFails /\ status' = status
    /\ Release(w)
    /\ UNCHANGED <<attempts, due, stale, log, summary, leaseBoot, runs, dpc, dview,
                   queue, phase, boot, cancelled>>

\* Mutant: the retry is charged and scheduled, and the row keeps its lease.
RetryLadderKeepsLease(v) ==
    /\ status' = [status EXCEPT ![v.id] =
                    IF v.attempts + 1 >= MaxAttempts THEN "failed" ELSE "running"]
    /\ attempts' = [attempts EXCEPT ![v.id] =
                      IF v.attempts + 1 >= MaxAttempts THEN @ ELSE @ + 1]
    /\ due' = [due EXCEPT ![v.id] = FALSE]

\* The tail of markFailed: the retry ladder, decided on the view's attempts.
RetryLadder(v) ==
    IF v.attempts + 1 >= MaxAttempts
    THEN /\ status' = [status EXCEPT ![v.id] = "failed"]
         /\ UNCHANGED <<attempts, due>>
    ELSE /\ status' = [status EXCEPT ![v.id] = "pending"]
         /\ attempts' = [attempts EXCEPT ![v.id] = @ + 1]
         /\ due' = [due EXCEPT ![v.id] = FALSE]

\* Any other error, a missing handler and a recovered panic.
HandlerError(w) ==
    /\ Handling(w, "handling")
    /\ \/ TxCommits /\ RetryLadder(wview[w])
       \/ TxFails /\ UNCHANGED <<status, attempts, due>>
    /\ Release(w)
    /\ UNCHANGED <<stale, log, summary, leaseBoot, runs, dpc, dview, queue,
                   phase, boot, cancelled>>

-----------------------------------------------------------------------------
(* The process: shutdown, kill, and the sweep of the next boot.            *)

Shutdown ==
    /\ phase = "up" /\ ~cancelled /\ boot < MaxBoots
    /\ cancelled' = TRUE
    /\ UNCHANGED <<rowVars, poolVars, phase, boot, dbErrors>>

\* What is in memory is gone.
Halt ==
    /\ phase' = "down"
    /\ dpc' = "stopped"
    /\ dview' = NoView
    /\ queue' = <<>>
    /\ wview' = [w \in Workers |-> NoView]
    /\ wpc' = [w \in Workers |-> "idle"]
    /\ UNCHANGED <<rowVars, boot, cancelled, dbErrors>>

\* Shutdown waited for the dispatcher and for every worker.
ShutdownDone ==
    /\ phase = "up" /\ cancelled
    /\ dpc = "stopped" /\ queue = <<>> /\ \A w \in Workers : wpc[w] = "idle"
    /\ Halt

\* A kill, or the grace period ran out with handlers still running.
Kill == phase = "up" /\ boot < MaxBoots /\ Halt

\* Mutant: the generic sweep runs before the helm sweep.
RecoverGenericFirst ==
    /\ status' = [j \in Jobs |-> IF status[j] = "running" /\ stale[j]
                                 THEN "pending" ELSE status[j]]
    /\ log' = log

\* Mutant: the sweeps look at leased_at only, which terminal rows keep.
RecoverByLeaseOnly ==
    /\ status' = [j \in Jobs |-> IF stale[j] THEN "pending" ELSE status[j]]
    /\ log' = log

\* Mutant: the table of scans is not swept.
RecoverSkipsScans ==
    LET old(j) == status[j] = "running" /\ stale[j] /\ Kind[j] # "scan"
    IN  /\ status' = [j \in Jobs |-> IF old(j) THEN "pending" ELSE status[j]]
        /\ log' = log

\* RecoverStuckJobs: helm_sync rows first, then every other stale row.
RecoverStuckJobs ==
    LET old(j) == status[j] = "running" /\ stale[j]
        helm(j) == old(j) /\ Kind[j] = "helm_sync"
    IN  /\ status' = [j \in Jobs |-> IF helm(j) THEN "failed"
                                     ELSE IF old(j) THEN "pending" ELSE status[j]]
        /\ log' = [j \in Jobs |-> IF helm(j) THEN "null" ELSE log[j]]

Boot ==
    /\ phase = "down" /\ boot < MaxBoots
    /\ SlowRestart => \A j \in Jobs : status[j] = "running" => stale[j]
    /\ RecoverStuckJobs
    /\ phase' = "up"
    /\ boot' = boot + 1
    /\ cancelled' = FALSE
    /\ dpc' = "drain"
    /\ UNCHANGED <<attempts, due, stale, summary, leaseBoot, runs,
                   dview, queue, wview, wpc, dbErrors>>

\* The passage of time, up or down.
BackoffElapses(j) ==
    /\ status[j] = "pending" /\ ~due[j]
    /\ due' = [due EXCEPT ![j] = TRUE]
    /\ UNCHANGED <<status, attempts, stale, log, summary, leaseBoot, runs, poolVars, procVars>>

LeaseAges(j) ==
    /\ status[j] = "running" /\ ~stale[j]
    /\ stale' = [stale EXCEPT ![j] = TRUE]
    /\ UNCHANGED <<status, attempts, due, log, summary, leaseBoot, runs, poolVars, procVars>>

-----------------------------------------------------------------------------
Dispatcher ==
    \/ DispatchWake \/ DrainDone \/ LeaseErr \/ Send \/ SendCancelled \/ DispatchStop
    \/ \E j \in Jobs : LeaseOne(j)

Worker(w) ==
    \/ Recv(w) \/ ScanCommit(w) \/ ScanPermFail(w) \/ HandlerOk(w)
    \/ HandlerPartial(w) \/ HandlerOverLimit(w) \/ HandlerError(w)

Next ==
    \/ Dispatcher
    \/ \E w \in Workers : Worker(w)
    \/ \E j \in Jobs : Enqueue(j) \/ BackoffElapses(j) \/ LeaseAges(j)
    \/ Shutdown \/ ShutdownDone \/ Kill \/ Boot

Spec == Init /\ [][Next]_vars

\* Goroutines run when they can, a handler returns (its transports have
\* timeouts), a select does not ignore a closed Done channel for ever, time
\* passes, and a stopped process is started again.
Fairness ==
    /\ WF_vars(Dispatcher) /\ SF_vars(DispatchStop)
    /\ \A w \in Workers : WF_vars(Worker(w))
    /\ \A j \in Jobs : WF_vars(BackoffElapses(j)) /\ WF_vars(LeaseAges(j))
    /\ WF_vars(ShutdownDone) /\ WF_vars(Boot)

LiveSpec == Spec /\ Fairness

-----------------------------------------------------------------------------
(* Properties.                                                             *)

RowTypes ==
    /\ status \in [Jobs -> {"none", "pending", "running", "done", "failed"}]
    /\ attempts \in [Jobs -> 0..MaxAttempts]
    /\ log \in [Jobs -> {"none", "counts", "null"}]
    /\ leaseBoot \in [Jobs -> 0..MaxBoots] /\ runs \in [Jobs -> Nat]

FlagTypes ==
    /\ due \in [Jobs -> BOOLEAN] /\ stale \in [Jobs -> BOOLEAN]
    /\ summary \in [Jobs -> BOOLEAN]

ProcTypes ==
    /\ phase \in {"down", "up"} /\ boot \in 1..MaxBoots
    /\ cancelled \in BOOLEAN /\ dbErrors \in 0..MaxDbErrors

PoolTypes ==
    /\ dpc \in {"select", "drain", "send", "stopped"} /\ dview \in Views
    /\ queue \in Seq(Views) /\ Len(queue) <= QueueCap
    /\ wview \in [Workers -> Views]
    /\ wpc \in [Workers -> {"idle", "handling", "returned"}]

\* Every variable holds a value of its column, channel or program counter.
TypeOK == RowTypes /\ FlagTypes /\ ProcTypes /\ PoolTypes

\* Where a leased row can be in memory.
InDispatcher(j) == dpc = "send" /\ dview.id = j
InQueue(j, i) == queue[i].id = j
AtWorker(j, w) == wpc[w] # "idle" /\ wview[w].id = j

Held(j) ==
    \/ InDispatcher(j)
    \/ \E i \in 1..Len(queue) : InQueue(j, i)
    \/ \E w \in Workers : AtWorker(j, w)

\* The refinement mapping: a 'running' row is held by the process, or nobody
\* is at work on it.
QueueState ==
    [j \in Jobs |-> IF status[j] # "running" THEN status[j]
                    ELSE IF Held(j) THEN "held" ELSE "stranded"]

Queue == INSTANCE JobQueue WITH job <- QueueState, tries <- attempts

\* The pool is a queue that hands out work once: whatever dispatcher,
\* workers, failed writes, shutdowns, kills and boots do, a row is taken only
\* when it waits, its outcome is final or a charged retry, and only a row
\* that nobody holds is swept (pool.go, lease.go, boot_recovery.go).
ImplementsQueue == Queue!Spec

\* A row is handled by one goroutine at a time: two places of the pool never
\* hold the same row, although leased_by is never checked by an outcome
\* write and a sweep may re-pend rows at boot.
LeaseExclusive ==
    \A j \in Jobs :
        /\ \A i, k \in 1..Len(queue) : InQueue(j, i) /\ InQueue(j, k) => i = k
        /\ \A w, x \in Workers : AtWorker(j, w) /\ AtWorker(j, x) => w = x
        /\ \A i \in 1..Len(queue) : InQueue(j, i) =>
              ~InDispatcher(j) /\ \A w \in Workers : ~AtWorker(j, w)
        /\ InDispatcher(j) => \A w \in Workers : ~AtWorker(j, w)

\* A row in the pool's memory is 'running' under a lease of this boot, so no
\* outcome write hits a row that was re-pended, re-leased or finished.
HeldRowsRun ==
    /\ \A j \in Jobs : InDispatcher(j) => status[j] = "running" /\ leaseBoot[j] = boot
    /\ \A i \in 1..Len(queue) :
          status[queue[i].id] = "running" /\ leaseBoot[queue[i].id] = boot
    /\ \A w \in Workers : wpc[w] = "handling" =>
          status[wview[w].id] = "running" /\ leaseBoot[wview[w].id] = boot

\* The retry ladder: a handler is started at most once per charged attempt and
\* once more per process start, so kills and lost outcome writes never make
\* a row run for ever within one process.
RetryBudget ==
    \A j \in Jobs : attempts[j] < MaxAttempts /\ runs[j] <= attempts[j] + boot

\* A helm sync whose process died is terminated, never run again: it gets no
\* execution that was not charged to its attempts, whatever the boots.
HelmRunsOncePerAttempt ==
    \A j \in Jobs : Kind[j] = "helm_sync" => runs[j] <= attempts[j] + 1

\* Readers never see a partial-sync log on a row that is not 'failed', and a
\* re-run never starts from a row that carries one.
LogOnlyOnFailed == \A j \in Jobs : log[j] # "none" => status[j] = "failed"

\* One in-flight sync per repository, across retries and boot recovery.
OneInflightSyncPerRepo ==
    \A j, k \in Jobs :
        /\ j # k /\ Repo[j] = Repo[k]
        /\ Kind[j] \in SyncKinds /\ Kind[k] \in SyncKinds
        => ~(status[j] \in Inflight /\ status[k] \in Inflight)

\* A scan that says 'done' has the summary the download gate reads.
ScanDoneHasSummary ==
    \A j \in Jobs : Kind[j] = "scan" /\ status[j] = "done" => summary[j]

\* Once the process serves again, no row is still 'running' from an earlier
\* boot (app.Run step 5c: "Re-pend any row stuck in 'running' from a
\* previous boot").
NoRowLeftFromEarlierBoot ==
    phase = "up" => \A j \in Jobs : status[j] = "running" => leaseBoot[j] = boot

\* A finished row stays as it is: neither a late outcome write nor the sweep
\* of a boot reopens it.
TerminalStays ==
    [][\A j \in Jobs : status[j] \in Terminal => status'[j] = status[j]]_vars

\* Every enqueued job finishes, however its attempts fail and wherever a
\* kill hits it (given SlowRestart and no lost outcome write).
EventuallyTerminal ==
    \A j \in Jobs : status[j] = "pending" ~> status[j] \in Terminal
=============================================================================
