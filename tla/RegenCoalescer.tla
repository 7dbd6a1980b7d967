--------------------------- MODULE RegenCoalescer ---------------------------
(***************************************************************************)
(* Regeneration of one repository's published metadata: the coalescer of   *)
(* internal/protocol/regen and the regeneration it runs, in the form of    *)
(* internal/protocol/rpm/regen.go (Helm and PyPI publish the same way, one *)
(* hash-named file and one index, without a signature).                    *)
(*                                                                         *)
(* A writer commits its packages and marks the repository dirty in one     *)
(* transaction, then kicks the coalescer.  The coalescer's goroutine waits *)
(* for a quiet period, no longer than MaxWait, and regenerates: it reads   *)
(* the packages, writes data files named by their hash, replaces           *)
(* repomd.xml, replaces its signature, and removes the other data files.   *)
(*                                                                         *)
(* The packages of the repository are a version number; data files, index  *)
(* and signature are the version they were made from.                      *)
(***************************************************************************)
EXTENDS Integers

CONSTANTS Writers,
          Debounce, MaxWait,   \* timers, in ticks
          MaxVersion           \* bound on the versions of the packages

(* New raises maxWait to debounce and debounce to a positive duration.     *)
ASSUME TimerAssumption ==
    Debounce \in Nat \ {0} /\ MaxWait \in Nat /\ MaxWait >= Debounce

ASSUME BoundAssumption == MaxVersion \in Nat

VARIABLES
    ver,        \* the packages, in the database and on disk
    state,      \* repos.metadata_state
    data,       \* the versions whose hash-named data files exist
    index,      \* repomd.xml
    sig,        \* repomd.xml.asc
    writer,     \* requests between their commit and their Kick
    kicks,      \* how many the buffer of the kicks channel holds
    stop,       \* the stop channel
    loop,       \* where the goroutine is
    deb, max,   \* ticks left on the two timers
    snap,       \* the packages this regeneration read
    past        \* history: what has gone wrong or been stopped so far

published == <<data, index, sig>>
timers == <<deb, max>>
vars == <<ver, state, published, writer, kicks, stop, loop, timers, snap, past>>

Regenerating == {"mark", "list", "data", "repomd", "sign", "sweep", "finish"}

TypeOK ==
    /\ ver \in Nat /\ index \in Nat /\ sig \in Nat /\ snap \in Nat
    /\ data \subseteq Nat
    /\ state \in {"clean", "dirty", "regenerating"}
    /\ writer \in [Writers -> {"idle", "committed"}]
    /\ kicks \in 0..1 /\ stop \in {"open", "closed"}
    /\ loop \in {"idle", "pending", "exited"} \cup Regenerating
    /\ deb \in 0..Debounce /\ max \in 0..MaxWait
    /\ past \subseteq {"fault", "stop", "restart"}

(* A repository whose metadata is up to date, and a coalescer that Get has *)
(* just constructed.                                                       *)
Init ==
    /\ ver = 0 /\ state = "clean"
    /\ data = {0} /\ index = 0 /\ sig = 0
    /\ writer = [w \in Writers |-> "idle"]
    /\ kicks = 0 /\ stop = "open" /\ loop = "idle"
    /\ deb = 0 /\ max = 0 /\ snap = 0 /\ past = {}

-----------------------------------------------------------------------------
(* Writers: an upload, a delete, a batch of a sync.                        *)

(* Packages and the dirty mark in one transaction.  At the bound the write *)
(* is one that leaves the packages as they are.                            *)
Write(w) ==
    /\ writer[w] = "idle" /\ stop = "open"
    /\ ver' = IF ver < MaxVersion THEN ver + 1 ELSE ver
    /\ state' = "dirty"
    /\ writer' = [writer EXCEPT ![w] = "committed"]
    /\ UNCHANGED <<published, kicks, stop, loop, timers, snap, past>>

\* Mutant: an unbuffered channel, a kick reaches only a waiting goroutine.
KickUnbuffered(w) ==
    /\ writer[w] = "committed"
    /\ writer' = [writer EXCEPT ![w] = "idle"]
    /\ kicks' = IF loop \in {"idle", "pending"} THEN 1 ELSE kicks
    /\ UNCHANGED <<ver, state, published, stop, loop, timers, snap, past>>

(* Kick: the buffer takes one; a kick that finds it full is absorbed.      *)
Kick(w) ==
    /\ writer[w] = "committed"
    /\ writer' = [writer EXCEPT ![w] = "idle"]
    /\ kicks' = 1
    /\ UNCHANGED <<ver, state, published, stop, loop, timers, snap, past>>

(* Shutdown, after the servers have drained their requests.                *)
Shutdown ==
    /\ stop = "open"
    /\ \A w \in Writers : writer[w] = "idle"
    /\ stop' = "closed"
    /\ past' = past \cup {"stop"}
    /\ UNCHANGED <<ver, state, published, writer, kicks, loop, timers, snap>>

-----------------------------------------------------------------------------
(* The goroutine.  A select with several ready cases takes any of them.    *)

FirstKick ==
    /\ loop = "idle" /\ kicks = 1
    /\ kicks' = 0
    /\ deb' = Debounce /\ max' = MaxWait
    /\ loop' = "pending"
    /\ UNCHANGED <<ver, state, published, writer, stop, snap, past>>

(* A further kick restarts the debounce timer only.                        *)
FurtherKick ==
    /\ loop = "pending" /\ kicks = 1
    /\ kicks' = 0
    /\ deb' = Debounce
    /\ UNCHANGED <<ver, state, published, writer, stop, loop, max, snap, past>>

Tick ==
    /\ loop = "pending" /\ (deb > 0 \/ max > 0)
    /\ deb' = IF deb > 0 THEN deb - 1 ELSE 0
    /\ max' = IF max > 0 THEN max - 1 ELSE 0
    /\ UNCHANGED <<ver, state, published, writer, kicks, stop, loop, snap, past>>

\* Mutant: the loop does not wait on the second timer.
FireDebounceOnly ==
    /\ loop = "pending" /\ deb = 0
    /\ deb' = 0 /\ max' = 0
    /\ loop' = "mark"
    /\ UNCHANGED <<ver, state, published, writer, kicks, stop, snap, past>>

Fire ==
    /\ loop = "pending" /\ (deb = 0 \/ max = 0)
    /\ deb' = 0 /\ max' = 0
    /\ loop' = "mark"
    /\ UNCHANGED <<ver, state, published, writer, kicks, stop, snap, past>>

Exit ==
    /\ loop \in {"idle", "pending"} /\ stop = "closed"
    /\ deb' = 0 /\ max' = 0
    /\ loop' = "exited"
    /\ UNCHANGED <<ver, state, published, writer, kicks, stop, snap, past>>

-----------------------------------------------------------------------------
(* The regeneration, under the repository's mutex.                         *)

Rest == <<ver, writer, kicks, stop, timers, past>>

Mark ==
    /\ loop = "mark"
    /\ state' = "regenerating"
    /\ loop' = "list"
    /\ UNCHANGED <<published, snap, Rest>>

(* ListByRepo.                                                             *)
List ==
    /\ loop = "list"
    /\ snap' = ver
    /\ loop' = "data"
    /\ UNCHANGED <<state, published, Rest>>

\* Mutant: the old data files go before the new index is in place.
WriteDataSweepFirst ==
    /\ loop = "data"
    /\ data' = {snap}
    /\ loop' = "repomd"
    /\ UNCHANGED <<state, index, sig, snap, Rest>>

WriteData ==
    /\ loop = "data"
    /\ data' = data \cup {snap}
    /\ loop' = "repomd"
    /\ UNCHANGED <<state, index, sig, snap, Rest>>

WriteRepomd ==
    /\ loop = "repomd"
    /\ index' = snap
    /\ loop' = "sign"
    /\ UNCHANGED <<state, data, sig, snap, Rest>>

Sign ==
    /\ loop = "sign"
    /\ sig' = snap
    /\ loop' = "sweep"
    /\ UNCHANGED <<state, data, index, snap, Rest>>

(* Everything but the data files of this regeneration; a file that cannot  *)
(* be removed stays.                                                       *)
Sweep ==
    /\ loop = "sweep"
    /\ \/ data' = {snap}
       \/ UNCHANGED data
    /\ loop' = "finish"
    /\ UNCHANGED <<state, index, sig, snap, Rest>>

(* Whatever the state has become since Mark, it is clean now.              *)
Finish ==
    /\ loop = "finish"
    /\ state' = "clean"
    /\ loop' = "idle"
    /\ snap' = 0
    /\ UNCHANGED <<published, Rest>>

(* A step fails.  Between Mark and Finish recordFailure writes dirty,      *)
(* unless its own transaction fails; the two transactions around it leave  *)
(* the state as it is.  Nothing kicks again.                               *)
Fail ==
    /\ loop \in Regenerating \ {"sweep"}
    /\ \/ state' = "dirty" /\ loop \in {"list", "data", "repomd", "sign"}
       \/ UNCHANGED state
    /\ loop' = "idle"
    /\ snap' = 0
    /\ past' = past \cup {"fault"}
    /\ UNCHANGED <<published, ver, writer, kicks, stop, timers>>

-----------------------------------------------------------------------------
(* The process is started again, after a shutdown or because it died.      *)
(* Nothing at startup looks at metadata_state.                             *)
Restart ==
    /\ writer' = [w \in Writers |-> "idle"]
    /\ kicks' = 0 /\ stop' = "open" /\ loop' = "idle"
    /\ deb' = 0 /\ max' = 0 /\ snap' = 0
    /\ past' = past \cup {"restart"}
    /\ UNCHANGED <<ver, state, published>>

Goroutine ==
    \/ FirstKick \/ FurtherKick \/ Fire \/ Exit
    \/ Mark \/ List \/ WriteData \/ WriteRepomd \/ Sign \/ Sweep \/ Finish \/ Fail

Next ==
    \/ \E w \in Writers : Write(w) \/ Kick(w)
    \/ Goroutine \/ Tick \/ Shutdown \/ Restart

Spec == Init /\ [][Next]_vars

(* A handler that has committed goes on to its Kick; time passes; the      *)
(* goroutine runs, and a select does not pass over a timer that has fired  *)
(* for ever, since it picks among the ready cases at random.               *)
LiveSpec ==
    /\ Spec
    /\ \A w \in Writers : WF_vars(Kick(w))
    /\ WF_vars(Tick)
    /\ WF_vars(Fire)
    /\ WF_vars(Goroutine)

-----------------------------------------------------------------------------
(* Whatever a regeneration, its failures and a crash leave behind, the     *)
(* data files that repomd.xml names are there.                             *)
IndexHasData == index \in data

Quiet == loop = "idle" /\ kicks = 0 /\ \A w \in Writers : writer[w] = "idle"

(* No kick is lost: as long as no regeneration has failed and the process  *)
(* has not died, a waiting goroutine with an empty buffer and no handler   *)
(* on its way to Kick mean that the last committed packages are published  *)
(* and signed, however kicks, timers and regenerations overlap.            *)
QuietIsFresh ==
    Quiet /\ past \subseteq {"stop"} => index = ver /\ sig = ver /\ state = "clean"

(* Every committed version is published, itself or by a later one, unless  *)
(* a regeneration fails or the process is stopped or dies.                 *)
EveryWritePublished ==
    \A v \in 1..MaxVersion : ver = v ~> index >= v \/ past # {}

-----------------------------------------------------------------------------
(* Why QuietIsFresh holds: a version that is not published is on its way,  *)
(* unless the goroutine has been stopped.                                  *)
Owed ==
    \/ index = ver
    \/ kicks = 1
    \/ \E w \in Writers : writer[w] = "committed"
    \/ loop \in {"pending", "mark", "list", "exited"}
    \/ loop \in {"data", "repomd"} /\ snap = ver

(* The index never goes back, and agrees with the signature except between *)
(* their two renames.                                                      *)
Stages ==
    /\ index <= ver
    /\ loop \in {"data", "repomd"} => index <= snap /\ snap <= ver
    /\ loop \in {"sign", "sweep", "finish"} => index = snap
    /\ loop # "sign" => sig = index

(* The state is clean, or somebody will make it so.                        *)
StateOwed ==
    \/ state = "clean"
    \/ kicks = 1
    \/ \E w \in Writers : writer[w] = "committed"
    \/ loop \in {"pending", "exited"} \cup Regenerating

FreshInv == TypeOK /\ (past \subseteq {"stop"} => Owed /\ Stages /\ StateOwed)

(* Why IndexHasData holds: the data files of the index that is about to be *)
(* written are there, and the sweep keeps those of the index just written. *)
DataInv ==
    /\ TypeOK
    /\ IndexHasData
    /\ loop = "repomd" => snap \in data
    /\ loop \in {"sign", "sweep"} => index = snap
=============================================================================
