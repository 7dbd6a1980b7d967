------------------------------ MODULE GitHost ------------------------------
(***************************************************************************)
(* A Git repository and the table git_refs from which the user interface   *)
(* lists its branches.  A hosted repository takes pushes, each of which is *)
(* followed by a walk of the references that rewrites the table, all under *)
(* the lock of the repository.  A mirror refuses pushes; its sync clones   *)
(* or fetches from the upstream and rewrites the table without a lock: the *)
(* job pool runs one sync of a repository at a time.                       *)
(*                                                                         *)
(* References are functions to commits, 0 where there is no reference;     *)
(* HEAD, which is seeded and never moved, is left out.                     *)
(***************************************************************************)
EXTENDS Integers, FiniteSets

CONSTANTS Clients, None,
          GitRefs,       \* branches and tags
          MaxCommits     \* bound on commits pushed here or upstream

VARIABLES mirror,        \* is_mirror
          disk,          \* references of the bare repository
          exists,        \* the bare repository is there
          table,         \* rows of git_refs
          repoLock,
          push,          \* pushes under way
          sync,          \* the sync job
          upstream,
          commits,
          gpast          \* since the last rewrite of the table
hvars == <<mirror, disk, exists, table, repoLock, push, sync, upstream, commits, gpast>>

Commit == 0 .. MaxCommits
Refs == [GitRefs -> Commit]
NoRefs == [r \in GitRefs |-> 0]
NoPush == [pc |-> "idle", todo |-> {}, new |-> 0, seen |-> NoRefs]
NoSync == [pc |-> "idle", todo |-> {}, want |-> NoRefs, seen |-> NoRefs]

HTypeOK ==
    /\ mirror \in {"yes", "no"} /\ exists \in {"yes", "no"}
    /\ disk \in Refs /\ table \in Refs /\ upstream \in Refs
    /\ repoLock \in Clients \cup {None}
    /\ push \in [Clients -> [pc : {"idle", "wait", "receive", "replace"},
                             todo : SUBSET GitRefs, new : Commit, seen : Refs]]
    /\ sync \in [pc : {"idle", "fetch", "replace", "done"}, todo : SUBSET GitRefs,
                 want : Refs, seen : Refs]
    /\ commits \in Commit /\ gpast \subseteq {"stale", "partial"}

(* CreateRepoHook: a hosted repository gets a bare directory, a mirror     *)
(* nothing before its first sync.                                          *)
CreateRepoHook ==
    /\ mirror \in {"yes", "no"}
    /\ exists = IF mirror = "yes" THEN "no" ELSE "yes"
    /\ disk = NoRefs /\ table = NoRefs

HInit ==
    /\ CreateRepoHook
    /\ repoLock = None
    /\ push = [c \in Clients |-> NoPush] /\ sync = NoSync
    /\ upstream = NoRefs /\ commits = 0 /\ gpast = {}

-----------------------------------------------------------------------------
(* Who may push is Membership's matter.                                    *)
Quit(c) == push' = [push EXCEPT ![c] = NoPush]
Step(c, pc) == push' = [push EXCEPT ![c].pc = pc]

ResolveRepoFromURL(c) ==
    /\ push[c] = NoPush /\ commits < MaxCommits
    /\ \E T \in SUBSET GitRefs \ {{}} :
         push' = [push EXCEPT ![c] = [pc |-> "wait", todo |-> T, new |-> commits + 1, seen |-> NoRefs]]
    /\ commits' = commits + 1
    /\ UNCHANGED <<mirror, disk, exists, table, repoLock, sync, upstream, gpast>>

\* Mutant: pushes do not take the lock.
NoMutex(c) ==
    /\ push[c].pc = "wait"
    /\ Step(c, "receive")
    /\ UNCHANGED <<mirror, disk, exists, table, repoLock, sync, upstream, commits, gpast>>

PerRepoMutex(c) ==
    /\ push[c].pc = "wait" /\ repoLock = None
    /\ repoLock' = c
    /\ Step(c, "receive")
    /\ UNCHANGED <<mirror, disk, exists, table, sync, upstream, commits, gpast>>

(* A push to a mirror is refused.                                          *)
RejectMirrorPush(c) ==
    /\ push[c].pc = "receive" /\ mirror = "yes"
    /\ Quit(c) /\ repoLock' = None
    /\ UNCHANGED <<mirror, disk, exists, table, sync, upstream, commits, gpast>>

(* The backend moves one reference after the other; each may be refused.   *)
ReceivePack(c) ==
    /\ push[c].pc = "receive" /\ mirror = "no" /\ push[c].todo # {}
    /\ \E r \in push[c].todo :
         /\ push' = [push EXCEPT ![c].todo = @ \ {r}]
         /\ disk' \in {disk, [disk EXCEPT ![r] = push[c].new], [disk EXCEPT ![r] = 0]}
    /\ gpast' = gpast \cup {"stale"}
    /\ UNCHANGED <<mirror, exists, table, repoLock, sync, upstream, commits>>

(* A body over the limit: the references left over stay as they are, and   *)
(* the walk follows all the same.                                          *)
PushSizeLimit(c) ==
    /\ push[c].pc = "receive" /\ mirror = "no" /\ push[c].todo # {}
    /\ push' = [push EXCEPT ![c].todo = {}]
    /\ UNCHANGED <<mirror, disk, exists, table, repoLock, sync, upstream, commits, gpast>>

dispatchToBackend(c) ==
    /\ push[c].pc = "receive" /\ mirror = "no" /\ push[c].todo = {}
    /\ push' = [push EXCEPT ![c].pc = "replace", ![c].seen = disk]
    /\ UNCHANGED <<mirror, disk, exists, table, repoLock, sync, upstream, commits, gpast>>

ReplaceAll(refs) == table' = refs /\ gpast' = {}

(* The table is rewritten in one transaction; an error (the client is gone *)
(* and its context cancelled) is logged only.                              *)
WalkAndReplace(c) ==
    /\ push[c].pc = "replace"
    /\ ReplaceAll(push[c].seen) \/ UNCHANGED <<table, gpast>>
    /\ Quit(c)
    /\ repoLock' = IF repoLock = c THEN None ELSE repoLock
    /\ UNCHANGED <<mirror, disk, exists, sync, upstream, commits>>

-----------------------------------------------------------------------------
(* The upstream of a mirror.                                               *)
UpstreamPush ==
    /\ mirror = "yes" /\ commits < MaxCommits
    /\ commits' = commits + 1
    /\ \E r \in GitRefs, v \in {0, commits + 1} : upstream' = [upstream EXCEPT ![r] = v]
    /\ UNCHANGED <<mirror, disk, exists, table, repoLock, push, sync, gpast>>

SyncFrame == UNCHANGED <<mirror, repoLock, push, upstream, commits>>

(* Handle: the upstream's references are advertised, and those that differ *)
(* are set one by one, the ones it no longer has pruned.                   *)
Handle ==
    /\ mirror = "yes" /\ sync.pc \in {"idle", "done"}
    /\ sync' = [pc |-> "fetch", want |-> upstream, seen |-> NoRefs,
                todo |-> {r \in GitRefs : disk[r] # upstream[r]}]
    /\ exists' = "yes"
    /\ UNCHANGED <<disk, table, gpast>> /\ SyncFrame

FetchContext ==
    /\ sync.pc = "fetch" /\ sync.todo # {}
    /\ \E r \in sync.todo :
         /\ disk' = [disk EXCEPT ![r] = sync.want[r]]
         /\ sync' = [sync EXCEPT !.todo = @ \ {r}]
    /\ gpast' = gpast \cup {"stale"}
    /\ UNCHANGED <<exists, table>> /\ SyncFrame

walkMirrorRefs ==
    /\ sync.pc = "fetch" /\ sync.todo = {}
    /\ sync' = [sync EXCEPT !.pc = "replace", !.seen = disk]
    /\ UNCHANGED <<disk, exists, table, gpast>> /\ SyncFrame

ReplaceAllTx ==
    /\ sync.pc = "replace"
    /\ ReplaceAll(sync.seen)
    /\ sync' = [sync EXCEPT !.pc = "done"]
    /\ UNCHANGED <<disk, exists>> /\ SyncFrame

(* Any error ends the job; references moved so far stay moved.             *)
fail ==
    /\ sync.pc \in {"fetch", "replace"}
    /\ sync' = NoSync
    /\ gpast' = gpast \cup {"partial"}
    /\ UNCHANGED <<disk, exists, table>> /\ SyncFrame

Restart ==
    /\ push' = [c \in Clients |-> NoPush] /\ repoLock' = None
    /\ sync' = IF sync.pc = "done" THEN sync ELSE NoSync
    /\ gpast' = IF sync.pc \in {"fetch", "replace"} THEN gpast \cup {"partial"} ELSE gpast
    /\ UNCHANGED <<mirror, disk, exists, table, upstream, commits>>

HNext ==
    \/ \E c \in Clients :
         \/ ResolveRepoFromURL(c) \/ PerRepoMutex(c) \/ RejectMirrorPush(c) \/ ReceivePack(c)
         \/ PushSizeLimit(c) \/ dispatchToBackend(c) \/ WalkAndReplace(c)
    \/ UpstreamPush \/ Handle \/ FetchContext \/ walkMirrorRefs \/ ReplaceAllTx \/ fail
    \/ Restart

-----------------------------------------------------------------------------
GitQuiet == sync.pc \in {"idle", "done"} /\ \A c \in Clients : push[c].pc \in {"idle", "wait"}

(* A mirror that was never synced answers that it is not ready.            *)
Advertised == IF exists = "no" THEN NoRefs ELSE disk

(* The branches listed are those a clone gets, whenever no push and no     *)
(* sync is under way and the last of them got as far as its transaction;   *)
(* after a successful sync both are what the upstream had when the sync    *)
(* asked (middleware.go:273, refs.go:105, sync_handler.go:272).            *)
RefsListed ==
    GitQuiet /\ gpast = {} =>
        /\ table = Advertised
        /\ sync.pc = "done" => table = sync.want
=============================================================================
