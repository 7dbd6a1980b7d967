--------------------------- MODULE AttemptLimiter ---------------------------
(***************************************************************************)
(* The limiter in front of password verification: a token bucket for each  *)
(* peer in a table of bounded size, and a bounded number of slots for      *)
(* verifications at the same time.  A token is taken under the mutex, a    *)
(* slot after it.  A request of the Basic scheme gives its permit back     *)
(* when its password is verified and again when the handler returns.       *)
(*                                                                         *)
(* A tick is half a refill interval, a token two units of a bucket.        *)
(***************************************************************************)
EXTENDS Integers, FiniteSets, FiniteSetsExt

CONSTANTS Peers, Clients,
          Burst, MaxPeers, MaxConcurrent,
          MaxTicks            \* bound on time

VARIABLES ticks,
          table,    \* tracked peers: their units and times
          slots,    \* slots taken
          try,      \* requests: their step and their permit
          window    \* ghost: a peer, a time, and the tokens the peer took since
qvars == <<ticks, table, slots, try, window>>

Unit == 2
Outside == [units |-> -1, updated |-> 0, lastSeen |-> 0]
NoTry == [pc |-> "idle", once |-> "no"]
Unwatched == [peer |-> 0, from |-> 0, passed |-> 0]

QTypeOK ==
    /\ ticks \in 0 .. MaxTicks
    /\ table \in [Peers -> [units : Int, updated : 0 .. MaxTicks,
                            lastSeen : 0 .. MaxTicks]]
    /\ slots \in 0 .. MaxConcurrent
    /\ try \in [Clients -> [pc : {"idle", "slot", "verify", "serve"}, once : {"no", "yes"}]]

QInit ==
    /\ ticks = 0
    /\ table = [p \in Peers |-> Outside]
    /\ slots = 0
    /\ try = [c \in Clients |-> NoTry]
    /\ window = Unwatched

-----------------------------------------------------------------------------
Tracked == {p \in Peers : table[p] # Outside}

Tick ==
    /\ ticks < MaxTicks
    /\ ticks' = ticks + 1
    /\ UNCHANGED <<table, slots, try, window>>

(* From here on the attempts of a peer are counted, until it is evicted.   *)
Watch(p) ==
    /\ window = Unwatched
    /\ window' = [peer |-> p, from |-> ticks, passed |-> 0]
    /\ UNCHANGED <<ticks, table, slots, try>>

(* The peer seen the longest time ago; among several any.                  *)
evictOldestLocked == {p \in Tracked : \A q \in Tracked : table[p].lastSeen <= table[q].lastSeen}

\* Mutant: a bucket fills without a limit.
RefillUnbounded(e) == [units |-> e.units + (ticks - e.updated), updated |-> ticks, lastSeen |-> ticks]

Refill(e) ==
    [units |-> Min({e.units + (ticks - e.updated), Burst * Unit}),
     updated |-> ticks, lastSeen |-> ticks]

NewPeer == [units |-> Burst * Unit, updated |-> ticks, lastSeen |-> ticks]

(* The entry of peer p, refilled, less a token if it has one.              *)
Take(c, p, t, w) ==
    LET e == Refill(IF t[p] = Outside THEN NewPeer ELSE t[p]) IN
    IF e.units < Unit
    THEN table' = [t EXCEPT ![p] = e] /\ window' = w /\ UNCHANGED try
    ELSE /\ table' = [t EXCEPT ![p] = [e EXCEPT !.units = @ - Unit]]
         /\ window' = IF p = w.peer THEN [w EXCEPT !.passed = @ + 1] ELSE w
         /\ try' = [try EXCEPT ![c] = [pc |-> "slot", once |-> "no"]]

Acquire(c, p) ==
    /\ try[c] = NoTry
    /\ IF p \notin Tracked /\ Cardinality(Tracked) >= MaxPeers
       THEN \E o \in evictOldestLocked :
              Take(c, p, [table EXCEPT ![o] = Outside], IF o = window.peer THEN Unwatched ELSE window)
       ELSE Take(c, p, table, window)
    /\ UNCHANGED <<ticks, slots>>

(* A slot, without waiting for one; the token is spent either way.         *)
AcquireSlot(c) ==
    /\ try[c].pc = "slot"
    /\ IF slots < MaxConcurrent
       THEN /\ slots' = slots + 1
            /\ try' = [try EXCEPT ![c].pc = "verify"]
       ELSE try' = [try EXCEPT ![c] = NoTry] /\ UNCHANGED slots
    /\ UNCHANGED <<ticks, table, window>>

(* Only the first release of a permit counts.                              *)
Release(c) == slots' = IF try[c].once = "no" THEN slots - 1 ELSE slots

releaseAttemptPermit(c) ==
    /\ try[c].pc = "verify"
    /\ Release(c)
    /\ try' = [try EXCEPT ![c] = [pc |-> "serve", once |-> "yes"]]
    /\ UNCHANGED <<ticks, table, window>>

(* The deferred release of PasswordAttemptThrottle and of handleLogin.     *)
PasswordAttemptThrottle(c) ==
    /\ try[c].pc \in {"verify", "serve"}
    /\ Release(c)
    /\ try' = [try EXCEPT ![c] = NoTry]
    /\ UNCHANGED <<ticks, table, window>>

QNext ==
    \/ Tick
    \/ \E p \in Peers : Watch(p) \/ \E c \in Clients : Acquire(c, p)
    \/ \E c \in Clients : AcquireSlot(c) \/ releaseAttemptPermit(c) \/ PasswordAttemptThrottle(c)

-----------------------------------------------------------------------------
(* In any window of time in which a peer is not evicted it takes no more   *)
(* tokens than a full bucket and what flowed in meanwhile; the slots taken *)
(* are the permits held, however often one is released, and neither they   *)
(* nor the table pass their limits (attempt_limiter.go:56, 98, 106).       *)
AttemptsBounded ==
    /\ window.passed * Unit <= Burst * Unit + (ticks - window.from)
    /\ slots = Cardinality({c \in Clients : try[c].pc = "verify"})
    /\ slots <= MaxConcurrent /\ Cardinality(Tracked) <= MaxPeers
=============================================================================
