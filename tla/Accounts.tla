------------------------------ MODULE Accounts ------------------------------
(***************************************************************************)
(* User accounts, browser sessions, personal API keys and registry tokens: *)
(* internal/auth, internal/auth/middleware, the account handlers of        *)
(* internal/api and the tables users, sessions and api_keys.               *)
(*                                                                         *)
(* A write transaction is one step.  What a request reads before it (a     *)
(* session row, the user a password was verified for) is kept in req[c],   *)
(* and other requests run in between; req[c] of op "actor" is the          *)
(* auth.Actor of the request's context.  A read that the transaction       *)
(* repeats (the target of an admin request, the names of the keys) has no  *)
(* step of its own: what changed since then, the transaction sees.         *)
(*                                                                         *)
(* Left out: e-mail and avatar, token bytes (a session, a key or a token   *)
(* is its row), audit records, password hashes (a request that verifies a  *)
(* password knows the one that is stored when it reads the row).  Time is  *)
(* in units of the touch interval, one minute in the code.                 *)
(***************************************************************************)
EXTENDS Integers, FiniteSets

CONSTANTS Ids,        \* users.id values (AUTOINCREMENT: never used twice)
          LoginOf,    \* the login each id is created with
          Sids, Kids, KeyNames, Clients,
          None,
          SessionTTL, SessionHardTTL, Interval,
          MaxTime     \* bound of the clock

VARIABLES
    acct,    \* acct[u]: the row of users
    sess,    \* sess[s]: the row of sessions
    keys,    \* keys[k]: the row of api_keys with owner_kind 'user'
    req,     \* req[c]: what request c has read
    now,
    ended,   \* history: sessions that were live when an administrator
             \* reset the password of their account
    setups   \* history: accounts made by first-run setup

vars == <<acct, sess, keys, req, now, ended, setups>>

States == {"free", "live", "gone"}

Account == [st : States, super : {"yes", "no"}, must : {"yes", "no"}]
Session == [st : States, user : Ids \cup {None}, issued : Nat, seen : Nat,
            exp : Nat]
Key     == [st : States, user : Ids \cup {None}, name : KeyNames \cup {None}]

Idle == [op |-> "idle"]
NoSession == [st |-> "free", user |-> None, issued |-> 0, seen |-> 0, exp |-> 0]
DeadSession == [NoSession EXCEPT !.st = "gone"]

Init ==
    /\ acct = [u \in Ids |-> [st |-> "free", super |-> "no", must |-> "no"]]
    /\ sess = [s \in Sids |-> NoSession]
    /\ keys = [k \in Kids |-> [st |-> "free", user |-> None, name |-> None]]
    /\ req = [c \in Clients |-> Idle]
    /\ now = 0
    /\ ended = {}
    /\ setups = 0

-----------------------------------------------------------------------------
(* Queries.                                                                *)

Live(u) == u \in Ids /\ acct[u].st = "live"
LiveUsers == {u \in Ids : acct[u].st = "live"}
LiveSuperAdmins == {u \in LiveUsers : acct[u].super = "yes"}

(* The partial unique index on users(login) of live rows.                  *)
LoginFree(u) == \A v \in LiveUsers : LoginOf[v] # LoginOf[u]

(* sessions: FindByPrefixSha.                                              *)
SessionFound(s) == sess[s].st = "live" /\ now < sess[s].exp

(* api_keys: ListByUser.                                                   *)
LiveKeys(u) == {k \in Kids : keys[k].st = "live" /\ keys[k].user = u}

Actor(u, s) == [op |-> "actor", user |-> u, sid |-> s,
                super |-> acct[u].super, must |-> acct[u].must]

(* The policy of internal/auth for the self-service and the admin actions: *)
(* an account that has to change its password may do nothing else.         *)
MayAct(c) == req[c].op = "actor" /\ req[c].must = "no"
MayAdmin(c) == MayAct(c) /\ req[c].super = "yes"

Done(c) == req' = [req EXCEPT ![c] = Idle]
Hold(c, r) == req' = [req EXCEPT ![c] = r]

-----------------------------------------------------------------------------
(* Writes of internal/metadata.                                            *)

\* Mutant: the guard counts deleted super-admins too.
RemainsCountingDeleted(u) ==
    acct[u].super = "no" \/ Cardinality({v \in Ids : acct[v].super = "yes"}) > 1

(* The check of ApplyAdminPatch and DeleteEnforceLastSuperAdmin.           *)
SuperAdminLeft(u) == acct[u].super = "no" \/ Cardinality(LiveSuperAdmins) > 1

InsertUser(u, super, must) ==
    /\ acct[u].st = "free" /\ LoginFree(u)
    /\ acct' = [acct EXCEPT ![u] = [st |-> "live", super |-> super, must |-> must]]

DeleteEnforceLastSuperAdmin(u) ==
    /\ Live(u) /\ SuperAdminLeft(u)
    /\ acct' = [acct EXCEPT ![u].st = "gone"]

UpdatePasswordHash(u) == [acct EXCEPT ![u].must = "no"]

SessionsWithout(S) == [s \in Sids |-> IF s \in S /\ sess[s].st = "live"
                                      THEN DeadSession ELSE sess[s]]

SessionsOf(u) == {s \in Sids : sess[s].st = "live" /\ sess[s].user = u}

(* SlideExpiry: an UPDATE that only ever raises expires_at.                *)
SlideExpiry(s, seen, exp) ==
    sess' = IF sess[s].st = "live" /\ sess[s].exp < exp
            THEN [sess EXCEPT ![s].seen = seen, ![s].exp = exp]
            ELSE sess

RevokeAllByUser(u) ==
    keys' = [k \in Kids |-> IF k \in LiveKeys(u)
                            THEN [keys[k] EXCEPT !.st = "gone"] ELSE keys[k]]

-----------------------------------------------------------------------------
(* First-run setup: an unauthenticated request, checked before the password*)
(* is hashed and again in the transaction.                                 *)

SetupBegin(c) ==
    /\ req[c].op = "idle" /\ LiveUsers = {}
    /\ Hold(c, [op |-> "setup"])
    /\ UNCHANGED <<acct, sess, keys, now, ended, setups>>

\* Mutant: the transaction relies on the check made before it.
SetupWithoutRecheck(c) ==
    /\ req[c].op = "setup" /\ Done(c)
    /\ \E u \in Ids : InsertUser(u, "yes", "no")
    /\ setups' = setups + 1
    /\ UNCHANGED <<sess, keys, now, ended>>

SetupCommit(c) ==
    /\ req[c].op = "setup" /\ Done(c)
    /\ \/ /\ LiveUsers = {}
          /\ \E u \in Ids : InsertUser(u, "yes", "no")
          /\ setups' = setups + 1
       \/ /\ LiveUsers # {}
          /\ UNCHANGED <<acct, setups>>
    /\ UNCHANGED <<sess, keys, now, ended>>

-----------------------------------------------------------------------------
(* Signing in.  The row is read, argon2 takes its time, and the session is *)
(* inserted for whoever the row said.                                      *)

LoginVerify(c) ==
    /\ req[c].op = "idle"
    /\ \E u \in LiveUsers : Hold(c, [op |-> "login", user |-> u])
    /\ UNCHANGED <<acct, sess, keys, now, ended, setups>>

SessionExpiry == now + SessionTTL

LoginCreateSession(c) ==
    /\ req[c].op = "login" /\ Done(c)
    /\ \E s \in Sids :
          /\ sess[s].st = "free"
          /\ sess' = [sess EXCEPT ![s] =
                [st |-> "live", user |-> req[c].user, issued |-> now, seen |-> now,
                 exp |-> SessionExpiry]]
    /\ UNCHANGED <<acct, keys, now, ended, setups>>

HardCap(s) == sess[s].issued + SessionHardTTL

\* Mutant: the sliding window is not cut at the hard cap.
SlidingExpiryUncapped(s) == now + SessionTTL

SlidingExpiry(s) ==
    IF now + SessionTTL > HardCap(s) THEN HardCap(s) ELSE now + SessionTTL

(* authenticateSession up to its write: the row, the live user, and the    *)
(* expiry the write will store.                                            *)
authenticateSession(c) ==
    /\ req[c].op = "idle"
    /\ \E s \in Sids :
          /\ SessionFound(s) /\ now < HardCap(s) /\ Live(sess[s].user)
          /\ IF now - sess[s].seen >= Interval \/ sess[s].exp - now =< Interval
             THEN Hold(c, [op |-> "slide", sid |-> s, seen |-> now,
                           exp |-> SlidingExpiry(s),
                           actor |-> Actor(sess[s].user, s)])
             ELSE Hold(c, Actor(sess[s].user, s))
    /\ UNCHANGED <<acct, sess, keys, now, ended, setups>>

(* The end of authenticateSession; the error of the write is ignored.      *)
TouchSession(c) ==
    /\ req[c].op = "slide" /\ Hold(c, req[c].actor)
    /\ \/ SlideExpiry(req[c].sid, req[c].seen, req[c].exp)
       \/ UNCHANGED sess
    /\ UNCHANGED <<acct, keys, now, ended, setups>>

(* authenticateAPIKey for a key of a user: the row and its live owner.     *)
authenticateAPIKey(c) ==
    /\ req[c].op = "idle"
    /\ \E k \in Kids : /\ keys[k].st = "live" /\ Live(keys[k].user)
                       /\ Hold(c, Actor(keys[k].user, None))
    /\ UNCHANGED <<acct, sess, keys, now, ended, setups>>

(* authenticatePassword: HTTP Basic with the account's password.           *)
authenticatePassword(c) ==
    /\ req[c].op = "idle"
    /\ \E u \in LiveUsers : Hold(c, Actor(u, None))
    /\ UNCHANGED <<acct, sess, keys, now, ended, setups>>

(* The middlewares, by the credentials they take.                          *)
SessionOrAPIKey(c) == authenticateSession(c) \/ authenticateAPIKey(c)
BasicOrAPIKey(c) == authenticateAPIKey(c) \/ authenticatePassword(c)

-----------------------------------------------------------------------------
(* The registry's bearer tokens.  A token is signed for the actor of a     *)
(* request and stored nowhere; it names an account or a key, and every use *)
(* reads the rows again, so it opens nothing that its rows do not.         *)

(* resolveActor: the accounts a token may stand for now.                   *)
resolveActor == LiveUsers \cup {keys[k].user : k \in {x \in Kids : keys[x].st = "live"}}

VerifyBearer(c) ==
    /\ req[c].op = "idle"
    /\ \E u \in resolveActor \cap LiveUsers : Hold(c, Actor(u, None))
    /\ UNCHANGED <<acct, sess, keys, now, ended, setups>>

-----------------------------------------------------------------------------
(* Self-service.                                                           *)

handleLogout(c) ==
    /\ req[c].op = "actor" /\ req[c].sid # None /\ Done(c)
    /\ sess' = SessionsWithout({req[c].sid})
    /\ UNCHANGED <<acct, keys, now, ended, setups>>

(* handleChangePassword: the row is read and the password verified, then   *)
(* the new hash stored, whatever has become of the row in between.         *)
ChangePassword(c) ==
    /\ req[c].op = "actor"
    /\ Hold(c, [op |-> "changed", user |-> req[c].user, sid |-> req[c].sid])
    /\ acct' = UpdatePasswordHash(req[c].user)
    /\ UNCHANGED <<sess, keys, now, ended, setups>>

(* The rest of handleChangePassword, in a transaction of its own whose     *)
(* error is ignored: the other sessions are deleted, all of them when the  *)
(* cookie's row is not found.                                              *)
ChangePasswordSessions(c) ==
    /\ req[c].op = "changed" /\ Done(c)
    /\ LET keep == {s \in {req[c].sid} \cap Sids : SessionFound(s)}
       IN sess' \in {sess, SessionsWithout(SessionsOf(req[c].user) \ keep)}
    /\ UNCHANGED <<acct, keys, now, ended, setups>>

(* handleDeleteMe: the account, then its sessions, then its keys; the last *)
(* two are best effort.                                                    *)
DeleteMe(c) ==
    /\ MayAct(c)
    /\ \/ /\ DeleteEnforceLastSuperAdmin(req[c].user)
          /\ Hold(c, [op |-> "left", user |-> req[c].user])
       \/ /\ ~(Live(req[c].user) /\ SuperAdminLeft(req[c].user))
          /\ Done(c) /\ UNCHANGED acct
    /\ UNCHANGED <<sess, keys, now, ended, setups>>

DeleteMeSessions(c) ==
    /\ req[c].op = "left" /\ Hold(c, [op |-> "left2", user |-> req[c].user])
    /\ sess' \in {sess, SessionsWithout(SessionsOf(req[c].user))}
    /\ UNCHANGED <<acct, keys, now, ended, setups>>

DeleteMeKeys(c) ==
    /\ req[c].op = "left2" /\ Done(c)
    /\ RevokeAllByUser(req[c].user) \/ UNCHANGED keys
    /\ UNCHANGED <<acct, sess, now, ended, setups>>

(* handleCreateAPIKey: the list of names in use and the unique index       *)
(* refuse the same requests, the index when another one came in between.   *)
handleCreateAPIKey(c) ==
    /\ MayAct(c) /\ Done(c)
    /\ \E k \in Kids, n \in KeyNames :
          /\ keys[k].st = "free"
          /\ \A x \in LiveKeys(req[c].user) : keys[x].name # n
          /\ keys' = [keys EXCEPT ![k] = [st |-> "live", user |-> req[c].user,
                                          name |-> n]]
    /\ UNCHANGED <<acct, sess, now, ended, setups>>

handleRevokeAPIKey(c) ==
    /\ MayAct(c) /\ Done(c)
    /\ \E k \in LiveKeys(req[c].user) : keys' = [keys EXCEPT ![k].st = "gone"]
    /\ UNCHANGED <<acct, sess, now, ended, setups>>

-----------------------------------------------------------------------------
(* Administration.                                                         *)

handleCreateUser(c) ==
    /\ MayAdmin(c) /\ Done(c)
    /\ \E u \in Ids : InsertUser(u, "no", "yes")
    /\ UNCHANGED <<sess, keys, now, ended, setups>>

(* handleDeleteUser: the target was live when FindByLogin read it.         *)
handleDeleteUser(c) ==
    /\ MayAdmin(c) /\ Done(c)
    /\ \E u \in Ids \ {req[c].user} : DeleteEnforceLastSuperAdmin(u)
    /\ UNCHANGED <<sess, keys, now, ended, setups>>

\* Mutant: the password is reset and the sessions are not.
ApplyAdminPatchKeepsSessions(u, super, pw, must) ==
    /\ acct' = [acct EXCEPT ![u].super = super, ![u].must = must]
    /\ ended' = IF pw = 1 THEN ended \cup SessionsOf(u) ELSE ended
    /\ sess' = sess

(* ApplyAdminPatch, one transaction: pw is 1 when the patch sets a         *)
(* password; must is what the patch says, or what the writes before leave. *)
ApplyAdminPatch(u, super, pw, must) ==
    /\ acct' = [acct EXCEPT ![u].super = super, ![u].must = must]
    /\ ended' = IF pw = 1 THEN ended \cup SessionsOf(u) ELSE ended
    /\ sess' = IF pw = 1 THEN SessionsWithout(SessionsOf(u)) ELSE sess

handlePatchUser(c) ==
    /\ MayAdmin(c) /\ Done(c)
    /\ \E u \in LiveUsers, super \in {"yes", "no"}, pw \in {0, 1}, must \in {"yes", "no"} :
          /\ super = "yes" \/ SuperAdminLeft(u)
          /\ ApplyAdminPatch(u, super, pw, must)
    /\ UNCHANGED <<keys, now, setups>>

-----------------------------------------------------------------------------
Tick ==
    /\ now < MaxTime /\ now' = now + 1
    /\ UNCHANGED <<acct, sess, keys, req, ended, setups>>

(* A request ends without doing anything more: refused, or cancelled.      *)
Drop(c) ==
    /\ req[c].op # "idle" /\ Done(c)
    /\ UNCHANGED <<acct, sess, keys, now, ended, setups>>

Request(c) ==
    \/ SetupBegin(c) \/ SetupCommit(c)
    \/ LoginVerify(c) \/ LoginCreateSession(c)
    \/ SessionOrAPIKey(c) \/ TouchSession(c) \/ BasicOrAPIKey(c) \/ VerifyBearer(c)
    \/ handleLogout(c)
    \/ ChangePassword(c) \/ ChangePasswordSessions(c)
    \/ DeleteMe(c) \/ DeleteMeSessions(c) \/ DeleteMeKeys(c)
    \/ handleCreateAPIKey(c) \/ handleRevokeAPIKey(c)
    \/ handleCreateUser(c) \/ handleDeleteUser(c) \/ handlePatchUser(c)
    \/ Drop(c)

Next == Tick \/ \E c \in Clients : Request(c)

Spec == Init /\ [][Next]_vars

-----------------------------------------------------------------------------
TypeOK ==
    /\ acct \in [Ids -> Account]
    /\ sess \in [Sids -> Session]
    /\ keys \in [Kids -> Key]
    /\ now \in Nat /\ ended \subseteq Sids /\ setups \in Nat

(* Once the installation has an account it has a live super-admin, however *)
(* deletions, self-deletions and demotions of several admins interleave:   *)
(* DeleteEnforceLastSuperAdmin and ApplyAdminPatch count in their own      *)
(* transaction what other requests may have changed since the check.       *)
SuperAdminRemains ==
    (\E u \in Ids : acct[u].st # "free") => LiveSuperAdmins # {}

(* First-run setup makes one account in the life of the installation: two  *)
(* requests that both saw the empty table (setup.go:72) do not both insert,*)
(* and the table is never empty again.                                     *)
SetupOnce == setups =< 1

(* No session outlives its hard cap: whatever requests read the row, and   *)
(* whenever their writes land, expires_at stays within seven days of the   *)
(* sign-in.                                                                *)
SessionWithinHardCap ==
    \A s \in Sids : sess[s].st = "live" => sess[s].exp =< HardCap(s)

(* No session row that existed when an administrator reset the password of *)
(* its account still exists, nor is it brought back by the late write of a *)
(* request that had read it (README: "Admin-forced resets revoke every     *)
(* session for the user").                                                 *)
ResetEndsSessions ==
    \A s \in ended : sess[s].st # "live"

(* A session ends at its hard cap or by a reset, whichever comes first,    *)
(* and the late write of a request that had read it before (sessions.go:94)*)
(* neither prolongs it nor brings it back.                                 *)
SessionsBounded == SessionWithinHardCap /\ ResetEndsSessions
=============================================================================
