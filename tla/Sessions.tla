------------------------------ MODULE Sessions ------------------------------
(***************************************************************************)
(* Sessions of the API: refresh tokens that rotate, access tokens that are  *)
(* revoked at logout and purged, users that an admin deactivates.  Every   *)
(* request is one READ COMMITTED transaction; its response leaves before   *)
(* the commit.  An access token and the refresh token issued with it have  *)
(* the same number.                                                        *)
(***************************************************************************)
EXTENDS Integers, Sequences

CONSTANTS
    Users,
    Requests,       \* connections of the pool that serve a request
    AccessTTL,
    RefreshTTL,
    LoggedIn,       \* what may be issued at the start
    MaxTime,        \* bound: the clock
    MaxRequests,    \* bound: requests that pass their first check
    MaxFaults       \* bound: transactions that are lost

ASSUME SessionsAssumption ==
    /\ AccessTTL \in Nat \ {0} /\ RefreshTTL \in Nat \ {0}
    /\ LoggedIn \subseteq Seq([user : Users, at : {0}])
    /\ MaxTime \in Nat /\ MaxRequests \in Nat /\ MaxFaults \in Nat

VARIABLES
    now,
    active,          \* users.is_active
    refresh_tokens,  \* numbers of the rows
    revoked_tokens,
    issued,          \* sequence of what was issued, to whom and when
    delivered,       \* numbers whose tokens a client has received
    req,             \* the request of each connection
    used, faults,
    signedOut,       \* ghost: users all of whose sessions were ended, with no login since
    ended,           \* ghost: access tokens given to a logout that has committed
    spent            \* ghost: refresh tokens that a committed refresh or logout has found

vars == <<now, active, refresh_tokens, revoked_tokens, issued, delivered, req,
          used, faults, signedOut, ended, spent>>

NoToken == 0
Tokens == DOMAIN issued

Granting == {"login", "refresh"}
Ops == {"login", "refresh", "logout", "logout_all", "delete_user"}
Idle == [op |-> "none", pc |-> "idle", user |-> {}, token |-> NoToken, access |-> NoToken,
         new |-> NoToken, doomed |-> {}, holds |-> {}, revokes |-> {}, locksUser |-> FALSE,
         raced |-> FALSE]

\* Some users are logged in.
Init ==
    /\ now = 0
    /\ active = [u \in Users |-> TRUE]
    /\ issued \in LoggedIn
    /\ refresh_tokens = Tokens /\ revoked_tokens = {}
    /\ delivered = Tokens
    /\ req = [r \in Requests |-> Idle]
    /\ used = 0 /\ faults = 0
    /\ signedOut = {} /\ ended = {} /\ spent = {}

-----------------------------------------------------------------------------
(* What a token is worth. *)

\* jwt.decode: exp is the first second at which the token is refused.
AccessExpired(a) == issued[a].at + AccessTTL <= now

RefreshExpired(t) == issued[t].at + RefreshTTL < now

\* Mutant: the signature and the expiry are all that counts.
StatelessAccepts(a) == ~AccessExpired(a)

\* get_current_user.
ApiAccepts(a) ==
    /\ ~AccessExpired(a)
    /\ a \notin revoked_tokens
    /\ active[issued[a].user]

\* get_current_user_id of the ingestion service, which reads the same tables.
IngestionAccepts(a) ==
    /\ ~AccessExpired(a)
    /\ a \notin revoked_tokens
    /\ active[issued[a].user]

-----------------------------------------------------------------------------
(* Row locks. *)

\* r cannot finish its statement before q ends: a token row that q has deleted, a jti
\* that q has inserted, or the row of the user, which q has updated.
Waits(r, q) ==
    /\ q # r
    /\ CASE req[r].pc = "delete"     -> req[r].token \in req[q].holds
         [] req[r].pc = "delete_all" -> req[r].doomed \cap req[q].holds # {}
         [] req[r].pc = "revoke"     -> req[r].access \in req[q].revokes
         [] req[r].pc \in {"touch", "deactivate"} ->
               req[q].locksUser /\ req[q].user = req[r].user
         [] OTHER -> FALSE

Runs(r, pc) == req[r].pc = pc /\ \A q \in Requests : ~Waits(r, q)

\* Requests none of which ends before another of them has.
Stuck(S) == S # {} /\ \A p \in S : \E q \in S : Waits(p, q)

Deadlocked(r) == \E S \in SUBSET Requests : r \in S /\ Stuck(S)

-----------------------------------------------------------------------------
(* The first check of each request.  A request that it refuses changes nothing. *)

Begin(r, op, pc, user, token, access) ==
    /\ req[r].pc = "idle"
    /\ used < MaxRequests
    /\ used' = used + 1
    /\ req' = [q \in Requests |->
                 IF q = r
                 THEN [Idle EXCEPT !.op = op, !.pc = pc, !.user = {user},
                                   !.token = token, !.access = access]
                 ELSE [req[q] EXCEPT !.raced = @ \/ (op \in Granting /\ req[q].user = {user})]]
    /\ UNCHANGED <<now, active, refresh_tokens, revoked_tokens, issued, delivered,
                   faults, ended, spent>>

Login(r, u) ==
    /\ active[u]
    /\ Begin(r, "login", "insert", u, NoToken, NoToken)
    /\ signedOut' = signedOut \ {u}

\* Mutant: the row is not looked up.
AnyToken(r, t) ==
    /\ ~RefreshExpired(t)
    /\ Begin(r, "refresh", "user", issued[t].user, t, NoToken)
    /\ UNCHANGED signedOut

\* refresh: the row of the token.
ReadToken(r, t) ==
    /\ t \in refresh_tokens
    /\ ~RefreshExpired(t)
    /\ Begin(r, "refresh", "user", issued[t].user, t, NoToken)
    /\ UNCHANGED signedOut

\* Either token may be missing; a refresh token that has no row, or none yet, is ignored.
Logout(r, t, a) ==
    /\ IF t \in refresh_tokens
       THEN Begin(r, "logout", "delete", issued[t].user, t, a)
       ELSE Begin(r, "logout", "revoke", issued[IF t # NoToken THEN t ELSE a].user, NoToken, a)
    /\ UNCHANGED signedOut

LogoutAll(r, a) ==
    /\ ApiAccepts(a)
    /\ Begin(r, "logout_all", "snapshot", issued[a].user, NoToken, a)
    /\ UNCHANGED signedOut

\* By an admin, who is not one of Users.
DeleteUser(r, u) ==
    /\ Begin(r, "delete_user", "deactivate", u, NoToken, NoToken)
    /\ UNCHANGED signedOut

-----------------------------------------------------------------------------
(* The statements that follow. *)

Goto(r, pc) == req' = [req EXCEPT ![r].pc = pc]

tables == <<now, active, refresh_tokens, revoked_tokens, used, faults, signedOut, ended,
            spent>>

\* refresh: the user the token belongs to.
ReadUser(r) ==
    /\ Runs(r, "user")
    /\ IF \A u \in req[r].user : active[u]
       THEN Goto(r, "delete")
       ELSE req' = [req EXCEPT ![r] = Idle]
    /\ UNCHANGED <<tables, issued, delivered>>

\* _create_refresh_token and encode_access_token; the row is visible after the commit.
Issue(r, holds) ==
    /\ issued' = Append(issued, [user |-> CHOOSE u \in req[r].user : TRUE, at |-> now])
    /\ req' = [req EXCEPT ![r].pc = "touch", ![r].holds = holds, ![r].new = Len(issued')]

InsertToken(r) ==
    /\ Runs(r, "insert")
    /\ Issue(r, {})
    /\ UNCHANGED <<tables, delivered>>

\* Mutant: the presented token stays valid.
KeepToken(r) ==
    /\ Runs(r, "delete")
    /\ IF req[r].op = "refresh"
       THEN Issue(r, {})
       ELSE /\ req' = [req EXCEPT ![r].pc = "revoke",
                                  ![r].holds = {req[r].token} \cap refresh_tokens]
            /\ UNCHANGED issued
    /\ UNCHANGED <<tables, delivered>>

\* DELETE ... WHERE id: no row if another request has deleted it meanwhile, which
\* neither refresh nor logout notices.
DeleteToken(r) ==
    LET holds == {req[r].token} \cap refresh_tokens
    IN  /\ Runs(r, "delete")
        /\ IF req[r].op = "refresh"
           THEN Issue(r, holds)
           ELSE /\ req' = [req EXCEPT ![r].pc = "revoke", ![r].holds = holds]
                /\ UNCHANGED issued
        /\ UNCHANGED <<tables, delivered>>

\* Mutant: delete_user_tokens deletes the caller's own session only.
OwnTokens(r) == {req[r].access} \cap refresh_tokens

TokensOf(r) == {t \in refresh_tokens : issued[t].user \in req[r].user}

\* Somebody else is between the check and the commit that gives this user a token.
Overlapped(r) ==
    \E q \in Requests \ {r} : req[q].op \in Granting /\ req[q].user = req[r].user

\* Mutant: logout_all revokes the access token before it deletes the sessions.
RevokeFirst(r) ==
    /\ Runs(r, "snapshot")
    /\ req' = [req EXCEPT ![r].pc = "delete_all", ![r].doomed = TokensOf(r),
                          ![r].raced = Overlapped(r),
                          ![r].revokes = {req[r].access} \ {NoToken}]
    /\ UNCHANGED <<tables, issued, delivered>>

\* delete_by_user: the rows in the snapshot of the statement ...
SnapshotTokens(r) ==
    /\ Runs(r, "snapshot")
    /\ req' = [req EXCEPT ![r].pc = "delete_all", ![r].doomed = TokensOf(r),
                          ![r].raced = Overlapped(r)]
    /\ UNCHANGED <<tables, issued, delivered>>

\* ... are deleted one by one in any order, each when nobody has it locked, unless it
\* has gone by then.
DeleteRow(r, t) ==
    /\ \A q \in Requests \ {r} : t \notin req[q].holds
    /\ req' = [req EXCEPT ![r].doomed = @ \ {t}, ![r].holds = @ \cup ({t} \cap refresh_tokens)]

DeleteByUser(r) ==
    /\ req[r].pc = "delete_all"
    /\ \/ /\ req[r].doomed = {}
          /\ Goto(r, IF req[r].op = "logout_all" THEN "revoke" ELSE "commit")
       \/ \E t \in req[r].doomed : DeleteRow(r, t)
    /\ UNCHANGED <<tables, issued, delivered>>

\* Mutant: a missing access token is inserted as well.
RevokeMissing(r) ==
    /\ Runs(r, "revoke")
    /\ req' = [req EXCEPT ![r].pc = "commit", ![r].revokes = {req[r].access}]
    /\ UNCHANGED <<tables, issued, delivered>>

\* An access token that has expired is not worth a row.
RevokeAccess(r) ==
    LET a == req[r].access
    IN  /\ Runs(r, "revoke")
        /\ req' = [req EXCEPT ![r].pc = "commit",
                              ![r].revokes = {x \in {a} \ {NoToken} : ~AccessExpired(x)}]
        /\ UNCHANGED <<tables, issued, delivered>>

\* touch_last_active_at.
TouchUser(r) ==
    /\ Runs(r, "touch")
    /\ req' = [req EXCEPT ![r].pc = "respond", ![r].locksUser = TRUE]
    /\ UNCHANGED <<tables, issued, delivered>>

\* set_active(False).
Deactivate(r) ==
    /\ Runs(r, "deactivate")
    /\ req' = [req EXCEPT ![r].pc = "snapshot", ![r].locksUser = TRUE]
    /\ UNCHANGED <<tables, issued, delivered>>

\* The response with the tokens leaves before the exit of get_db_conn.
Respond(r) ==
    /\ Runs(r, "respond")
    /\ Goto(r, "commit")
    /\ delivered' = delivered \cup ({req[r].new} \ {NoToken})
    /\ UNCHANGED <<tables, issued>>

\* The exit of get_db_conn.
Commit(r) ==
    /\ Runs(r, "commit")
    /\ refresh_tokens' = (refresh_tokens \ req[r].holds) \cup ({req[r].new} \ {NoToken})
    /\ revoked_tokens' = revoked_tokens \cup req[r].revokes
    /\ active' = [u \in Users |->
                     active[u] /\ ~(req[r].op = "delete_user" /\ u \in req[r].user)]
    /\ signedOut' = IF req[r].op \in {"logout_all", "delete_user"} /\ ~req[r].raced
                    THEN signedOut \cup req[r].user ELSE signedOut
    /\ ended' = ended \cup ({req[r].access} \ {NoToken})
    /\ spent' = spent \cup ({req[r].token} \ {NoToken})
    /\ req' = [req EXCEPT ![r] = Idle]
    /\ UNCHANGED <<now, issued, delivered, used, faults>>

-----------------------------------------------------------------------------
\* The process or the connection breaks when the response is out already.  A break
\* before that leaves what a request that is never made leaves.
Rollback(r) ==
    /\ req[r].pc = "commit"
    /\ faults < MaxFaults
    /\ faults' = faults + 1
    /\ req' = [req EXCEPT ![r] = Idle]
    /\ UNCHANGED <<now, active, refresh_tokens, revoked_tokens, issued, delivered,
                   used, signedOut, ended, spent>>

\* PostgreSQL aborts one of the transactions that wait for each other.
DeadlockVictim(r) ==
    /\ Deadlocked(r)
    /\ req' = [req EXCEPT ![r] = Idle]
    /\ UNCHANGED <<tables, issued, delivered>>

\* Mutant: rows are purged when the token is about to expire.
PurgeEarly ==
    /\ revoked_tokens' = {a \in revoked_tokens : issued[a].at + AccessTTL > now + 1}
    /\ UNCHANGED <<now, active, refresh_tokens, issued, delivered, req, used, faults,
                   signedOut, ended, spent>>

\* The pg_cron job: expires_at < now().
Purge ==
    /\ revoked_tokens' = {a \in revoked_tokens : issued[a].at + AccessTTL >= now}
    /\ UNCHANGED <<now, active, refresh_tokens, issued, delivered, req, used, faults,
                   signedOut, ended, spent>>

Tick ==
    /\ now < MaxTime
    /\ now' = now + 1
    /\ UNCHANGED <<active, refresh_tokens, revoked_tokens, issued, delivered, req, used,
                   faults, signedOut, ended, spent>>

Client(r) ==
    \/ \E u \in Users : Login(r, u) \/ DeleteUser(r, u)
    \/ \E t \in delivered : ReadToken(r, t) \/ LogoutAll(r, t)
    \/ \E t \in delivered : Logout(r, t, t) \/ Logout(r, t, NoToken) \/ Logout(r, NoToken, t)

Step(r) ==
    \/ ReadUser(r) \/ InsertToken(r) \/ DeleteToken(r) \/ SnapshotTokens(r)
    \/ DeleteByUser(r) \/ RevokeAccess(r) \/ TouchUser(r) \/ Deactivate(r)
    \/ Respond(r) \/ Commit(r)

Next ==
    \/ \E r \in Requests : Client(r) \/ Step(r) \/ Rollback(r) \/ DeadlockVictim(r)
    \/ Purge
    \/ Tick

Spec == Init /\ [][Next]_vars
=============================================================================
