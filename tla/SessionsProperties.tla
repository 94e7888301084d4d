------------------------- MODULE SessionsProperties -------------------------
(* What a session and its end mean to users and admins. *)
EXTENDS Sessions, FiniteSets

\* A request, as far as it refers to these tokens.
Request(tokens) ==
    [op : Ops \cup {"none"},
     pc : {"idle", "insert", "user", "delete", "snapshot", "delete_all", "revoke",
           "touch", "deactivate", "respond", "commit"},
     user : SUBSET Users,
     token : tokens \cup {NoToken}, access : tokens \cup {NoToken},
     new : tokens \cup {NoToken},
     doomed : SUBSET tokens, holds : SUBSET tokens, revokes : SUBSET tokens,
     locksUser : BOOLEAN, raced : BOOLEAN]

\* Types; a request refers to tokens that have been issued.
TypeOK ==
    /\ now \in Nat /\ used \in Nat /\ faults \in Nat
    /\ active \in [Users -> BOOLEAN]
    /\ issued \in Seq([user : Users, at : Nat])
    /\ refresh_tokens \subseteq Tokens /\ revoked_tokens \subseteq Tokens
    /\ delivered \subseteq Tokens /\ ended \subseteq Tokens /\ spent \subseteq Tokens
    /\ signedOut \subseteq Users
    /\ req \in [Requests -> Request(Tokens)]

\* logout_all "kicks every active session out of every device": when no login or
\* refresh of the user was under way between its DELETE and its commit, the user has
\* no refresh token until the password is entered again, whatever is presented in
\* whatever order.
LogoutAllEndsSessions ==
    \A u \in signedOut : \A t \in refresh_tokens : issued[t].user # u

\* A refresh token that a refresh or a logout has found, and whose request has
\* committed, is never accepted again, whichever of two requests that
\* present it deletes the row and whichever breaks.
SpentTokenRefused == spent \cap refresh_tokens = {}

\* An access token that a logout was given, or that belongs to a deactivated user, is
\* refused by both services for the rest of its life, also after the purge.
EndedAccessRefused ==
    \A a \in Tokens :
        a \in ended \/ ~active[issued[a].user] => ~ApiAccepts(a) /\ ~IngestionAccepts(a)

\* delete_by_user is the only statement that locks several rows, or a session after the
\* user: requests that wait for each other in a circle always include a logout_all or a
\* deactivation that waits for a second one or for a refresh.  Logins, refreshes and logouts,
\* and the revocations at the end of both kinds of logout, never deadlock by themselves.
DeadlocksNeedBulkDelete ==
    \A S \in SUBSET Requests : Stuck(S) =>
        \E p, q \in S :
            /\ Waits(p, q)
            /\ req[p].pc = "delete_all"
            /\ req[q].pc = "delete_all" \/ (req[q].pc = "touch" /\ req[q].op = "refresh")
=============================================================================
