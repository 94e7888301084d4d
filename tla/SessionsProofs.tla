--------------------------- MODULE SessionsProofs ---------------------------
(***************************************************************************)
(* Machine-checked proofs about sessions, for any users, connections,      *)
(* lifetimes and bounds.                                                   *)
(***************************************************************************)
EXTENDS SessionsProperties, SequenceTheorems, TLAPS

-----------------------------------------------------------------------------
(* Which request is where, and what it refers to.                          *)

\* Which statements an operation has, and which fields it fills.
Control(q) ==
    /\ q.op = "none" <=> q.pc = "idle"
    /\ q.op # "none" => \E u \in Users : q.user = {u}
    /\ q.op = "login" => q.pc \in {"insert", "touch", "respond", "commit"}
    /\ q.op = "refresh" => q.pc \in {"user", "delete", "touch", "respond", "commit"}
    /\ q.op = "logout" => q.pc \in {"delete", "revoke", "commit"}
    /\ q.op = "logout_all" => q.pc \in {"snapshot", "delete_all", "revoke", "commit"}
    /\ q.op = "delete_user" => q.pc \in {"deactivate", "snapshot", "delete_all", "commit"}
    /\ q.token # NoToken => q.op \in {"refresh", "logout"}
    /\ q.access # NoToken => q.op \in {"logout", "logout_all"}
    /\ q.new # NoToken => q.op \in Granting /\ q.pc \in {"touch", "respond", "commit"}

Controlled == \A r \in Requests : Control(req[r])

LEMMA RequestGrows ==
    ASSUME NEW A, NEW B, A \subseteq B PROVE Request(A) \subseteq Request(B)
  BY DEF Request

LEMMA IdleIsControlled == Idle \in Request({}) /\ Control(Idle)
  BY DEF Idle, Request, Control, NoToken, Ops

\* A request that goes on or ends leaves the others as they are.
LEMMA OneRequestMoves ==
    ASSUME NEW tokens, NEW f \in [Requests -> Request(tokens)], NEW r \in Requests,
           NEW q \in Request(tokens)
    PROVE  [f EXCEPT ![r] = q] \in [Requests -> Request(tokens)]
  OBVIOUS

LEMMA TokensArePositive ==
    ASSUME TypeOK PROVE Tokens \subseteq Nat \ {NoToken}
  BY DEF TypeOK, Tokens, NoToken

LEMMA IssuedToUsers ==
    ASSUME TypeOK PROVE \A t \in Tokens : issued[t] \in [user : Users, at : Nat]
  BY ElementOfSeq, LenProperties DEF TypeOK, Tokens

\* What Issue adds to the tokens.
LEMMA IssueAdds ==
    ASSUME TypeOK, NEW r \in Requests, NEW holds, req[r].op # "none",
           Controlled, Issue(r, holds)
    PROVE  /\ issued' \in Seq([user : Users, at : Nat])
           /\ Len(issued') \notin Tokens
           /\ Len(issued') \in Nat \ {NoToken}
           /\ Tokens' = Tokens \cup {Len(issued')}
           /\ \A t \in Tokens : issued'[t] = issued[t]
           /\ req[r].user = {issued'[Len(issued')].user}
  <1> DEFINE u == CHOOSE u \in req[r].user : TRUE
             e == [user |-> u, at |-> now]
  <1>1. u \in Users /\ req[r].user = {u}
    BY DEF Controlled, Control
  <1>2. e \in [user : Users, at : Nat]
    BY <1>1 DEF TypeOK
  <1>3. issued' = Append(issued, e)
    BY DEF Issue
  <1>4. issued \in Seq([user : Users, at : Nat])
    BY DEF TypeOK
  <1>5. /\ issued' \in Seq([user : Users, at : Nat])
        /\ Len(issued') = Len(issued) + 1
        /\ \A n \in 1 .. Len(issued) : issued'[n] = issued[n]
        /\ issued'[Len(issued) + 1] = e
    BY <1>2, <1>3, <1>4, AppendProperties
  <1>6. DOMAIN issued = 1 .. Len(issued) /\ DOMAIN issued' = 1 .. Len(issued') /\ Len(issued) \in Nat
    BY <1>4, <1>5
  <1> QED
    BY <1>1, <1>5, <1>6 DEF Tokens, NoToken

\* A bulk deletion takes one more row, or has taken them all and goes on.
LEMMA DeletionMoves ==
    ASSUME TypeOK, NEW r \in Requests, DeleteByUser(r)
    PROVE  \E q \in Request(Tokens) :
             /\ req' = [req EXCEPT ![r] = q] /\ UNCHANGED <<tables, issued, delivered>>
             /\ req[r].pc = "delete_all"
             /\ q.op = req[r].op /\ q.user = req[r].user /\ q.token = req[r].token
             /\ q.access = req[r].access /\ q.new = req[r].new /\ q.raced = req[r].raced
             /\ q.revokes = req[r].revokes /\ q.locksUser = req[r].locksUser
             /\ \/ /\ req[r].doomed = {} /\ q.doomed = {} /\ q.holds = req[r].holds
                   /\ q.pc = IF req[r].op = "logout_all" THEN "revoke" ELSE "commit"
                \/ /\ q.pc = "delete_all"
                   /\ \E t \in req[r].doomed :
                         /\ q.doomed = req[r].doomed \ {t}
                         /\ q.holds = req[r].holds \cup ({t} \cap refresh_tokens)
  <1> DEFINE was == req[r]
             next == IF was.op = "logout_all" THEN "revoke" ELSE "commit"
  <1>1. /\ was \in Request(Tokens) /\ was.pc = "delete_all"
        /\ UNCHANGED <<tables, issued, delivered>>
        /\ req \in [Requests -> Request(Tokens)]
    BY DEF DeleteByUser, TypeOK
  <1>2. CASE was.doomed = {} /\ Goto(r, next)
    <2> DEFINE q == [was EXCEPT !.pc = next]
    <2>1. req' = [req EXCEPT ![r] = q]
      BY <1>1, <1>2 DEF Goto
    <2>2. /\ q \in Request(Tokens) /\ q.pc = next
          /\ q.op = was.op /\ q.user = was.user /\ q.token = was.token
          /\ q.access = was.access /\ q.new = was.new /\ q.raced = was.raced
          /\ q.revokes = was.revokes /\ q.locksUser = was.locksUser
          /\ q.doomed = was.doomed /\ q.holds = was.holds
      BY <1>1 DEF Request
    <2> HIDE DEF q
    <2> QED
      BY <1>1, <1>2, <2>1, <2>2
  <1>3. ASSUME NEW t \in was.doomed, DeleteRow(r, t)
        PROVE  \E q \in Request(Tokens) :
                 /\ req' = [req EXCEPT ![r] = q] /\ q.pc = "delete_all"
                 /\ q.op = was.op /\ q.user = was.user /\ q.token = was.token
                 /\ q.access = was.access /\ q.new = was.new /\ q.raced = was.raced
                 /\ q.revokes = was.revokes /\ q.locksUser = was.locksUser
                 /\ q.doomed = was.doomed \ {t}
                 /\ q.holds = was.holds \cup ({t} \cap refresh_tokens)
    <2> DEFINE q == [was EXCEPT !.doomed = @ \ {t}, !.holds = @ \cup ({t} \cap refresh_tokens)]
    <2>1. req' = [req EXCEPT ![r] = q]
      BY <1>1, <1>3 DEF DeleteRow
    <2>2. refresh_tokens \subseteq Tokens
      BY DEF TypeOK
    <2>3. /\ q \in Request(Tokens) /\ q.pc = "delete_all"
          /\ q.op = was.op /\ q.user = was.user /\ q.token = was.token
          /\ q.access = was.access /\ q.new = was.new /\ q.raced = was.raced
          /\ q.revokes = was.revokes /\ q.locksUser = was.locksUser
          /\ q.doomed = was.doomed \ {t}
          /\ q.holds = was.holds \cup ({t} \cap refresh_tokens)
      BY <1>1, <2>2 DEF Request
    <2> HIDE DEF q
    <2> QED
      BY <2>1, <2>3
  <1>4. (was.doomed = {} /\ Goto(r, next)) \/ \E t \in was.doomed : DeleteRow(r, t)
    BY DEF DeleteByUser
  <1> HIDE DEF next
  <1>5. CASE \E t \in was.doomed : DeleteRow(r, t)
    BY <1>1, <1>3, <1>5
  <1> QED
    BY <1>2, <1>4, <1>5

-----------------------------------------------------------------------------
(* Types.                                                                  *)

LEMMA InitTyped == Init => TypeOK /\ Controlled
  <1> SUFFICES ASSUME Init PROVE TypeOK /\ Controlled
    OBVIOUS
  <1>1. issued \in Seq([user : Users, at : {0}])
    BY SessionsAssumption DEF Init
  <1>2. issued \in Seq([user : Users, at : Nat])
    <2> DEFINE S == [user : Users, at : {0}]
               T == [user : Users, at : Nat]
    <2>1. issued \in Seq(S) /\ S \subseteq T
      BY <1>1
    <2> HIDE DEF S, T
    <2>2. issued \in Seq(T)
      BY <2>1, SeqMonotonic
    <2> QED
      BY <2>2 DEF T
  <1>3. req \in [Requests -> Request(Tokens)]
    BY IdleIsControlled, RequestGrows DEF Init
  <1> QED
    BY <1>2, <1>3, IdleIsControlled DEF Init, TypeOK, Controlled

\* The first check of a request.
LEMMA BeginTyped ==
    ASSUME TypeOK, Controlled, NEW r \in Requests, NEW op \in Ops, NEW pc, NEW u \in Users,
           NEW token \in Tokens \cup {NoToken}, NEW access \in Tokens \cup {NoToken},
           Begin(r, op, pc, u, token, access), signedOut' \subseteq Users,
           Control([Idle EXCEPT !.op = op, !.pc = pc, !.user = {u},
                                !.token = token, !.access = access]),
           pc \in {"insert", "user", "delete", "snapshot", "revoke", "deactivate"}
    PROVE  TypeOK' /\ Controlled'
  <1> DEFINE q == [Idle EXCEPT !.op = op, !.pc = pc, !.user = {u},
                               !.token = token, !.access = access]
  <1>1. q \in Request(Tokens)
    BY DEF Request, Idle
  <1>2. \A p \in Requests \ {r} :
           /\ req'[p] \in Request(Tokens)
           /\ Control(req[p]) => Control(req'[p])
    <2> SUFFICES ASSUME NEW p \in Requests \ {r}
                 PROVE  /\ req'[p] \in Request(Tokens)
                        /\ Control(req[p]) => Control(req'[p])
      OBVIOUS
    <2> DEFINE b == req[p].raced \/ (op \in Granting /\ req[p].user = {u})
    <2>1. req'[p] = [req[p] EXCEPT !.raced = b]
      BY DEF Begin
    <2>2. req[p] \in Request(Tokens)
      BY DEF TypeOK
    <2>3. b \in BOOLEAN
      BY <2>2 DEF Request
    <2> HIDE DEF b
    <2> QED
      BY <2>1, <2>2, <2>3 DEF Request, Control
  <1>3. req'[r] = q /\ DOMAIN req' = Requests /\ req' = [p \in Requests |-> req'[p]]
    BY DEF Begin
  <1>4. Tokens' = Tokens
    BY DEF Begin, Tokens
  <1> HIDE DEF q
  <1>5. req' \in [Requests -> Request(Tokens)]
    BY <1>1, <1>2, <1>3
  <1>6. Controlled'
    BY <1>2, <1>3 DEF Controlled, q
  <1> QED
    BY <1>4, <1>5, <1>6 DEF TypeOK, Begin

\* The first check fills the request and marks the requests it overlaps.
LEMMA BeginFills ==
    ASSUME TypeOK, NEW r \in Requests, NEW op, NEW pc, NEW u, NEW token, NEW access,
           Begin(r, op, pc, u, token, access)
    PROVE  /\ UNCHANGED <<now, active, refresh_tokens, revoked_tokens, issued, ended, spent>>
           /\ req'[r].op = op /\ req'[r].pc = pc /\ req'[r].user = {u}
           /\ req'[r].token = token /\ req'[r].access = access /\ req'[r].new = NoToken
           /\ \A p \in Requests \ {r} :
                /\ req'[p].op = req[p].op /\ req'[p].pc = req[p].pc
                /\ req'[p].user = req[p].user /\ req'[p].token = req[p].token
                /\ req'[p].access = req[p].access /\ req'[p].new = req[p].new
                /\ req'[p].doomed = req[p].doomed /\ req'[p].holds = req[p].holds
                /\ req'[p].revokes = req[p].revokes
                /\ req'[p].raced = (req[p].raced \/ (op \in Granting /\ req[p].user = {u}))
  <1>1. UNCHANGED <<now, active, refresh_tokens, revoked_tokens, issued, ended, spent>>
    BY DEF Begin
  <1>2. req'[r] = [Idle EXCEPT !.op = op, !.pc = pc, !.user = {u},
                               !.token = token, !.access = access]
    BY DEF Begin
  <1>3. /\ req'[r].op = op /\ req'[r].pc = pc /\ req'[r].user = {u}
        /\ req'[r].token = token /\ req'[r].access = access /\ req'[r].new = NoToken
    BY <1>2 DEF Idle
  <1>4. ASSUME NEW p \in Requests \ {r}
        PROVE  /\ req'[p].op = req[p].op /\ req'[p].pc = req[p].pc
               /\ req'[p].user = req[p].user /\ req'[p].token = req[p].token
               /\ req'[p].access = req[p].access /\ req'[p].new = req[p].new
               /\ req'[p].doomed = req[p].doomed /\ req'[p].holds = req[p].holds
               /\ req'[p].revokes = req[p].revokes
               /\ req'[p].raced = (req[p].raced \/ (op \in Granting /\ req[p].user = {u}))
    <2> DEFINE b == req[p].raced \/ (op \in Granting /\ req[p].user = {u})
    <2>1. req'[p] = [req[p] EXCEPT !.raced = b]
      BY DEF Begin
    <2>2. req[p] \in Request(Tokens)
      BY DEF TypeOK
    <2> HIDE DEF b
    <2>3. /\ req'[p].op = req[p].op /\ req'[p].pc = req[p].pc
          /\ req'[p].user = req[p].user /\ req'[p].token = req[p].token
          /\ req'[p].access = req[p].access /\ req'[p].new = req[p].new
          /\ req'[p].doomed = req[p].doomed /\ req'[p].holds = req[p].holds
          /\ req'[p].revokes = req[p].revokes /\ req'[p].raced = b
      BY <2>1, <2>2 DEF Request
    <2> QED
      BY <2>3 DEF b
  <1> QED
    BY <1>1, <1>3, <1>4

\* A statement after the first: the request goes on to q or ends.
LEMMA StepTyped ==
    ASSUME TypeOK, Controlled, NEW r \in Requests, NEW q \in Request(Tokens), Control(q),
           req' = [req EXCEPT ![r] = q], UNCHANGED <<tables, issued, delivered>>
    PROVE  TypeOK' /\ Controlled'
  <1>1. Tokens' = Tokens
    BY DEF Tokens
  <1>2. req' \in [Requests -> Request(Tokens)]
    BY DEF TypeOK
  <1>3. Controlled'
    BY <1>2 DEF Controlled, TypeOK
  <1> QED
    BY <1>1, <1>2, <1>3 DEF TypeOK, tables

LEMMA ClientTyped ==
    ASSUME TypeOK, Controlled, NEW r \in Requests, Client(r) PROVE TypeOK' /\ Controlled'
  <1> USE DEF Granting, Ops, NoToken
  <1>1. ASSUME NEW u \in Users, Login(r, u) PROVE TypeOK' /\ Controlled'
    <2>1. Control([Idle EXCEPT !.op = "login", !.pc = "insert", !.user = {u},
                               !.token = NoToken, !.access = NoToken])
      BY DEF Control, Idle
    <2> QED
      BY <1>1, <2>1, BeginTyped DEF Login, TypeOK
  <1>2. ASSUME NEW u \in Users, DeleteUser(r, u) PROVE TypeOK' /\ Controlled'
    <2>1. Control([Idle EXCEPT !.op = "delete_user", !.pc = "deactivate", !.user = {u},
                               !.token = NoToken, !.access = NoToken])
      BY DEF Control, Idle
    <2> QED
      BY <1>2, <2>1, BeginTyped DEF DeleteUser, TypeOK
  <1>3. \A t \in delivered : t \in Tokens /\ issued[t].user \in Users
    BY IssuedToUsers DEF TypeOK
  <1>4. ASSUME NEW t \in delivered, ReadToken(r, t) PROVE TypeOK' /\ Controlled'
    <2> DEFINE u == issued[t].user
    <2>1. Control([Idle EXCEPT !.op = "refresh", !.pc = "user", !.user = {u},
                               !.token = t, !.access = NoToken])
      BY <1>3 DEF Control, Idle
    <2> QED
      BY <1>3, <1>4, <2>1, BeginTyped DEF ReadToken, TypeOK
  <1>5. ASSUME NEW a \in delivered, LogoutAll(r, a) PROVE TypeOK' /\ Controlled'
    <2> DEFINE u == issued[a].user
    <2>1. Control([Idle EXCEPT !.op = "logout_all", !.pc = "snapshot", !.user = {u},
                               !.token = NoToken, !.access = a])
      BY <1>3 DEF Control, Idle
    <2> QED
      BY <1>3, <1>5, <2>1, BeginTyped DEF LogoutAll, TypeOK
  <1>6. ASSUME NEW t \in delivered \cup {NoToken}, NEW a \in delivered \cup {NoToken},
               t # NoToken \/ a # NoToken, Logout(r, t, a)
        PROVE  TypeOK' /\ Controlled'
    <2> DEFINE u == issued[IF t # NoToken THEN t ELSE a].user
    <2>1. u \in Users /\ t \in Tokens \cup {NoToken} /\ a \in Tokens \cup {NoToken}
      BY <1>3, <1>6
    <2>2. CASE t \in refresh_tokens
      <3>1. t # NoToken
        BY <2>2, TokensArePositive DEF TypeOK
      <3>2. Begin(r, "logout", "delete", u, t, a) /\ UNCHANGED signedOut
        BY <1>6, <2>2, <3>1 DEF Logout
      <3>3. Control([Idle EXCEPT !.op = "logout", !.pc = "delete", !.user = {u},
                                 !.token = t, !.access = a])
        BY <2>1 DEF Control, Idle
      <3> QED
        BY <2>1, <3>2, <3>3, BeginTyped DEF TypeOK
    <2>3. CASE t \notin refresh_tokens
      <3>1. Begin(r, "logout", "revoke", u, NoToken, a) /\ UNCHANGED signedOut
        BY <1>6, <2>3 DEF Logout
      <3>2. Control([Idle EXCEPT !.op = "logout", !.pc = "revoke", !.user = {u},
                                 !.token = NoToken, !.access = a])
        BY <2>1 DEF Control, Idle
      <3> QED
        BY <2>1, <3>1, <3>2, BeginTyped DEF TypeOK
    <2> QED
      BY <2>2, <2>3
  <1>7. ASSUME NEW t \in delivered,
               Logout(r, t, t) \/ Logout(r, t, NoToken) \/ Logout(r, NoToken, t)
        PROVE  TypeOK' /\ Controlled'
    <2>1. t # NoToken
      BY <1>3, TokensArePositive
    <2> QED
      BY <1>6, <1>7, <2>1
  <1> QED
    BY <1>1, <1>2, <1>4, <1>5, <1>7 DEF Client

\* Statements that issue a token.
LEMMA IssueTyped ==
    ASSUME TypeOK, Controlled, NEW r \in Requests, NEW holds \in SUBSET Tokens,
           req[r].op \in Granting, Issue(r, holds), UNCHANGED <<tables, delivered>>
    PROVE  TypeOK' /\ Controlled'
  <1> DEFINE q == [req[r] EXCEPT !.pc = "touch", !.holds = holds, !.new = Len(issued')]
  <1>1. req[r].op # "none" /\ req[r] \in Request(Tokens)
    BY DEF Granting, TypeOK
  <1>2. /\ issued' \in Seq([user : Users, at : Nat])
        /\ Len(issued') \in Tokens'
        /\ Tokens \subseteq Tokens'
    BY <1>1, IssueAdds
  <1>3. req' = [req EXCEPT ![r] = q]
    <2> DEFINE n == Len(issued')
    <2>1. req' = [req EXCEPT ![r].pc = "touch", ![r].holds = holds, ![r].new = n]
      BY DEF Issue
    <2> HIDE DEF n
    <2> QED
      BY <2>1 DEF TypeOK, n
  <1>4. Request(Tokens) \subseteq Request(Tokens')
    BY <1>2, RequestGrows
  <1>5. q \in Request(Tokens')
    BY <1>1, <1>2, <1>4 DEF Request
  <1>6. Control(q)
    BY <1>1 DEF Controlled, Control, Request, Granting
  <1> HIDE DEF q
  <1>7. req' \in [Requests -> Request(Tokens')]
    BY <1>3, <1>4, <1>5 DEF TypeOK
  <1>8. Controlled'
    BY <1>3, <1>6 DEF Controlled, TypeOK
  <1> QED
    BY <1>2, <1>7, <1>8 DEF TypeOK, tables

LEMMA StatementTyped ==
    ASSUME TypeOK, Controlled, NEW r \in Requests, Step(r) PROVE TypeOK' /\ Controlled'
  <1> DEFINE was == req[r]
  <1>1. was \in Request(Tokens) /\ Control(was)
    BY DEF TypeOK, Controlled
  <1>2. ASSUME NEW q \in Request(Tokens), Control(q), req' = [req EXCEPT ![r] = q],
               UNCHANGED <<tables, issued, delivered>>
        PROVE  TypeOK' /\ Controlled'
    BY <1>2, StepTyped
  <1>3. Idle \in Request(Tokens) /\ Control(Idle)
    BY IdleIsControlled, RequestGrows
  <1>4. ASSUME ReadUser(r) PROVE TypeOK' /\ Controlled'
    <2>1. CASE req' = [req EXCEPT ![r] = [was EXCEPT !.pc = "delete"]]
      <3>1. /\ [was EXCEPT !.pc = "delete"] \in Request(Tokens)
            /\ Control([was EXCEPT !.pc = "delete"])
        BY <1>1, <1>4 DEF Request, Control, ReadUser, Runs, Ops
      <3> QED
        BY <1>2, <1>4, <2>1, <3>1 DEF ReadUser
    <2>2. CASE req' = [req EXCEPT ![r] = Idle]
      BY <1>2, <1>3, <1>4, <2>2 DEF ReadUser
    <2> QED
      BY <1>4, <2>1, <2>2 DEF ReadUser, Goto
  <1>5. ASSUME InsertToken(r) PROVE TypeOK' /\ Controlled'
    BY <1>1, <1>5, IssueTyped DEF InsertToken, Runs, Control, Request, Granting, Ops
  <1>6. ASSUME DeleteToken(r) PROVE TypeOK' /\ Controlled'
    <2> DEFINE holds == {was.token} \cap refresh_tokens
               q == [was EXCEPT !.pc = "revoke", !.holds = holds]
    <2>1. holds \in SUBSET Tokens
      BY DEF TypeOK
    <2>2. CASE was.op = "refresh"
      BY <1>6, <2>1, <2>2, IssueTyped DEF DeleteToken, Granting
    <2>3. CASE was.op # "refresh"
      <3>1. q \in Request(Tokens) /\ Control(q)
        BY <1>1, <1>6, <2>1, <2>3 DEF Request, Control, DeleteToken, Runs, Ops
      <3>2. req' = [req EXCEPT ![r] = q]
        BY <1>6, <2>3 DEF DeleteToken
      <3> QED
        BY <1>2, <1>6, <2>3, <3>1, <3>2 DEF DeleteToken
    <2> QED
      BY <2>2, <2>3
  <1>7. ASSUME SnapshotTokens(r) PROVE TypeOK' /\ Controlled'
    <2> DEFINE q == [was EXCEPT !.pc = "delete_all", !.doomed = TokensOf(r),
                                 !.raced = Overlapped(r)]
    <2>1. TokensOf(r) \in SUBSET Tokens /\ Overlapped(r) \in BOOLEAN
      BY DEF TypeOK, TokensOf, Overlapped
    <2>2. q \in Request(Tokens) /\ Control(q)
      BY <1>1, <1>7, <2>1 DEF Request, Control, SnapshotTokens, Runs, Ops
    <2> QED
      BY <1>2, <1>7, <2>2 DEF SnapshotTokens
  <1>8. ASSUME DeleteByUser(r) PROVE TypeOK' /\ Controlled'
    <2>1. PICK q \in Request(Tokens) :
             /\ req' = [req EXCEPT ![r] = q] /\ UNCHANGED <<tables, issued, delivered>>
             /\ was.pc = "delete_all"
             /\ q.op = was.op /\ q.user = was.user /\ q.token = was.token
             /\ q.access = was.access /\ q.new = was.new
             /\ q.pc \in {"delete_all", IF was.op = "logout_all" THEN "revoke" ELSE "commit"}
      BY <1>8, DeletionMoves
    <2>2. Control(q)
      BY <1>1, <2>1 DEF Request, Control, Ops
    <2> QED
      BY <1>2, <2>1, <2>2
  <1>9. ASSUME RevokeAccess(r) PROVE TypeOK' /\ Controlled'
    <2> DEFINE revokes == {x \in {was.access} \ {NoToken} : ~AccessExpired(x)}
               q == [was EXCEPT !.pc = "commit", !.revokes = revokes]
    <2>1. revokes \in SUBSET Tokens
      BY <1>1 DEF Request
    <2>2. q \in Request(Tokens) /\ Control(q)
      BY <1>1, <1>9, <2>1 DEF Request, Control, RevokeAccess, Runs, Ops
    <2> QED
      BY <1>2, <1>9, <2>2 DEF RevokeAccess
  <1>10. ASSUME TouchUser(r) PROVE TypeOK' /\ Controlled'
    <2>1. /\ [was EXCEPT !.pc = "respond", !.locksUser = TRUE] \in Request(Tokens)
          /\ Control([was EXCEPT !.pc = "respond", !.locksUser = TRUE])
      BY <1>1, <1>10 DEF Request, Control, TouchUser, Runs, Ops
    <2> QED
      BY <1>2, <1>10, <2>1 DEF TouchUser
  <1>11. ASSUME Deactivate(r) PROVE TypeOK' /\ Controlled'
    <2>1. /\ [was EXCEPT !.pc = "snapshot", !.locksUser = TRUE] \in Request(Tokens)
          /\ Control([was EXCEPT !.pc = "snapshot", !.locksUser = TRUE])
      BY <1>1, <1>11 DEF Request, Control, Deactivate, Runs, Ops
    <2> QED
      BY <1>2, <1>11, <2>1 DEF Deactivate
  <1>12. ASSUME Respond(r) PROVE TypeOK' /\ Controlled'
    <2> DEFINE q == [was EXCEPT !.pc = "commit"]
    <2>1. q \in Request(Tokens) /\ Control(q)
      BY <1>1, <1>12 DEF Request, Control, Respond, Runs, Ops
    <2>2. req' \in [Requests -> Request(Tokens)] /\ Controlled'
      BY <1>12, <2>1 DEF Respond, Goto, TypeOK, Controlled
    <2>3. delivered' \subseteq Tokens
      BY <1>1, <1>12 DEF Respond, TypeOK, Request
    <2> QED
      BY <1>12, <2>2, <2>3 DEF Respond, TypeOK, Tokens, tables
  <1>13. ASSUME Commit(r) PROVE TypeOK' /\ Controlled'
    <2>1. req' \in [Requests -> Request(Tokens)] /\ Controlled'
      BY <1>3, <1>13 DEF Commit, TypeOK, Controlled
    <2>2. /\ refresh_tokens' \subseteq Tokens /\ revoked_tokens' \subseteq Tokens
          /\ ended' \subseteq Tokens /\ spent' \subseteq Tokens
      BY <1>1, <1>13 DEF Commit, TypeOK, Request
    <2>3. signedOut' \subseteq Users /\ active' \in [Users -> BOOLEAN]
      BY <1>1, <1>13 DEF Commit, TypeOK, Request
    <2> QED
      BY <1>13, <2>1, <2>2, <2>3 DEF Commit, TypeOK, Tokens
  <1> QED
    BY <1>4, <1>5, <1>6, <1>7, <1>8, <1>9, <1>10, <1>11, <1>12, <1>13 DEF Step

LEMMA TypedStep == TypeOK /\ Controlled /\ [Next]_vars => TypeOK' /\ Controlled'
  <1> SUFFICES ASSUME TypeOK, Controlled, [Next]_vars PROVE TypeOK' /\ Controlled'
    OBVIOUS
  <1>1. Idle \in Request(Tokens) /\ Control(Idle)
    BY IdleIsControlled, RequestGrows
  <1>2. ASSUME NEW r \in Requests, Rollback(r) PROVE TypeOK' /\ Controlled'
    BY <1>1, <1>2 DEF Rollback, TypeOK, Controlled, Tokens
  <1>3. ASSUME NEW r \in Requests, DeadlockVictim(r) PROVE TypeOK' /\ Controlled'
    BY <1>1, <1>3, StepTyped DEF DeadlockVictim
  <1>4. CASE Purge
    BY <1>4 DEF Purge, TypeOK, Controlled, Tokens
  <1>5. CASE Tick
    BY <1>5 DEF Tick, TypeOK, Controlled, Tokens
  <1>6. CASE UNCHANGED vars
    BY <1>6 DEF vars, TypeOK, Controlled, Tokens
  <1> QED
    BY <1>2, <1>3, <1>4, <1>5, <1>6, ClientTyped, StatementTyped DEF Next

\* No request ever refers to a token that was not issued, or is where its operation has
\* no statement.
THEOREM SessionsTypeCorrect == Spec => []TypeOK
  <1>1. Init => TypeOK /\ Controlled
    BY InitTyped
  <1> QED
    BY <1>1, TypedStep, PTL DEF Spec

-----------------------------------------------------------------------------
(* A spent refresh token.                                                  *)

\* A token that is not committed yet is nobody else's business.
NewIsFresh ==
    \A r \in Requests : req[r].new # NoToken =>
        /\ req[r].new \notin refresh_tokens \cup spent
        /\ \A p \in Requests : req[r].new # req[p].token
        /\ \A p \in Requests \ {r} : req[r].new # req[p].new

\* A request past its DELETE deletes the token, or somebody else has done so.
TokenIsDoomed ==
    \A r \in Requests :
        req[r].pc \notin {"user", "delete"} /\ req[r].token \in refresh_tokens
        => req[r].token \in req[r].holds

SpentInv == SpentTokenRefused /\ NewIsFresh /\ TokenIsDoomed

\* Request r goes on or ends, and issues and commits nothing.
LEMMA SpentFrame ==
    ASSUME SpentInv, NEW r \in Requests, UNCHANGED <<refresh_tokens, spent>>,
           \A p \in Requests \ {r} :
               /\ req'[p].pc = req[p].pc /\ req'[p].token = req[p].token
               /\ req'[p].new = req[p].new /\ req'[p].holds = req[p].holds,
           req'[r].token \in {req[r].token, NoToken} \cup refresh_tokens,
           req'[r].new \in {req[r].new, NoToken},
           req'[r].pc \notin {"user", "delete"} /\ req'[r].token \in refresh_tokens
               => req'[r].token \in req'[r].holds
    PROVE  SpentInv'
  <1>1. SpentTokenRefused'
    BY DEF SpentInv, SpentTokenRefused
  <1>2. NewIsFresh'
    BY DEF SpentInv, NewIsFresh
  <1>3. TokenIsDoomed'
    BY DEF SpentInv, TokenIsDoomed
  <1> QED
    BY <1>1, <1>2, <1>3 DEF SpentInv

LEMMA SpentIssue ==
    ASSUME TypeOK, Controlled, SpentInv, NEW r \in Requests, NEW holds, req[r].op \in Granting,
           Issue(r, holds), UNCHANGED <<refresh_tokens, spent>>,
           req[r].token \in refresh_tokens => req[r].token \in holds
    PROVE  SpentInv'
  <1> DEFINE n == Len(issued')
  <1>1. req[r].op # "none"
    BY DEF Granting
  <1>2. n \notin Tokens /\ n # NoToken
    BY <1>1, IssueAdds
  <1>3. /\ req' = [req EXCEPT ![r].pc = "touch", ![r].holds = holds, ![r].new = n]
        /\ req \in [Requests -> Request(Tokens)]
    BY DEF Issue, TypeOK
  <1> HIDE DEF n
  <1>4. /\ req'[r].new = n /\ req'[r].token = req[r].token /\ req'[r].holds = holds
        /\ \A p \in Requests \ {r} : req'[p] = req[p]
    BY <1>3 DEF Request
  <1>5. n \notin refresh_tokens \cup spent
    BY <1>2 DEF TypeOK
  <1>6. \A p \in Requests : n # req[p].token /\ n # req[p].new
    BY <1>2 DEF TypeOK, Request
  <1>7. SpentTokenRefused'
    BY DEF SpentInv, SpentTokenRefused
  <1>8. NewIsFresh'
    BY <1>4, <1>5, <1>6 DEF SpentInv, NewIsFresh
  <1>9. TokenIsDoomed'
    BY <1>4 DEF SpentInv, TokenIsDoomed
  <1> QED
    BY <1>7, <1>8, <1>9 DEF SpentInv

LEMMA SpentCommit ==
    ASSUME TypeOK, Controlled, SpentInv, NEW r \in Requests, Commit(r)
    PROVE  SpentInv'
  <1>1. /\ req'[r] = Idle
        /\ \A p \in Requests \ {r} : req'[p] = req[p]
    BY DEF Commit, TypeOK
  <1>2. /\ refresh_tokens' = (refresh_tokens \ req[r].holds) \cup ({req[r].new} \ {NoToken})
        /\ spent' = spent \cup ({req[r].token} \ {NoToken})
        /\ req[r].pc = "commit"
    BY DEF Commit, Runs
  <1>3. req[r].token \in refresh_tokens => req[r].token \in req[r].holds
    BY <1>2 DEF SpentInv, TokenIsDoomed
  <1>4. req[r].new # NoToken => req[r].new \notin spent /\ req[r].new # req[r].token
    BY DEF SpentInv, NewIsFresh
  <1>5. SpentTokenRefused'
    BY <1>2, <1>3, <1>4 DEF SpentInv, SpentTokenRefused
  <1>6. NewIsFresh'
    BY <1>1, <1>2 DEF SpentInv, NewIsFresh, Idle, NoToken
  <1>7. TokenIsDoomed'
    <2>1. NoToken \notin refresh_tokens'
      BY <1>2, TokensArePositive DEF TypeOK
    <2>2. \A p \in Requests \ {r} : req[r].new # NoToken => req[r].new # req[p].token
      BY DEF SpentInv, NewIsFresh
    <2> QED
      BY <1>1, <1>2, <2>1, <2>2 DEF SpentInv, TokenIsDoomed, Idle
  <1> QED
    BY <1>5, <1>6, <1>7 DEF SpentInv

LEMMA SpentStep ==
    ASSUME TypeOK, Controlled, SpentInv, [Next]_vars PROVE SpentInv'
  <1>0. /\ NoToken \notin refresh_tokens
        /\ req \in [Requests -> Request(Tokens)]
    BY TokensArePositive DEF TypeOK
  <1>1. ASSUME NEW r \in Requests, NEW op, NEW pc, NEW u, NEW token, NEW access,
               Begin(r, op, pc, u, token, access),
               token \in refresh_tokens \cup {NoToken},
               token \in refresh_tokens => pc \in {"user", "delete"}
        PROVE  SpentInv'
    <2>1. /\ UNCHANGED <<refresh_tokens, spent>>
          /\ req'[r].token = token /\ req'[r].pc = pc /\ req'[r].new = NoToken
          /\ \A p \in Requests \ {r} :
               /\ req'[p].pc = req[p].pc /\ req'[p].token = req[p].token
               /\ req'[p].new = req[p].new /\ req'[p].holds = req[p].holds
      BY <1>1, BeginFills
    <2> QED
      BY <1>0, <1>1, <2>1, SpentFrame
  <1>2. ASSUME NEW r \in Requests, Client(r) PROVE SpentInv'
    <2>1. ASSUME NEW u, Login(r, u) PROVE SpentInv'
      BY <1>0, <1>1, <1>2, <2>1 DEF Login
    <2>2. ASSUME NEW u, DeleteUser(r, u) PROVE SpentInv'
      BY <1>0, <1>1, <1>2, <2>2 DEF DeleteUser
    <2>3. ASSUME NEW t, ReadToken(r, t) PROVE SpentInv'
      BY <1>0, <1>1, <1>2, <2>3 DEF ReadToken
    <2>4. ASSUME NEW a, LogoutAll(r, a) PROVE SpentInv'
      BY <1>0, <1>1, <1>2, <2>4 DEF LogoutAll
    <2>5. ASSUME NEW t, NEW a, Logout(r, t, a) PROVE SpentInv'
      BY <1>0, <1>1, <1>2, <2>5 DEF Logout
    <2> QED
      BY <1>2, <2>1, <2>2, <2>3, <2>4, <2>5 DEF Client
  <1>3. ASSUME NEW r \in Requests, NEW q, req' = [req EXCEPT ![r] = q],
               UNCHANGED <<refresh_tokens, spent>>,
               q.token \in {req[r].token, NoToken}, q.new \in {req[r].new, NoToken},
               q.pc \notin {"user", "delete"} /\ q.token \in refresh_tokens => q.token \in q.holds
        PROVE  SpentInv'
    BY <1>0, <1>3, SpentFrame
  <1>4. ASSUME NEW r \in Requests, req' = [req EXCEPT ![r] = Idle],
               UNCHANGED <<refresh_tokens, spent>>
        PROVE  SpentInv'
    BY <1>0, <1>3, <1>4 DEF Idle
  <1>5. ASSUME NEW r \in Requests, Step(r) PROVE SpentInv'
    <2> DEFINE was == req[r]
    <2>0. was \in Request(Tokens) /\ Control(was)
      BY DEF TypeOK, Controlled
    <2>1. ASSUME ReadUser(r) PROVE SpentInv'
      <3>1. CASE req' = [req EXCEPT ![r] = [was EXCEPT !.pc = "delete"]]
        BY <1>3, <2>0, <2>1, <3>1 DEF ReadUser, tables, Request
      <3>2. CASE req' = [req EXCEPT ![r] = Idle]
        BY <1>4, <2>1, <3>2 DEF ReadUser, tables
      <3> QED
        BY <2>1, <3>1, <3>2 DEF ReadUser, Goto
    <2>2. ASSUME InsertToken(r) PROVE SpentInv'
      <3>1. was.op = "login" /\ was.token = NoToken
        BY <2>0, <2>2 DEF InsertToken, Runs, Control, Request, Ops
      <3> QED
        BY <1>0, <2>2, <3>1, SpentIssue DEF InsertToken, tables, Granting
    <2>3. ASSUME DeleteToken(r) PROVE SpentInv'
      <3> DEFINE holds == {was.token} \cap refresh_tokens
                 q == [was EXCEPT !.pc = "revoke", !.holds = holds]
      <3>1. CASE was.op = "refresh"
        BY <2>3, <3>1, SpentIssue DEF DeleteToken, tables, Granting
      <3>2. CASE was.op # "refresh"
        <4>1. req' = [req EXCEPT ![r] = q]
          BY <2>3, <3>2 DEF DeleteToken
        <4>2. q.token = was.token /\ q.new = was.new /\ q.holds = holds
          BY <2>0 DEF Request
        <4> HIDE DEF q
        <4> QED
          BY <1>3, <2>3, <4>1, <4>2 DEF DeleteToken, tables
      <3> QED
        BY <3>1, <3>2
    <2>4. ASSUME NEW q, req' = [req EXCEPT ![r] = q], UNCHANGED tables,
                 q.token = was.token, q.new = was.new, q.holds = was.holds,
                 was.pc \notin {"user", "delete"}
          PROVE  SpentInv'
      BY <1>3, <2>4 DEF tables, SpentInv, TokenIsDoomed
    <2>5. ASSUME SnapshotTokens(r) PROVE SpentInv'
      <3> DEFINE q == [was EXCEPT !.pc = "delete_all", !.doomed = TokensOf(r),
                                  !.raced = Overlapped(r)]
      <3>1. q.token = was.token /\ q.new = was.new /\ q.holds = was.holds
        BY <2>0 DEF Request
      <3>2. req' = [req EXCEPT ![r] = q] /\ UNCHANGED tables /\ was.pc = "snapshot"
        BY <2>5 DEF SnapshotTokens, Runs
      <3> HIDE DEF q
      <3> QED
        BY <2>4, <3>1, <3>2
    <2>6. ASSUME DeleteByUser(r) PROVE SpentInv'
      <3>1. PICK q : /\ req' = [req EXCEPT ![r] = q] /\ UNCHANGED tables
                     /\ was.pc = "delete_all"
                     /\ q.token = was.token /\ q.new = was.new
        BY <2>6, DeletionMoves
      <3>2. was.token = NoToken
        BY <2>0, <3>1 DEF Control, Request, Ops
      <3> QED
        BY <1>0, <1>3, <3>1, <3>2 DEF tables
    <2>7. ASSUME RevokeAccess(r) PROVE SpentInv'
      <3> DEFINE q == [was EXCEPT !.pc = "commit",
                          !.revokes = {x \in {was.access} \ {NoToken} : ~AccessExpired(x)}]
      <3>1. q.token = was.token /\ q.new = was.new /\ q.holds = was.holds
        BY <2>0 DEF Request
      <3>2. req' = [req EXCEPT ![r] = q] /\ UNCHANGED tables /\ was.pc = "revoke"
        BY <2>7 DEF RevokeAccess, Runs
      <3> HIDE DEF q
      <3> QED
        BY <2>4, <3>1, <3>2
    <2>8. ASSUME TouchUser(r) PROVE SpentInv'
      <3> DEFINE q == [was EXCEPT !.pc = "respond", !.locksUser = TRUE]
      <3>1. q.token = was.token /\ q.new = was.new /\ q.holds = was.holds
        BY <2>0 DEF Request
      <3>2. req' = [req EXCEPT ![r] = q] /\ UNCHANGED tables /\ was.pc = "touch"
        BY <2>8 DEF TouchUser, Runs
      <3> HIDE DEF q
      <3> QED
        BY <2>4, <3>1, <3>2
    <2>9. ASSUME Deactivate(r) PROVE SpentInv'
      <3> DEFINE q == [was EXCEPT !.pc = "snapshot", !.locksUser = TRUE]
      <3>1. q.token = was.token /\ q.new = was.new /\ q.holds = was.holds
        BY <2>0 DEF Request
      <3>2. req' = [req EXCEPT ![r] = q] /\ UNCHANGED tables /\ was.pc = "deactivate"
        BY <2>9 DEF Deactivate, Runs
      <3> HIDE DEF q
      <3> QED
        BY <2>4, <3>1, <3>2
    <2>10. ASSUME Respond(r) PROVE SpentInv'
      <3> DEFINE q == [was EXCEPT !.pc = "commit"]
      <3>1. q.token = was.token /\ q.new = was.new /\ q.holds = was.holds
        BY <2>0 DEF Request
      <3>2. req' = [req EXCEPT ![r] = q] /\ UNCHANGED tables /\ was.pc = "respond"
        BY <2>10 DEF Respond, Runs, Goto
      <3> HIDE DEF q
      <3> QED
        BY <2>4, <3>1, <3>2
    <2> QED
      BY <1>5, <2>1, <2>2, <2>3, <2>5, <2>6, <2>7, <2>8, <2>9, <2>10, SpentCommit DEF Step
  <1>6. ASSUME NEW r \in Requests, Rollback(r) \/ DeadlockVictim(r) PROVE SpentInv'
    BY <1>4, <1>6 DEF Rollback, DeadlockVictim, tables
  <1>7. CASE Purge \/ Tick \/ UNCHANGED vars
    BY <1>7 DEF Purge, Tick, vars, SpentInv, SpentTokenRefused, NewIsFresh, TokenIsDoomed
  <1> QED
    BY <1>2, <1>5, <1>6, <1>7 DEF Next

\* A refresh token that a committed refresh or logout was given has no row and never gets
\* one again, for any number of requests that present it at the same time.
THEOREM SpentTokensStayRefused == Spec => []SpentTokenRefused
  <1>1. Init => TypeOK /\ Controlled /\ SpentInv
    <2> SUFFICES ASSUME Init PROVE TypeOK /\ Controlled /\ SpentInv
      OBVIOUS
    <2>1. NoToken \notin refresh_tokens
      BY InitTyped, TokensArePositive DEF TypeOK
    <2>2. \A r \in Requests : req[r].new = NoToken /\ req[r].token = NoToken
      BY DEF Init, Idle
    <2>3. spent = {}
      BY DEF Init
    <2> QED
      BY InitTyped, <2>1, <2>2, <2>3 DEF SpentInv, SpentTokenRefused, NewIsFresh, TokenIsDoomed
  <1>2. TypeOK /\ Controlled /\ SpentInv /\ [Next]_vars => TypeOK' /\ Controlled' /\ SpentInv'
    BY TypedStep, SpentStep
  <1>3. SpentInv => SpentTokenRefused
    BY DEF SpentInv
  <1> QED
    BY <1>1, <1>2, <1>3, PTL DEF Spec

-----------------------------------------------------------------------------
(* An ended access token.                                                  *)

\* Tokens stay as they were issued, and time passes.
LEMMA IssuedStays ==
    ASSUME TypeOK, Controlled, [Next]_vars
    PROVE  /\ \A t \in Tokens : t \in Tokens' /\ issued'[t] = issued[t]
           /\ now' \in Nat /\ now <= now'
  <1> USE DEF TypeOK
  <1>1. ASSUME NEW r \in Requests, NEW op, NEW pc, NEW u, NEW token, NEW access,
               Begin(r, op, pc, u, token, access)
        PROVE  UNCHANGED <<issued, now>>
    BY <1>1 DEF Begin
  <1>2. ASSUME NEW r \in Requests, Client(r) PROVE UNCHANGED <<issued, now>>
    <2>1. ASSUME NEW u, Login(r, u) PROVE UNCHANGED <<issued, now>>
      BY <1>1, <1>2, <2>1 DEF Login
    <2>2. ASSUME NEW u, DeleteUser(r, u) PROVE UNCHANGED <<issued, now>>
      BY <1>1, <1>2, <2>2 DEF DeleteUser
    <2>3. ASSUME NEW t, ReadToken(r, t) PROVE UNCHANGED <<issued, now>>
      BY <1>1, <1>2, <2>3 DEF ReadToken
    <2>4. ASSUME NEW a, LogoutAll(r, a) PROVE UNCHANGED <<issued, now>>
      BY <1>1, <1>2, <2>4 DEF LogoutAll
    <2>5. ASSUME NEW t, NEW a, Logout(r, t, a) PROVE UNCHANGED <<issued, now>>
      BY <1>1, <1>2, <2>5 DEF Logout
    <2> QED
      BY <1>2, <2>1, <2>2, <2>3, <2>4, <2>5 DEF Client
  <1>3. ASSUME NEW r \in Requests, NEW holds, req[r].op # "none", Issue(r, holds),
               UNCHANGED now
        PROVE  /\ \A t \in Tokens : t \in Tokens' /\ issued'[t] = issued[t]
               /\ now' \in Nat /\ now <= now'
    BY <1>3, IssueAdds
  <1>4. ASSUME NEW r \in Requests, InsertToken(r) \/ DeleteToken(r)
        PROVE  /\ \A t \in Tokens : t \in Tokens' /\ issued'[t] = issued[t]
               /\ now' \in Nat /\ now <= now'
    <2>1. req[r].op # "none"
      BY <1>4 DEF InsertToken, DeleteToken, Runs, Controlled, Control
    <2>2. UNCHANGED now /\ (UNCHANGED issued \/ \E holds : Issue(r, holds))
      BY <1>4 DEF InsertToken, DeleteToken, tables
    <2> QED
      BY <1>3, <2>1, <2>2 DEF Tokens
  <1>5. ASSUME NEW r \in Requests,
               \/ ReadUser(r) \/ SnapshotTokens(r) \/ DeleteByUser(r) \/ RevokeAccess(r)
               \/ TouchUser(r) \/ Deactivate(r) \/ Respond(r) \/ Commit(r)
               \/ Rollback(r) \/ DeadlockVictim(r)
        PROVE  UNCHANGED <<issued, now>>
    BY <1>5 DEF ReadUser, SnapshotTokens, DeleteByUser, RevokeAccess, TouchUser, Deactivate,
         Respond, Commit, Rollback, DeadlockVictim, tables
  <1>6. ASSUME Purge \/ Tick \/ UNCHANGED vars
        PROVE  UNCHANGED issued /\ now' \in Nat /\ now <= now'
    BY <1>6 DEF Purge, Tick, vars
  <1> QED
    BY <1>2, <1>4, <1>5, <1>6 DEF Next, Step, Tokens

Expired == {a \in Tokens : AccessExpired(a)}

\* What a logout was given has expired or has its row, or will have it with the commit.
EndedInv ==
    /\ ended \subseteq revoked_tokens \cup Expired
    /\ \A r \in Requests : req[r].pc = "commit" /\ req[r].access # NoToken =>
          req[r].access \in req[r].revokes \cup Expired

LEMMA ExpiredStays ==
    ASSUME TypeOK, Controlled, [Next]_vars PROVE Expired \subseteq Expired'
  <1> SUFFICES ASSUME NEW a \in Expired PROVE a \in Expired'
    OBVIOUS
  <1>0. a \in Tokens /\ issued[a].at + AccessTTL <= now
    BY DEF Expired, AccessExpired
  <1>1. a \in Tokens' /\ issued'[a] = issued[a] /\ now <= now' /\ now \in Nat /\ now' \in Nat
    BY <1>0, IssuedStays DEF TypeOK
  <1>2. issued[a].at \in Nat /\ AccessTTL \in Nat
    BY <1>0, IssuedToUsers, SessionsAssumption
  <1> QED
    BY <1>0, <1>1, <1>2 DEF Expired, AccessExpired

\* A request that goes on, ends or begins without a commit.
LEMMA EndedFrame ==
    ASSUME EndedInv, Expired \subseteq Expired', NEW r \in Requests,
           UNCHANGED <<revoked_tokens, ended>>,
           \A p \in Requests \ {r} :
               /\ req'[p].pc = req[p].pc /\ req'[p].access = req[p].access
               /\ req'[p].revokes = req[p].revokes,
           req'[r].pc = "commit" /\ req'[r].access # NoToken =>
               req'[r].access \in req'[r].revokes \cup Expired
    PROVE  EndedInv'
  BY DEF EndedInv

LEMMA EndedStep ==
    ASSUME TypeOK, Controlled, EndedInv, [Next]_vars PROVE EndedInv'
  <1>0. req \in [Requests -> Request(Tokens)] /\ Expired \subseteq Expired'
    BY ExpiredStays DEF TypeOK
  <1>1. ASSUME NEW r \in Requests, NEW op, NEW pc, NEW u, NEW token, NEW access,
               Begin(r, op, pc, u, token, access), pc # "commit"
        PROVE  EndedInv'
    <2>1. /\ UNCHANGED <<revoked_tokens, ended>>
          /\ req'[r].pc = pc
          /\ \A p \in Requests \ {r} :
               /\ req'[p].pc = req[p].pc /\ req'[p].access = req[p].access
               /\ req'[p].revokes = req[p].revokes
      BY <1>1, BeginFills
    <2> QED
      BY <1>0, <1>1, <2>1, EndedFrame
  <1>2. ASSUME NEW r \in Requests, Client(r) PROVE EndedInv'
    <2>1. ASSUME NEW u, Login(r, u) PROVE EndedInv'
      BY <1>1, <1>2, <2>1 DEF Login
    <2>2. ASSUME NEW u, DeleteUser(r, u) PROVE EndedInv'
      BY <1>1, <1>2, <2>2 DEF DeleteUser
    <2>3. ASSUME NEW t, ReadToken(r, t) PROVE EndedInv'
      BY <1>1, <1>2, <2>3 DEF ReadToken
    <2>4. ASSUME NEW a, LogoutAll(r, a) PROVE EndedInv'
      BY <1>1, <1>2, <2>4 DEF LogoutAll
    <2>5. ASSUME NEW t, NEW a, Logout(r, t, a) PROVE EndedInv'
      BY <1>1, <1>2, <2>5 DEF Logout
    <2> QED
      BY <1>2, <2>1, <2>2, <2>3, <2>4, <2>5 DEF Client
  <1>3. ASSUME NEW r \in Requests, NEW q, req' = [req EXCEPT ![r] = q],
               UNCHANGED <<revoked_tokens, ended>>,
               q.pc = "commit" /\ q.access # NoToken => q.access \in q.revokes \cup Expired
        PROVE  EndedInv'
    BY <1>0, <1>3, EndedFrame
  <1>4. ASSUME NEW r \in Requests, NEW holds, Issue(r, holds), UNCHANGED <<revoked_tokens, ended>>
        PROVE  EndedInv'
    <2>1. req'[r].pc = "touch" /\ \A p \in Requests \ {r} : req'[p] = req[p]
      BY <1>0, <1>4 DEF Issue, Request
    <2> QED
      BY <1>0, <1>4, <2>1, EndedFrame
  <1>5. ASSUME NEW r \in Requests, Step(r) PROVE EndedInv'
    <2> DEFINE was == req[r]
    <2>0. was \in Request(Tokens) /\ Control(was)
      BY DEF TypeOK, Controlled
    <2>1. ASSUME NEW q, req' = [req EXCEPT ![r] = q], UNCHANGED tables, q.pc # "commit"
          PROVE  EndedInv'
      BY <1>3, <2>1 DEF tables
    <2>2. ASSUME NEW pc, req' = [req EXCEPT ![r].pc = pc], UNCHANGED tables,
                 pc = "commit" => was.access = NoToken
          PROVE  EndedInv'
      <3>1. [was EXCEPT !.pc = pc].pc = pc /\ [was EXCEPT !.pc = pc].access = was.access
        BY <2>0 DEF Request
      <3>2. req' = [req EXCEPT ![r] = [was EXCEPT !.pc = pc]]
        BY <1>0, <2>2
      <3> QED
        BY <1>3, <2>2, <3>1, <3>2 DEF tables
    <2>3. ASSUME ReadUser(r) PROVE EndedInv'
      <3>1. CASE Goto(r, "delete")
        BY <2>2, <2>3, <3>1 DEF ReadUser, Goto
      <3>2. CASE req' = [req EXCEPT ![r] = Idle]
        <4>1. Idle.pc # "commit"
          BY DEF Idle
        <4> QED
          BY <2>1, <2>3, <3>2, <4>1 DEF ReadUser
      <3> QED
        BY <2>3, <3>1, <3>2 DEF ReadUser
    <2>4. ASSUME InsertToken(r) PROVE EndedInv'
      BY <1>4, <2>4 DEF InsertToken, tables
    <2>5. ASSUME DeleteToken(r) PROVE EndedInv'
      <3> DEFINE holds == {was.token} \cap refresh_tokens
                 q == [was EXCEPT !.pc = "revoke", !.holds = holds]
      <3>1. CASE was.op = "refresh"
        BY <1>4, <2>5, <3>1 DEF DeleteToken, tables
      <3>2. CASE was.op # "refresh"
        <4>1. req' = [req EXCEPT ![r] = q]
          BY <2>5, <3>2 DEF DeleteToken
        <4>2. q.pc = "revoke"
          BY <2>0 DEF Request
        <4> HIDE DEF q
        <4> QED
          BY <2>1, <2>5, <4>1, <4>2 DEF DeleteToken
      <3> QED
        BY <3>1, <3>2
    <2>6. ASSUME SnapshotTokens(r) PROVE EndedInv'
      <3> DEFINE q == [was EXCEPT !.pc = "delete_all", !.doomed = TokensOf(r),
                                  !.raced = Overlapped(r)]
      <3>1. q.pc = "delete_all" /\ req' = [req EXCEPT ![r] = q]
        BY <2>0, <2>6 DEF Request, SnapshotTokens
      <3> HIDE DEF q
      <3> QED
        BY <2>1, <2>6, <3>1 DEF SnapshotTokens
    <2>7. ASSUME DeleteByUser(r) PROVE EndedInv'
      <3>1. PICK q : /\ req' = [req EXCEPT ![r] = q] /\ UNCHANGED tables
                     /\ was.pc = "delete_all" /\ q.access = was.access
                     /\ q.pc \in {"delete_all", IF was.op = "logout_all" THEN "revoke" ELSE "commit"}
        BY <2>7, DeletionMoves
      <3>2. q.pc = "commit" => was.access = NoToken
        BY <2>0, <3>1 DEF Control, Request, Ops
      <3> QED
        BY <1>3, <3>1, <3>2 DEF tables
    <2>8. ASSUME RevokeAccess(r) PROVE EndedInv'
      <3> DEFINE revokes == {x \in {was.access} \ {NoToken} : ~AccessExpired(x)}
                 q == [was EXCEPT !.pc = "commit", !.revokes = revokes]
      <3>1. q.access = was.access /\ q.revokes = revokes /\ req' = [req EXCEPT ![r] = q]
        BY <2>0, <2>8 DEF Request, RevokeAccess
      <3>2. was.access # NoToken => was.access \in revokes \cup Expired
        BY <2>0 DEF Request, Expired
      <3> HIDE DEF q, revokes
      <3> QED
        BY <1>3, <2>8, <3>1, <3>2 DEF RevokeAccess, tables
    <2>9. ASSUME TouchUser(r) PROVE EndedInv'
      <3> DEFINE q == [was EXCEPT !.pc = "respond", !.locksUser = TRUE]
      <3>1. q.pc = "respond" /\ req' = [req EXCEPT ![r] = q]
        BY <2>0, <2>9 DEF Request, TouchUser
      <3> HIDE DEF q
      <3> QED
        BY <2>1, <2>9, <3>1 DEF TouchUser
    <2>10. ASSUME Deactivate(r) PROVE EndedInv'
      <3> DEFINE q == [was EXCEPT !.pc = "snapshot", !.locksUser = TRUE]
      <3>1. q.pc = "snapshot" /\ req' = [req EXCEPT ![r] = q]
        BY <2>0, <2>10 DEF Request, Deactivate
      <3> HIDE DEF q
      <3> QED
        BY <2>1, <2>10, <3>1 DEF Deactivate
    <2>11. ASSUME Respond(r) PROVE EndedInv'
      <3>1. was.access = NoToken
        BY <2>0, <2>11 DEF Respond, Runs, Control
      <3> QED
        BY <2>2, <2>11, <3>1 DEF Respond, Goto
    <2>12. ASSUME Commit(r) PROVE EndedInv'
      <3>1. req'[r] = Idle /\ \A p \in Requests \ {r} : req'[p] = req[p]
        BY <1>0, <2>12 DEF Commit
      <3>2. /\ revoked_tokens' = revoked_tokens \cup was.revokes
            /\ ended' = ended \cup ({was.access} \ {NoToken})
            /\ was.pc = "commit"
        BY <2>12 DEF Commit, Runs
      <3> QED
        BY <1>0, <3>1, <3>2 DEF EndedInv, Idle
    <2> QED
      BY <1>5, <2>3, <2>4, <2>5, <2>6, <2>7, <2>8, <2>9, <2>10, <2>11, <2>12 DEF Step
  <1>6. ASSUME NEW r \in Requests, Rollback(r) \/ DeadlockVictim(r) PROVE EndedInv'
    BY <1>3, <1>6 DEF Rollback, DeadlockVictim, tables, Idle
  <1>7. CASE Purge
    <2>1. ASSUME NEW a \in revoked_tokens, a \notin revoked_tokens' PROVE a \in Expired
      <3>1. a \in Tokens /\ issued[a].at \in Nat /\ now \in Nat /\ AccessTTL \in Nat
        BY IssuedToUsers, SessionsAssumption DEF TypeOK
      <3>2. ~(issued[a].at + AccessTTL >= now)
        BY <1>7, <2>1 DEF Purge
      <3> QED
        BY <3>1, <3>2 DEF Expired, AccessExpired
    <2> QED
      BY <1>0, <1>7, <2>1 DEF Purge, EndedInv
  <1>8. CASE Tick \/ UNCHANGED vars
    BY <1>0, <1>8 DEF Tick, vars, EndedInv
  <1> QED
    BY <1>2, <1>5, <1>6, <1>7, <1>8 DEF Next

\* An access token that a logout was given, or whose user is not active, is refused by
\* both services for good: a row is purged only when the token has expired.
THEOREM EndedAccessStaysRefused == Spec => []EndedAccessRefused
  <1>1. Init => TypeOK /\ Controlled /\ EndedInv
    BY InitTyped DEF Init, EndedInv, Idle
  <1>2. TypeOK /\ Controlled /\ EndedInv /\ [Next]_vars => TypeOK' /\ Controlled' /\ EndedInv'
    BY TypedStep, EndedStep
  <1>3. EndedInv => EndedAccessRefused
    BY DEF EndedInv, EndedAccessRefused, ApiAccepts, IngestionAccepts, Expired
  <1> QED
    BY <1>1, <1>2, <1>3, PTL DEF Spec

-----------------------------------------------------------------------------
(* The end of all sessions.                                                *)

NewIsOwn ==
    \A r \in Requests : req[r].new # NoToken => req[r].user = {issued[req[r].new].user}

\* Nobody has, or is about to get, a refresh token of the user.
Closed(u) ==
    /\ \A t \in refresh_tokens : issued[t].user # u
    /\ \A r \in Requests : req[r].op \in Granting => u \notin req[r].user

\* A request that has not been overlapped since its snapshot deletes every token there is,
\* or has deleted it.
DeletesAll(r) ==
    /\ \A p \in Requests \ {r} : req[p].op \in Granting => req[p].user # req[r].user
    /\ TokensOf(r) \subseteq
          req[r].holds \cup IF req[r].pc = "delete_all" THEN req[r].doomed ELSE {}

ClosingInv ==
    /\ NewIsOwn
    /\ \A u \in signedOut : Closed(u)
    /\ \A r \in Requests :
          req[r].op \in {"logout_all", "delete_user"}
          /\ req[r].pc \in {"delete_all", "revoke", "commit"} /\ ~req[r].raced
          => DeletesAll(r)

LEMMA ClosingBegin ==
    ASSUME TypeOK, Controlled, ClosingInv, NEW r \in Requests, NEW op, NEW pc,
           NEW u \in Users, NEW token, NEW access,
           Begin(r, op, pc, u, token, access), pc \notin {"delete_all", "commit"},
           op \in {"logout_all", "delete_user"} => pc # "revoke",
           signedOut' \subseteq signedOut, op \in Granting => u \notin signedOut'
    PROVE  ClosingInv'
  <1>1. /\ req'[r].op = op /\ req'[r].pc = pc /\ req'[r].new = NoToken /\ req'[r].user = {u}
        /\ UNCHANGED <<refresh_tokens, issued>>
        /\ req \in [Requests -> Request(Tokens)]
    BY BeginFills DEF TypeOK
  <1>2. ASSUME NEW p \in Requests \ {r}
        PROVE  /\ req'[p].op = req[p].op /\ req'[p].pc = req[p].pc /\ req'[p].new = req[p].new
               /\ req'[p].user = req[p].user /\ req'[p].doomed = req[p].doomed
               /\ req'[p].holds = req[p].holds
               /\ req'[p].raced = (req[p].raced \/ (op \in Granting /\ req[p].user = {u}))
    BY <1>2, BeginFills
  <1>3. NewIsOwn'
    BY <1>1, <1>2 DEF ClosingInv, NewIsOwn
  <1>4. ASSUME NEW v \in signedOut' PROVE Closed(v)'
    <2>1. Closed(v)
      BY <1>4 DEF ClosingInv
    <2>2. op \in Granting => v # u
      BY <1>4
    <2> QED
      BY <1>1, <1>2, <2>1, <2>2 DEF Closed
  <1>5. ASSUME NEW p \in Requests, req'[p].op \in {"logout_all", "delete_user"},
               req'[p].pc \in {"delete_all", "revoke", "commit"}, ~req'[p].raced
        PROVE  DeletesAll(p)'
    <2>1. p # r
      BY <1>1, <1>5
    <2>2. DeletesAll(p) /\ (op \in Granting => req[p].user # {u})
      BY <1>2, <1>5, <2>1 DEF ClosingInv
    <2>3. TokensOf(p)' = TokensOf(p)
      BY <1>1, <1>2, <2>1 DEF TokensOf
    <2>4. \A s \in Requests \ {p} : req'[s].op \in Granting => req'[s].user # req'[p].user
      BY <1>1, <1>2, <2>1, <2>2 DEF DeletesAll
    <2> QED
      BY <1>2, <2>1, <2>2, <2>3, <2>4 DEF DeletesAll
  <1> QED
    BY <1>3, <1>4, <1>5 DEF ClosingInv

\* Request r goes on or ends and commits nothing.
LEMMA ClosingFrame ==
    ASSUME TypeOK, ClosingInv, NEW r \in Requests, NEW q, req' = [req EXCEPT ![r] = q],
           UNCHANGED <<refresh_tokens, signedOut>>,
           \A t \in Tokens : issued'[t] = issued[t],
           q.op \in {req[r].op, "none"}, q.op # "none" => q.user = req[r].user,
           q.new # NoToken => q.user = {issued'[q.new].user},
           q.op \in {"logout_all", "delete_user"}
               /\ q.pc \in {"delete_all", "revoke", "commit"} /\ ~q.raced
               => DeletesAll(r)'
    PROVE  ClosingInv'
  <1>1. /\ req'[r] = q
        /\ \A p \in Requests \ {r} : req'[p] = req[p]
        /\ refresh_tokens \subseteq Tokens
        /\ \A p \in Requests : req[p] \in Request(Tokens)
    BY DEF TypeOK
  <1>2. NewIsOwn'
    <2>1. \A p \in Requests : req[p].new # NoToken => req[p].new \in Tokens
      BY <1>1 DEF Request
    <2> QED
      BY <1>1, <2>1 DEF ClosingInv, NewIsOwn
  <1>3. ASSUME NEW v \in signedOut' PROVE Closed(v)'
    <2>1. Closed(v)
      BY <1>3 DEF ClosingInv
    <2> QED
      BY <1>1, <2>1 DEF Closed, Granting
  <1>4. ASSUME NEW p \in Requests \ {r}, req[p].op \in {"logout_all", "delete_user"},
               req[p].pc \in {"delete_all", "revoke", "commit"}, ~req[p].raced
        PROVE  DeletesAll(p)'
    <2>1. DeletesAll(p)
      BY <1>4 DEF ClosingInv
    <2>2. TokensOf(p)' = TokensOf(p)
      BY <1>1 DEF TokensOf
    <2> QED
      BY <1>1, <2>1, <2>2 DEF DeletesAll, Granting
  <1> QED
    BY <1>1, <1>2, <1>3, <1>4 DEF ClosingInv

LEMMA ClosingCommit ==
    ASSUME TypeOK, Controlled, ClosingInv, NEW r \in Requests, Commit(r)
    PROVE  ClosingInv'
  <1> DEFINE was == req[r]
  <1>1. /\ req'[r] = Idle
        /\ \A p \in Requests \ {r} : req'[p] = req[p]
        /\ refresh_tokens' = (refresh_tokens \ was.holds) \cup ({was.new} \ {NoToken})
        /\ was.pc = "commit"
        /\ UNCHANGED issued
    BY DEF Commit, Runs, TypeOK
  <1>2. was \in Request(Tokens) /\ Control(was)
    BY DEF TypeOK, Controlled
  <1>3. was.new # NoToken => was.op \in Granting /\ was.user = {issued[was.new].user}
    BY <1>2 DEF ClosingInv, NewIsOwn, Control
  <1>4. NewIsOwn'
    BY <1>1 DEF ClosingInv, NewIsOwn, Idle
  <1>5. ASSUME NEW v \in signedOut PROVE Closed(v)'
    <2>1. Closed(v)
      BY <1>5 DEF ClosingInv
    <2>2. was.new # NoToken => issued[was.new].user # v
      BY <1>3, <2>1 DEF Closed
    <2> QED
      BY <1>1, <2>1, <2>2 DEF Closed, Idle, Granting
  <1>6. ASSUME was.op \in {"logout_all", "delete_user"}, ~was.raced, NEW v \in was.user
        PROVE  Closed(v)'
    <2>1. DeletesAll(r)
      BY <1>1, <1>6 DEF ClosingInv
    <2>2. was.user = {v} /\ was.new = NoToken
      BY <1>2, <1>6 DEF Control, Granting
    <2>3. \A p \in Requests : req'[p].op \in Granting => v \notin req'[p].user
      <3>1. SUFFICES ASSUME NEW p \in Requests \ {r}, req[p].op \in Granting
                     PROVE  v \notin req[p].user
        BY <1>1 DEF Idle, Granting
      <3>2. req[p].user # {v}
        BY <2>1, <2>2, <3>1 DEF DeletesAll
      <3>3. \E u \in Users : req[p].user = {u}
        BY <3>1 DEF Controlled, Control, Granting
      <3> QED
        BY <3>2, <3>3
    <2>4. \A t \in refresh_tokens' : issued[t].user # v
      BY <1>1, <2>1, <2>2 DEF DeletesAll, TokensOf
    <2> QED
      BY <1>1, <2>3, <2>4 DEF Closed
  <1>7. \A u \in signedOut' : Closed(u)'
    BY <1>5, <1>6 DEF Commit
  <1>8. ASSUME NEW p \in Requests \ {r}, req[p].op \in {"logout_all", "delete_user"},
               req[p].pc \in {"delete_all", "revoke", "commit"}, ~req[p].raced
        PROVE  DeletesAll(p)'
    <2>1. DeletesAll(p)
      BY <1>8 DEF ClosingInv
    <2>2. TokensOf(p)' \subseteq TokensOf(p)
      <3>1. ASSUME was.new # NoToken PROVE issued[was.new].user \notin req[p].user
        <4>1. was.user # req[p].user
          BY <1>3, <2>1, <3>1 DEF DeletesAll
        <4>2. \E u \in Users : req[p].user = {u}
          BY <1>8 DEF Controlled, Control
        <4> QED
          BY <1>3, <3>1, <4>1, <4>2
      <3> QED
        BY <1>1, <3>1 DEF TokensOf
    <2> QED
      BY <1>1, <2>1, <2>2 DEF DeletesAll, Idle, Granting
  <1> QED
    BY <1>1, <1>4, <1>7, <1>8 DEF ClosingInv, Idle

LEMMA ClosingClient ==
    ASSUME TypeOK, Controlled, ClosingInv, NEW r \in Requests, Client(r)
    PROVE  ClosingInv'
  <1> USE DEF Granting
  <1>1. \A t \in delivered : t \in Tokens /\ issued[t].user \in Users
    BY IssuedToUsers DEF TypeOK
  <1>2. ASSUME NEW u \in Users, Login(r, u) PROVE ClosingInv'
    BY <1>2, ClosingBegin DEF Login
  <1>3. ASSUME NEW u \in Users, DeleteUser(r, u) PROVE ClosingInv'
    BY <1>3, ClosingBegin DEF DeleteUser
  <1>4. ASSUME NEW t \in delivered, ReadToken(r, t) PROVE ClosingInv'
    <2>1. issued[t].user \notin signedOut
      BY <1>4 DEF ReadToken, ClosingInv, Closed
    <2> QED
      BY <1>1, <1>4, <2>1, ClosingBegin DEF ReadToken
  <1>5. ASSUME NEW a \in delivered, LogoutAll(r, a) PROVE ClosingInv'
    BY <1>1, <1>5, ClosingBegin DEF LogoutAll
  <1>6. ASSUME NEW t \in delivered \cup {NoToken}, NEW a \in delivered \cup {NoToken},
               t # NoToken \/ a # NoToken, Logout(r, t, a)
        PROVE  ClosingInv'
    <2> DEFINE u == issued[IF t # NoToken THEN t ELSE a].user
    <2>1. u \in Users
      BY <1>1, <1>6
    <2>2. t \in refresh_tokens => t # NoToken
      BY TokensArePositive DEF TypeOK
    <2>3. \/ Begin(r, "logout", "delete", u, t, a)
          \/ Begin(r, "logout", "revoke", u, NoToken, a)
      BY <1>6, <2>2 DEF Logout
    <2>4. UNCHANGED signedOut
      BY <1>6 DEF Logout
    <2> HIDE DEF u
    <2> QED
      BY <2>1, <2>3, <2>4, ClosingBegin
  <1>7. ASSUME NEW t \in delivered,
               Logout(r, t, t) \/ Logout(r, t, NoToken) \/ Logout(r, NoToken, t)
        PROVE  ClosingInv'
    <2>1. t # NoToken
      BY <1>1, TokensArePositive
    <2> QED
      BY <1>6, <1>7, <2>1
  <1> QED
    BY <1>2, <1>3, <1>4, <1>5, <1>7 DEF Client

LEMMA ClosingStatement ==
    ASSUME TypeOK, Controlled, ClosingInv, [Next]_vars, NEW r \in Requests, Step(r)
    PROVE  ClosingInv'
  <1> DEFINE was == req[r]
  <1>0. /\ was \in Request(Tokens) /\ Control(was)
        /\ \A t \in Tokens : issued'[t] = issued[t]
        /\ req \in [Requests -> Request(Tokens)]
    BY IssuedStays DEF TypeOK, Controlled
  <1>1. ASSUME NEW q, req' = [req EXCEPT ![r] = q], UNCHANGED <<tables, issued>>,
               q.op = was.op, q.user = was.user, q.new = was.new,
               q.op \in {"logout_all", "delete_user"}
                 /\ q.pc \in {"delete_all", "revoke", "commit"} /\ ~q.raced
                 => DeletesAll(r)'
        PROVE  ClosingInv'
    <2>1. q.new # NoToken => q.user = {issued'[q.new].user}
      BY <1>1 DEF ClosingInv, NewIsOwn
    <2> QED
      BY <1>0, <1>1, <2>1, ClosingFrame DEF tables
  <1>2. ASSUME req' = [req EXCEPT ![r] = Idle], UNCHANGED <<tables, issued>>
        PROVE  ClosingInv'
    <2>1. Idle.op = "none" /\ Idle.new = NoToken
      BY DEF Idle
    <2> QED
      BY <1>0, <1>2, <2>1, ClosingFrame DEF tables
  <1>3. ASSUME NEW holds, Issue(r, holds), was.op \in Granting, UNCHANGED tables
        PROVE  ClosingInv'
    <2> DEFINE n == Len(issued')
               q == [was EXCEPT !.pc = "touch", !.holds = holds, !.new = n]
    <2>1. was.user = {issued'[n].user}
      BY <1>3, IssueAdds DEF Granting
    <2>2. req' = [req EXCEPT ![r].pc = "touch", ![r].holds = holds, ![r].new = n]
      BY <1>3 DEF Issue
    <2> HIDE DEF n
    <2>3. /\ req' = [req EXCEPT ![r] = q]
          /\ q.op = was.op /\ q.user = was.user /\ q.new = n
      BY <1>0, <2>2 DEF Request
    <2> HIDE DEF q
    <2> QED
      BY <1>0, <1>3, <2>1, <2>3, ClosingFrame DEF tables, Granting
  <1>4. ASSUME ReadUser(r) PROVE ClosingInv'
    <2> DEFINE q == [was EXCEPT !.pc = "delete"]
    <2>1. q.op = was.op /\ q.user = was.user /\ q.new = was.new /\ q.pc = "delete"
      BY <1>0 DEF Request
    <2>2. req' = [req EXCEPT ![r] = q] \/ req' = [req EXCEPT ![r] = Idle]
      BY <1>0, <1>4 DEF ReadUser, Goto, Request
    <2> HIDE DEF q
    <2> QED
      BY <1>1, <1>2, <1>4, <2>1, <2>2 DEF ReadUser
  <1>5. ASSUME InsertToken(r) PROVE ClosingInv'
    BY <1>0, <1>3, <1>5 DEF InsertToken, Runs, Control, Request, Ops, Granting
  <1>6. ASSUME DeleteToken(r) PROVE ClosingInv'
    <2> DEFINE q == [was EXCEPT !.pc = "revoke", !.holds = {was.token} \cap refresh_tokens]
    <2>1. CASE was.op = "refresh"
      BY <1>3, <1>6, <2>1 DEF DeleteToken, Granting
    <2>2. CASE was.op # "refresh"
      <3>1. q.op = was.op /\ q.user = was.user /\ q.new = was.new
        BY <1>0 DEF Request
      <3>2. req' = [req EXCEPT ![r] = q] /\ was.op \notin {"logout_all", "delete_user"}
        BY <1>0, <1>6, <2>2 DEF DeleteToken, Runs, Control
      <3> HIDE DEF q
      <3> QED
        BY <1>1, <1>6, <2>2, <3>1, <3>2 DEF DeleteToken
    <2> QED
      BY <2>1, <2>2
  <1>7. ASSUME SnapshotTokens(r) PROVE ClosingInv'
    <2> DEFINE q == [was EXCEPT !.pc = "delete_all", !.doomed = TokensOf(r),
                                !.raced = Overlapped(r)]
    <2>1. /\ q.op = was.op /\ q.user = was.user /\ q.new = was.new
          /\ q.pc = "delete_all" /\ q.doomed = TokensOf(r) /\ q.raced = Overlapped(r)
          /\ req' = [req EXCEPT ![r] = q]
      BY <1>0, <1>7 DEF Request, SnapshotTokens
    <2> HIDE DEF q
    <2>2. TokensOf(r)' = TokensOf(r)
      BY <1>0, <1>7, <2>1 DEF TokensOf, SnapshotTokens, tables
    <2>3. ~Overlapped(r) => DeletesAll(r)'
      BY <1>0, <2>1, <2>2 DEF DeletesAll, Overlapped
    <2> QED
      BY <1>1, <1>7, <2>1, <2>3 DEF SnapshotTokens
  <1>8. ASSUME NEW q, req' = [req EXCEPT ![r] = q], UNCHANGED <<tables, issued>>,
               q.op = was.op, q.user = was.user, q.new = was.new, q.raced = was.raced,
               was.pc \in {"delete_all", "revoke"},
               TokensOf(r) \subseteq was.holds
                                 \cup (IF was.pc = "delete_all" THEN was.doomed ELSE {})
                 => TokensOf(r) \subseteq q.holds
                                      \cup (IF q.pc = "delete_all" THEN q.doomed ELSE {})
        PROVE  ClosingInv'
    <2>1. ASSUME was.op \in {"logout_all", "delete_user"}, ~was.raced PROVE DeletesAll(r)'
      <3>1. DeletesAll(r)
        BY <1>8, <2>1 DEF ClosingInv
      <3>2. TokensOf(r)' = TokensOf(r)
        BY <1>0, <1>8 DEF TokensOf, tables
      <3>3. TokensOf(r) \subseteq q.holds \cup (IF q.pc = "delete_all" THEN q.doomed ELSE {})
        BY <1>8, <3>1 DEF DeletesAll
      <3> QED
        BY <1>0, <1>8, <3>1, <3>2, <3>3 DEF DeletesAll
    <2> QED
      BY <1>1, <1>8, <2>1
  <1>9. ASSUME DeleteByUser(r) PROVE ClosingInv'
    <2>1. PICK q :
             /\ req' = [req EXCEPT ![r] = q] /\ UNCHANGED <<tables, issued>>
             /\ q.op = was.op /\ q.user = was.user /\ q.new = was.new /\ q.raced = was.raced
             /\ was.pc = "delete_all"
             /\ \/ was.doomed = {} /\ q.holds = was.holds
                \/ /\ q.pc = "delete_all"
                   /\ \E t \in was.doomed :
                         /\ q.doomed = was.doomed \ {t}
                         /\ q.holds = was.holds \cup ({t} \cap refresh_tokens)
      BY <1>9, DeletionMoves
    <2>2. TokensOf(r) \subseteq was.holds \cup was.doomed
            => TokensOf(r) \subseteq q.holds \cup (IF q.pc = "delete_all" THEN q.doomed ELSE {})
      <3>1. TokensOf(r) \subseteq refresh_tokens
        BY DEF TokensOf
      <3> QED
        BY <2>1, <3>1
    <2> QED
      BY <1>8, <2>1, <2>2
  <1>10. ASSUME RevokeAccess(r) PROVE ClosingInv'
    <2> DEFINE q == [was EXCEPT !.pc = "commit",
                        !.revokes = {x \in {was.access} \ {NoToken} : ~AccessExpired(x)}]
    <2>1. /\ q.op = was.op /\ q.user = was.user /\ q.new = was.new /\ q.raced = was.raced
          /\ q.pc # "delete_all" /\ q.holds = was.holds
          /\ req' = [req EXCEPT ![r] = q] /\ was.pc = "revoke"
      BY <1>0, <1>10 DEF Request, RevokeAccess, Runs
    <2> HIDE DEF q
    <2> QED
      BY <1>8, <1>10, <2>1 DEF RevokeAccess
  <1>11. ASSUME TouchUser(r) PROVE ClosingInv'
    <2> DEFINE q == [was EXCEPT !.pc = "respond", !.locksUser = TRUE]
    <2>1. /\ q.op = was.op /\ q.user = was.user /\ q.new = was.new /\ q.pc = "respond"
          /\ req' = [req EXCEPT ![r] = q]
      BY <1>0, <1>11 DEF Request, TouchUser
    <2> HIDE DEF q
    <2> QED
      BY <1>1, <1>11, <2>1 DEF TouchUser
  <1>12. ASSUME Deactivate(r) PROVE ClosingInv'
    <2> DEFINE q == [was EXCEPT !.pc = "snapshot", !.locksUser = TRUE]
    <2>1. /\ q.op = was.op /\ q.user = was.user /\ q.new = was.new /\ q.pc = "snapshot"
          /\ req' = [req EXCEPT ![r] = q]
      BY <1>0, <1>12 DEF Request, Deactivate
    <2> HIDE DEF q
    <2> QED
      BY <1>1, <1>12, <2>1 DEF Deactivate
  <1>13. ASSUME Respond(r) PROVE ClosingInv'
    <2> DEFINE q == [was EXCEPT !.pc = "commit"]
    <2>1. /\ q.op = was.op /\ q.user = was.user /\ q.new = was.new
          /\ req' = [req EXCEPT ![r] = q] /\ was.op \notin {"logout_all", "delete_user"}
      BY <1>0, <1>13 DEF Request, Respond, Goto, Runs, Control
    <2> HIDE DEF q
    <2> QED
      BY <1>1, <1>13, <2>1 DEF Respond
  <1> QED
    BY <1>4, <1>5, <1>6, <1>7, <1>9, <1>10, <1>11, <1>12, <1>13, ClosingCommit DEF Step

LEMMA ClosingStep ==
    ASSUME TypeOK, Controlled, ClosingInv, [Next]_vars PROVE ClosingInv'
  <1>0. \A t \in Tokens : issued'[t] = issued[t]
    BY IssuedStays
  <1>1. ASSUME NEW r \in Requests, Rollback(r) \/ DeadlockVictim(r) PROVE ClosingInv'
    <2>1. Idle.op = "none" /\ Idle.new = NoToken
      BY DEF Idle
    <2> QED
      BY <1>0, <1>1, <2>1, ClosingFrame DEF Rollback, DeadlockVictim, tables
  <1>2. CASE Purge \/ Tick \/ UNCHANGED vars
    <2>1. UNCHANGED <<refresh_tokens, issued, req, signedOut>>
      BY <1>2 DEF Purge, Tick, vars
    <2>2. \A r \in Requests : TokensOf(r)' = TokensOf(r)
      BY <2>1 DEF TokensOf
    <2> QED
      BY <2>1, <2>2 DEF ClosingInv, NewIsOwn, Closed, DeletesAll
  <1> QED
    BY <1>1, <1>2, ClosingClient, ClosingStatement DEF Next

\* Once logout_all or a deactivation has committed, and no login or refresh of the user
\* has run beside it, the user has no refresh token until the next login, for any number of
\* users and connections.
THEOREM LogoutAllIsFinal == Spec => []LogoutAllEndsSessions
  <1>1. Init => TypeOK /\ Controlled /\ ClosingInv
    <2> SUFFICES ASSUME Init PROVE TypeOK /\ Controlled /\ ClosingInv
      OBVIOUS
    <2>1. signedOut = {} /\ \A r \in Requests : req[r].op = "none" /\ req[r].new = NoToken
      BY DEF Init, Idle
    <2> QED
      BY InitTyped, <2>1 DEF ClosingInv, NewIsOwn
  <1>2. TypeOK /\ Controlled /\ ClosingInv /\ [Next]_vars => TypeOK' /\ Controlled' /\ ClosingInv'
    BY TypedStep, ClosingStep
  <1>3. ClosingInv => LogoutAllEndsSessions
    BY DEF ClosingInv, LogoutAllEndsSessions, Closed
  <1> QED
    BY <1>1, <1>2, <1>3, PTL DEF Spec

-----------------------------------------------------------------------------
(* Deadlocks.                                                              *)

\* From which statement on a request has rows locked.
Locks(q) ==
    /\ q.holds # {} =>
         q.op # "login" /\ q.pc \in {"delete_all", "revoke", "touch", "respond", "commit"}
    /\ q.revokes # {} => q.pc = "commit"
    /\ q.locksUser =>
         q.op # "logout_all" /\ q.pc \in {"snapshot", "delete_all", "respond", "commit"}

LocksInv == \A r \in Requests : Locks(req[r])

LEMMA IdleLocksNothing == Locks(Idle)
  BY DEF Idle, Locks

LEMMA LocksFrame ==
    ASSUME TypeOK, LocksInv, NEW r \in Requests, NEW q, Locks(q), req' = [req EXCEPT ![r] = q]
    PROVE  LocksInv'
  BY DEF TypeOK, LocksInv

LEMMA LocksBegin ==
    ASSUME TypeOK, LocksInv, NEW r \in Requests, NEW op, NEW pc, NEW u, NEW token, NEW access,
           Begin(r, op, pc, u, token, access)
    PROVE  LocksInv'
  <1>1. Locks(req'[r])
    <2>1. req'[r] = [Idle EXCEPT !.op = op, !.pc = pc, !.user = {u},
                                 !.token = token, !.access = access]
      BY DEF Begin
    <2>2. req'[r].holds = {} /\ req'[r].revokes = {} /\ ~req'[r].locksUser
      BY <2>1 DEF Idle
    <2> QED
      BY <2>2 DEF Locks
  <1>2. ASSUME NEW p \in Requests \ {r} PROVE Locks(req'[p])
    <2> DEFINE b == req[p].raced \/ (op \in Granting /\ req[p].user = {u})
    <2>1. req'[p] = [req[p] EXCEPT !.raced = b] /\ req[p] \in Request(Tokens)
      BY DEF Begin, TypeOK
    <2> HIDE DEF b
    <2>2. /\ req'[p].holds = req[p].holds /\ req'[p].revokes = req[p].revokes
          /\ req'[p].locksUser = req[p].locksUser
          /\ req'[p].op = req[p].op /\ req'[p].pc = req[p].pc
      BY <2>1 DEF Request
    <2> QED
      BY <2>2 DEF LocksInv, Locks
  <1> QED
    BY <1>1, <1>2 DEF LocksInv

LEMMA LocksStatement ==
    ASSUME TypeOK, Controlled, LocksInv, NEW r \in Requests, Step(r) PROVE LocksInv'
  <1> DEFINE was == req[r]
  <1>0. /\ was \in Request(Tokens) /\ Control(was) /\ Locks(was)
        /\ req \in [Requests -> Request(Tokens)]
    BY DEF TypeOK, Controlled, LocksInv
  <1>1. ASSUME ReadUser(r) PROVE LocksInv'
    <2>1. was.pc = "user"
      BY <1>1 DEF ReadUser, Runs
    <2>2. CASE Goto(r, "delete")
      <3>1. Locks([was EXCEPT !.pc = "delete"])
        BY <1>0, <2>1 DEF Locks, Request
      <3> QED
        BY <1>0, <2>2, <3>1, LocksFrame DEF Goto
    <2>3. CASE req' = [req EXCEPT ![r] = Idle]
      BY <2>3, IdleLocksNothing, LocksFrame
    <2> QED
      BY <1>1, <2>2, <2>3 DEF ReadUser
  <1>2. ASSUME NEW holds, Issue(r, holds), was.pc \in {"insert", "delete"},
               holds # {} => was.op # "login"
        PROVE  LocksInv'
    <2> DEFINE n == Len(issued')
               q == [was EXCEPT !.pc = "touch", !.holds = holds, !.new = n]
    <2>1. req' = [req EXCEPT ![r].pc = "touch", ![r].holds = holds, ![r].new = n]
      BY <1>2 DEF Issue
    <2> HIDE DEF n
    <2>2. req' = [req EXCEPT ![r] = q]
      BY <1>0, <2>1
    <2>3. /\ q.op = was.op /\ q.pc = "touch" /\ q.holds = holds
          /\ q.revokes = was.revokes /\ q.locksUser = was.locksUser
      BY <1>0 DEF Request
    <2> HIDE DEF q
    <2>4. Locks(q)
      BY <1>0, <1>2, <2>3 DEF Locks
    <2> QED
      BY <2>2, <2>4, LocksFrame
  <1>3. ASSUME InsertToken(r) PROVE LocksInv'
    BY <1>2, <1>3 DEF InsertToken, Runs
  <1>4. ASSUME DeleteToken(r) PROVE LocksInv'
    <2> DEFINE holds == {was.token} \cap refresh_tokens
               q == [was EXCEPT !.pc = "revoke", !.holds = holds]
    <2>1. CASE was.op = "refresh"
      BY <1>2, <1>4, <2>1 DEF DeleteToken, Runs
    <2>2. CASE was.op # "refresh"
      <3>1. req' = [req EXCEPT ![r] = q] /\ was.pc = "delete" /\ was.op # "login"
        BY <1>0, <1>4, <2>2 DEF DeleteToken, Runs, Control
      <3>2. Locks(q)
        BY <1>0, <3>1 DEF Locks, Request
      <3> HIDE DEF q
      <3> QED
        BY <3>1, <3>2, LocksFrame
    <2> QED
      BY <2>1, <2>2
  <1>5. ASSUME SnapshotTokens(r) PROVE LocksInv'
    <2> DEFINE q == [was EXCEPT !.pc = "delete_all", !.doomed = TokensOf(r),
                                !.raced = Overlapped(r)]
    <2>1. /\ q.pc = "delete_all" /\ q.holds = was.holds /\ q.op = was.op
          /\ q.revokes = was.revokes /\ q.locksUser = was.locksUser
          /\ req' = [req EXCEPT ![r] = q] /\ was.pc = "snapshot"
      BY <1>0, <1>5 DEF Request, SnapshotTokens, Runs
    <2> HIDE DEF q
    <2>2. Locks(q)
      BY <1>0, <2>1 DEF Locks
    <2> QED
      BY <2>1, <2>2, LocksFrame
  <1>6. ASSUME DeleteByUser(r) PROVE LocksInv'
    <2>1. PICK q : /\ req' = [req EXCEPT ![r] = q] /\ was.pc = "delete_all"
                   /\ q.op = was.op /\ q.revokes = was.revokes /\ q.locksUser = was.locksUser
                   /\ q.pc \in {"delete_all", IF was.op = "logout_all" THEN "revoke" ELSE "commit"}
      BY <1>6, DeletionMoves
    <2>2. was.op \in {"logout_all", "delete_user"}
      BY <1>0, <2>1 DEF Control, Request, Ops
    <2>3. Locks(q)
      BY <1>0, <2>1, <2>2 DEF Locks
    <2> QED
      BY <2>1, <2>3, LocksFrame
  <1>7. ASSUME RevokeAccess(r) PROVE LocksInv'
    <2> DEFINE q == [was EXCEPT !.pc = "commit",
                        !.revokes = {x \in {was.access} \ {NoToken} : ~AccessExpired(x)}]
    <2>1. /\ q.pc = "commit" /\ q.holds = was.holds /\ q.op = was.op
          /\ q.locksUser = was.locksUser
          /\ req' = [req EXCEPT ![r] = q] /\ was.pc = "revoke"
      BY <1>0, <1>7 DEF Request, RevokeAccess, Runs
    <2> HIDE DEF q
    <2>2. Locks(q)
      BY <1>0, <2>1 DEF Locks
    <2> QED
      BY <2>1, <2>2, LocksFrame
  <1>8. ASSUME TouchUser(r) PROVE LocksInv'
    <2> DEFINE q == [was EXCEPT !.pc = "respond", !.locksUser = TRUE]
    <2>1. /\ q.pc = "respond" /\ q.holds = was.holds /\ q.op = was.op
          /\ q.revokes = was.revokes /\ was.op # "logout_all"
          /\ req' = [req EXCEPT ![r] = q] /\ was.pc = "touch"
      BY <1>0, <1>8 DEF Request, TouchUser, Runs, Control
    <2> HIDE DEF q
    <2>2. Locks(q)
      BY <1>0, <2>1 DEF Locks
    <2> QED
      BY <2>1, <2>2, LocksFrame
  <1>9. ASSUME Deactivate(r) PROVE LocksInv'
    <2> DEFINE q == [was EXCEPT !.pc = "snapshot", !.locksUser = TRUE]
    <2>1. /\ q.pc = "snapshot" /\ q.holds = was.holds /\ q.revokes = was.revokes
          /\ q.op = was.op /\ was.op # "logout_all"
          /\ req' = [req EXCEPT ![r] = q] /\ was.pc = "deactivate"
      BY <1>0, <1>9 DEF Request, Deactivate, Runs, Control
    <2> HIDE DEF q
    <2>2. Locks(q)
      BY <1>0, <2>1 DEF Locks
    <2> QED
      BY <2>1, <2>2, LocksFrame
  <1>10. ASSUME Respond(r) PROVE LocksInv'
    <2> DEFINE q == [was EXCEPT !.pc = "commit"]
    <2>1. /\ q.pc = "commit" /\ q.holds = was.holds /\ q.op = was.op
          /\ q.locksUser = was.locksUser
          /\ req' = [req EXCEPT ![r] = q] /\ was.pc = "respond"
      BY <1>0, <1>10 DEF Request, Respond, Runs, Goto
    <2> HIDE DEF q
    <2>2. Locks(q)
      BY <1>0, <2>1 DEF Locks
    <2> QED
      BY <2>1, <2>2, LocksFrame
  <1>11. ASSUME Commit(r) PROVE LocksInv'
    BY <1>11, IdleLocksNothing, LocksFrame DEF Commit
  <1> QED
    BY <1>1, <1>3, <1>4, <1>5, <1>6, <1>7, <1>8, <1>9, <1>10, <1>11 DEF Step

LEMMA LocksStep ==
    ASSUME TypeOK, Controlled, LocksInv, [Next]_vars PROVE LocksInv'
  <1>1. ASSUME NEW r \in Requests, Client(r) PROVE LocksInv'
    <2>1. ASSUME NEW u, Login(r, u) PROVE LocksInv'
      BY <1>1, <2>1, LocksBegin DEF Login
    <2>2. ASSUME NEW u, DeleteUser(r, u) PROVE LocksInv'
      BY <1>1, <2>2, LocksBegin DEF DeleteUser
    <2>3. ASSUME NEW t, ReadToken(r, t) PROVE LocksInv'
      BY <1>1, <2>3, LocksBegin DEF ReadToken
    <2>4. ASSUME NEW a, LogoutAll(r, a) PROVE LocksInv'
      BY <1>1, <2>4, LocksBegin DEF LogoutAll
    <2>5. ASSUME NEW t, NEW a, Logout(r, t, a) PROVE LocksInv'
      BY <1>1, <2>5, LocksBegin DEF Logout
    <2> QED
      BY <1>1, <2>1, <2>2, <2>3, <2>4, <2>5 DEF Client
  <1>2. ASSUME NEW r \in Requests, Rollback(r) \/ DeadlockVictim(r) PROVE LocksInv'
    BY <1>2, IdleLocksNothing, LocksFrame DEF Rollback, DeadlockVictim
  <1>3. CASE Purge \/ Tick \/ UNCHANGED vars
    BY <1>3 DEF Purge, Tick, vars, LocksInv
  <1> QED
    BY <1>1, <1>2, <1>3, LocksStatement DEF Next

\* Who waits for a request that waits itself: only a bulk deletion, or a refresh that has
\* deleted its session, is waited for.
LEMMA CirclesHaveBulkDeletions ==
    ASSUME TypeOK, Controlled, LocksInv, NEW S \in SUBSET Requests, Stuck(S)
    PROVE  \E p, q \in S :
             /\ Waits(p, q)
             /\ req[p].pc = "delete_all"
             /\ req[q].pc = "delete_all" \/ (req[q].pc = "touch" /\ req[q].op = "refresh")
  <1>1. \A p \in S : \E q \in S : Waits(p, q)
    BY DEF Stuck
  <1>2. \A p \in S : req[p].pc \in {"delete", "delete_all", "revoke", "touch", "deactivate"}
    BY <1>1 DEF Waits
  <1>3. ASSUME NEW p \in S PROVE req[p].pc # "revoke"
    <2>1. SUFFICES ASSUME req[p].pc = "revoke" PROVE FALSE
      OBVIOUS
    <2>2. PICK q \in S : Waits(p, q)
      BY <1>1
    <2>3. req[q].revokes # {}
      BY <2>1, <2>2 DEF Waits
    <2>4. req[q].pc = "commit"
      BY <2>3 DEF LocksInv, Locks
    <2> QED
      BY <1>2, <2>4
  <1>4. ASSUME NEW p \in S, NEW q \in S, Waits(p, q), req[p].pc \in {"delete", "delete_all"}
        PROVE  req[q].pc = "delete_all" \/ (req[q].pc = "touch" /\ req[q].op # "login")
    <2>1. req[q].holds # {}
      BY <1>4 DEF Waits
    <2> QED
      BY <1>2, <1>3, <2>1 DEF LocksInv, Locks
  <1>5. ASSUME NEW p \in S, NEW q \in S, Waits(p, q), req[p].pc \in {"touch", "deactivate"}
        PROVE  req[q].pc = "delete_all"
    <2>1. req[q].locksUser
      BY <1>5 DEF Waits
    <2> QED
      BY <1>2, <2>1 DEF LocksInv, Locks
  <1>6. PICK p \in S : req[p].pc = "delete_all"
    <2>1. PICK a \in S : TRUE
      BY DEF Stuck
    <2>2. PICK b \in S : Waits(a, b)
      BY <1>1
    <2>3. PICK c \in S : Waits(b, c)
      BY <1>1
    <2>4. CASE req[a].pc = "delete_all"
      BY <2>4
    <2>5. CASE req[a].pc \in {"touch", "deactivate"}
      BY <1>5, <2>2, <2>5
    <2>6. CASE req[a].pc = "delete"
      <3>1. req[b].pc = "delete_all" \/ req[b].pc = "touch"
        BY <1>4, <2>2, <2>6
      <3> QED
        BY <1>5, <2>3, <3>1
    <2> QED
      BY <1>2, <1>3, <2>4, <2>5, <2>6
  <1>7. PICK q \in S : Waits(p, q)
    BY <1>1
  <1>8. req[q].pc = "delete_all" \/ (req[q].pc = "touch" /\ req[q].op # "login")
    BY <1>4, <1>6, <1>7
  <1>9. req[q].pc = "touch" => req[q].op \in {"login", "refresh"}
    BY DEF TypeOK, Controlled, Control, Request, Ops
  <1> QED
    BY <1>6, <1>7, <1>8, <1>9

\* Logins, refreshes and logouts never deadlock by themselves, for any number of them: in
\* every circle a logout_all or a deactivation waits for another one or for a refresh.
THEOREM OnlyBulkDeletionsDeadlock == Spec => []DeadlocksNeedBulkDelete
  <1>1. Init => TypeOK /\ Controlled /\ LocksInv
    BY InitTyped, IdleLocksNothing DEF Init, LocksInv
  <1>2. TypeOK /\ Controlled /\ LocksInv /\ [Next]_vars => TypeOK' /\ Controlled' /\ LocksInv'
    BY TypedStep, LocksStep
  <1>3. TypeOK /\ Controlled /\ LocksInv => DeadlocksNeedBulkDelete
    BY CirclesHaveBulkDeletions DEF DeadlocksNeedBulkDelete
  <1> QED
    BY <1>1, <1>2, <1>3, PTL DEF Spec
=============================================================================
