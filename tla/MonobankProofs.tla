--------------------------- MODULE MonobankProofs ---------------------------
(***************************************************************************)
(* Machine-checked proofs about linking and backfill, for any customers,   *)
(* cards, connections, roles and bounds.                                   *)
(***************************************************************************)
EXTENDS MonobankProperties, SequenceTheorems, FiniteSetTheorems, TLAPS

-----------------------------------------------------------------------------
(* Which request and which Job is where.                                   *)

\* Which statements an operation has, and which fields it fills.
Control(q) ==
    /\ q.mode = "none" <=> q.pc = "idle"
    /\ q.mode = "none" => q.client = {}
    /\ q.mode # "none" => \E c \in Clients : q.client = {c} /\ q.added \subseteq CardsOf[c]
    /\ q.mode = "new" => q.pc \in {"conflict", "insert", "reselect", "accounts", "webhook", "commit"}
    /\ q.mode = "rotate" => q.pc \in {"rotate", "webhook", "commit"} /\ q.integ # None /\ q.secret # None
    /\ q.mode = "unlink" => q.pc \in {"deregister", "delete", "commit"} /\ q.integ # None
    /\ q.own => q.mode = "new" /\ q.pc \in {"accounts", "webhook", "commit"}
                /\ q.integ # None /\ q.secret # None

Controlled == \A r \in Requests : Control(req[r])

\* The row that a link which has lost its insert binds accounts to cannot be deleted.
RowsHeld ==
    \A r \in Requests :
        req[r].mode = "new" /\ req[r].pc \in {"webhook", "commit"}
        /\ ~req[r].own /\ req[r].integ # None
        => /\ req[r].integ \in Ids
           /\ \A q \in Requests : ~(req[q].mode = "unlink" /\ req[q].pc = "commit"
                                    /\ req[q].integ = req[r].integ)

\* A pod runs for an open Job, and an open Job has an attempt left.
JobsControlled ==
    \A j \in DOMAIN jobs :
        /\ jobs[j].pod # "none" => jobs[j].status = "open"
        /\ jobs[j].status = "open" => jobs[j].attempts <= BackoffLimit

Shape == TypeOK /\ Controlled /\ RowsHeld /\ JobsControlled

LEMMA InitShape == MonobankInit => Shape
  <1> SUFFICES ASSUME MonobankInit PROVE Shape
    OBVIOUS
  <1> USE DEF MonobankInit, Init
  <1>1. Ids = {} /\ integrations \in [Ids -> Row(fresh)]
    BY DEF Ids
  <1>2. Idle \in Request(fresh, DOMAIN accounts) /\ Control(Idle)
    BY DEF Idle, Request, Control, None
  <1>3. /\ accounts \in Seq([card : Cards, client : Clients, integration : Ids \cup {None}])
        /\ jobs \in Seq(Backfill(fresh, DOMAIN accounts))
    BY EmptySeq
  <1>4. job \in [left : SUBSET ((1..fresh) \X Row(fresh)), row : SUBSET Row(fresh)]
    BY DEF NoJob
  <1>5. req \in [Requests -> Request(fresh, DOMAIN accounts)] /\ Controlled
    BY <1>2 DEF Controlled
  <1>6. TypeOK
    <2>1. bank \in [Clients -> [token : Nat, hook : 0..fresh]]
      BY DEF None
    <2>2. DOMAIN accounts = {}
      OBVIOUS
    <2> QED
      BY <1>1, <1>3, <1>4, <1>5, <2>1, <2>2 DEF TypeOK
  <1>7. RowsHeld
    BY DEF RowsHeld, Idle
  <1>8. JobsControlled
    BY DEF JobsControlled
  <1> QED
    BY <1>5, <1>6, <1>7, <1>8 DEF Shape

LEMMA TypesGrow ==
    ASSUME NEW m \in Nat, NEW n \in Nat, m <= n, NEW A, NEW B, A \subseteq B
    PROVE  /\ Row(m) \subseteq Row(n)
           /\ Request(m, A) \subseteq Request(n, B)
           /\ Backfill(m, A) \subseteq Backfill(n, B)
  <1>1. 0..m \subseteq 0..n /\ 1..m \subseteq 1..n
    OBVIOUS
  <1>2. Row(m) \subseteq Row(n)
    BY <1>1 DEF Row
  <1>3. Request(m, A) \subseteq Request(n, B)
    BY <1>1 DEF Request
  <1>4. Backfill(m, A) \subseteq Backfill(n, B)
    BY <1>1 DEF Backfill
  <1> QED
    BY <1>2, <1>3, <1>4

\* Ids and secrets are given out, and nothing that exists is touched.
LEMMA FreshGrows ==
    ASSUME TypeOK, fresh' \in Nat, fresh <= fresh',
           bank' \in [Clients -> [token : Nat, hook : 0..fresh]],
           UNCHANGED <<integrations, accounts, job, role, jobs>>,
           req' \in [Requests -> Request(fresh', DOMAIN accounts)],
           ops' \in Nat, faults' \in Nat, orderly' \in BOOLEAN, slipped' \in BOOLEAN
    PROVE  TypeOK'
  <1> DEFINE dom == DOMAIN accounts
             J == [left : SUBSET ((1..fresh) \X Row(fresh)), row : SUBSET Row(fresh)]
             K == [left : SUBSET ((1..fresh') \X Row(fresh')), row : SUBSET Row(fresh')]
  <1>1. /\ 0..fresh \subseteq 0..fresh' /\ 1..fresh \subseteq 1..fresh'
    BY DEF TypeOK
  <1>2. /\ Row(fresh) \subseteq Row(fresh')
        /\ Backfill(fresh, dom) \subseteq Backfill(fresh', dom)
    <2>1. fresh \in Nat /\ dom \subseteq dom
      BY DEF TypeOK
    <2> HIDE DEF dom
    <2> QED
      BY <2>1, TypesGrow
  <1>3. bank' \in [Clients -> [token : Nat, hook : 0..fresh']]
    BY <1>1
  <1>4. Ids' = Ids /\ Ids \subseteq 1..fresh' /\ integrations \in [Ids -> Row(fresh')]
    BY <1>1, <1>2 DEF TypeOK, Ids
  <1>5. jobs \in Seq(Backfill(fresh', dom))
    BY <1>2, SeqMonotonic DEF TypeOK
  <1>6. job \in K
    <2>1. J \subseteq K
      BY <1>1, <1>2
    <2> QED
      BY <2>1 DEF TypeOK
  <1>7. accounts \in Seq([card : Cards, client : Clients, integration : Ids \cup {None}])
    BY DEF TypeOK
  <1> QED
    BY <1>3, <1>4, <1>5, <1>6, <1>7 DEF TypeOK

\* A link or an unlink takes a step or ends, before its commit.
LEMMA RequestMoves ==
    ASSUME Shape, NEW r \in Requests, NEW q, req' = [req EXCEPT ![r] = q],
           fresh' \in Nat, fresh <= fresh',
           bank' \in [Clients -> [token : Nat, hook : 0..fresh]],
           UNCHANGED <<integrations, accounts, job, role, jobs>>,
           ops' \in Nat, faults' \in Nat, orderly' \in BOOLEAN, slipped' \in BOOLEAN,
           q \in Request(fresh', DOMAIN accounts), Control(q),
           q.mode = "new" /\ q.pc \in {"webhook", "commit"} /\ ~q.own /\ q.integ # None
               => /\ q.integ \in Ids
                  /\ \A p \in Requests \ {r} :
                        ~(req[p].mode = "unlink" /\ req[p].pc = "commit" /\ req[p].integ = q.integ),
           q.mode = "unlink" /\ q.pc = "commit" => ~Referenced(q.integ, r)
    PROVE  Shape'
  <1>1. req \in [Requests -> Request(fresh, DOMAIN accounts)] /\ fresh \in Nat
    BY DEF Shape, TypeOK
  <1>2. Request(fresh, DOMAIN accounts) \subseteq Request(fresh', DOMAIN accounts)
    <2> DEFINE dom == DOMAIN accounts
    <2>1. dom \subseteq dom
      OBVIOUS
    <2> HIDE DEF dom
    <2>2. Request(fresh, dom) \subseteq Request(fresh', dom)
      BY <1>1, <2>1, TypesGrow
    <2> QED
      BY <2>2 DEF dom
  <1>3. req' \in [Requests -> Request(fresh', DOMAIN accounts)]
    BY <1>1, <1>2
  <1>4. TypeOK'
    BY <1>3, FreshGrows DEF Shape
  <1>5. req'[r] = q /\ \A p \in Requests \ {r} : req'[p] = req[p]
    BY <1>1
  <1>6. Controlled'
    BY <1>5 DEF Shape, Controlled
  <1>7. RowsHeld'
    <2>1. Ids' = Ids
      BY DEF Ids
    <2> QED
      BY <1>5, <2>1 DEF Shape, RowsHeld, Referenced
  <1>8. JobsControlled'
    BY DEF Shape, JobsControlled
  <1> QED
    BY <1>4, <1>6, <1>7, <1>8 DEF Shape

LEMMA RequestEnds ==
    ASSUME Shape, NEW r \in Requests, req' = [req EXCEPT ![r] = Idle],
           UNCHANGED <<fresh, bank, integrations, accounts, job, role, jobs>>,
           ops' \in Nat, faults' \in Nat, orderly' \in BOOLEAN, slipped' \in BOOLEAN
    PROVE  Shape'
  <1>1. Idle \in Request(fresh, DOMAIN accounts) /\ Control(Idle) /\ Idle.mode = "none"
    BY DEF Shape, TypeOK, Idle, Request, Control, None
  <1>2. fresh' \in Nat /\ fresh <= fresh' /\ bank' \in [Clients -> [token : Nat, hook : 0..fresh]]
    BY DEF Shape, TypeOK
  <1> QED
    BY <1>1, <1>2, RequestMoves

\* What the actions have in common.
LEMMA ScalarsTyped ==
    ASSUME Shape
    PROVE  /\ fresh \in Nat /\ ops \in Nat /\ faults \in Nat
           /\ orderly \in BOOLEAN /\ slipped \in BOOLEAN
           /\ bank \in [Clients -> [token : Nat, hook : 0..fresh]]
           /\ req \in [Requests -> Request(fresh, DOMAIN accounts)]
           /\ job \in [left : SUBSET ((1..fresh) \X Row(fresh)), row : SUBSET Row(fresh)]
           /\ role \in Roles
  BY DEF Shape, TypeOK

LEMMA SpendTyped ==
    ASSUME Shape, Spend PROVE ops' \in Nat /\ orderly' \in BOOLEAN
  BY DEF Shape, TypeOK, Spend, Quiet

LEMMA RegisterTyped ==
    ASSUME Shape, NEW c \in Clients, NEW token, NEW hook \in 0..fresh, Register(c, token, hook)
    PROVE  bank' \in [Clients -> [token : Nat, hook : 0..fresh]] /\ orderly' \in BOOLEAN
  BY DEF Shape, TypeOK, Register

LEMMA RowsTyped ==
    ASSUME Shape
    PROVE  \A i \in Ids : /\ i \in 1..fresh /\ integrations[i] \in Row(fresh)
                          /\ integrations[i].client \in Clients /\ integrations[i].token \in Nat
                          /\ integrations[i].secret \in 1..fresh
                          /\ integrations[i].status \in {"active", "error"}
  <1>1. integrations \in [Ids -> Row(fresh)] /\ Ids \subseteq 1..fresh
    BY DEF Shape, TypeOK
  <1> QED
    BY <1>1 DEF Row

\* The customer of a request.
LEMMA OneCustomer ==
    ASSUME Shape, NEW r \in Requests, req[r].mode # "none"
    PROVE  \E c \in Clients : /\ req[r].client = {c} /\ req[r].added \subseteq CardsOf[c]
                              /\ (CHOOSE d \in Clients : d \in req[r].client) = c
  BY DEF Shape, Controlled, Control

LEMMA LinkShape ==
    ASSUME Shape, NEW r \in Requests, NEW c \in Clients, Link(r, c), UNCHANGED jobs
    PROVE  Shape'
  <1> DEFINE asked == [Idle EXCEPT !.client = {c}, !.token = bank[c].token,
                                   !.pc = "conflict", !.mode = "new"]
             found == RowsOf(c) \cap ActiveIds
             i == CHOOSE i \in found : TRUE
             again == [asked EXCEPT !.pc = "rotate", !.mode = "rotate", !.integ = i,
                                    !.secret = integrations[i].secret]
  <1>1. /\ UNCHANGED <<fresh, bank, integrations, accounts, job, role, jobs, faults, slipped>>
        /\ ops' \in Nat /\ orderly' \in BOOLEAN /\ faults' \in Nat /\ slipped' \in BOOLEAN
    BY SpendTyped DEF Link, tables, Shape, TypeOK
  <1>2. /\ bank[c].token \in Nat
        /\ fresh' \in Nat /\ fresh <= fresh' /\ bank' \in [Clients -> [token : Nat, hook : 0..fresh]]
    BY <1>1 DEF Shape, TypeOK
  <1>3. asked \in Request(fresh, DOMAIN accounts) /\ Control(asked) /\ asked.pc = "conflict"
        /\ asked.own = FALSE /\ asked.added = {} /\ asked.client = {c}
    <2>1. Idle \in Request(fresh, DOMAIN accounts) /\ Idle.added = {} /\ Idle.own = FALSE
      BY DEF Shape, TypeOK, Idle, Request, None
    <2>2. asked \in Request(fresh, DOMAIN accounts)
      BY <1>2, <2>1 DEF Request
    <2>3. /\ asked.pc = "conflict" /\ asked.mode = "new" /\ asked.client = {c}
          /\ asked.added = {} /\ asked.own = FALSE
      BY <1>2, <2>1 DEF Request
    <2> HIDE DEF asked
    <2> QED
      BY <2>2, <2>3 DEF Control
  <1>4. CASE found = {}
    <2>1. req' = [req EXCEPT ![r] = asked]
      BY <1>4 DEF Link
    <2> HIDE DEF asked, found
    <2>2. asked \in Request(fresh', DOMAIN accounts)
      BY <1>1, <1>3
    <2>3. ~(asked.pc \in {"webhook", "commit"}) /\ asked.pc # "commit"
      BY <1>3
    <2> QED
      BY <1>1, <1>2, <1>3, <2>1, <2>2, <2>3, RequestMoves
  <1>5. CASE found # {}
    <2>1. req' = [req EXCEPT ![r] = again]
      BY <1>5 DEF Link
    <2>2. i \in Ids /\ i \in 1..fresh /\ integrations[i].secret \in 1..fresh
      <3>1. i \in Ids
        BY <1>5 DEF ActiveIds
      <3> QED
        BY <3>1, RowsTyped
    <2> HIDE DEF found, i
    <2>3. again \in Request(fresh', DOMAIN accounts) /\ Control(again) /\ again.pc = "rotate"
      <3>1. asked \in Request(fresh, DOMAIN accounts) /\ asked.own = FALSE /\ asked.added = {}
            /\ asked.client = {c}
        BY <1>3
      <3>2. i \in 0..fresh /\ integrations[i].secret \in 0..fresh /\ i # None
            /\ integrations[i].secret # None
        BY <2>2 DEF None, Shape, TypeOK
      <3> HIDE DEF asked
      <3>3. again \in Request(fresh, DOMAIN accounts)
        BY <3>1, <3>2 DEF Request
      <3>4. /\ again.pc = "rotate" /\ again.mode = "rotate" /\ again.client = {c}
            /\ again.added = {} /\ again.own = FALSE /\ again.integ = i
            /\ again.secret = integrations[i].secret
        BY <3>1 DEF Request
      <3> HIDE DEF again
      <3> QED
        BY <1>1, <3>2, <3>3, <3>4 DEF Control
    <2> HIDE DEF again
    <2> QED
      BY <1>1, <1>2, <2>1, <2>3, RequestMoves
  <1> QED
    BY <1>4, <1>5

\* The statements of a link, an unlink and a rotation before the commit.
LEMMA StatementShape ==
    ASSUME Shape, UNCHANGED jobs, NEW r \in Requests,
           \/ CheckConflict(r) \/ InsertIntegration(r) \/ Reselect(r) \/ WriteAccounts(r)
           \/ Rotate(r) \/ SetWebhook(r) \/ LinkFails(r) \/ Deregister(r) \/ DeleteIntegration(r)
    PROVE  Shape'
  <1> DEFINE was == req[r]
             dom == DOMAIN accounts
  <1>1. /\ was \in Request(fresh, dom) /\ Control(was)
        /\ req \in [Requests -> Request(fresh, dom)]
        /\ fresh \in Nat /\ ops \in Nat /\ faults \in Nat /\ orderly \in BOOLEAN /\ slipped \in BOOLEAN
        /\ bank \in [Clients -> [token : Nat, hook : 0..fresh]]
    BY DEF Shape, TypeOK, Controlled
  <1>2. ASSUME NEW q \in Request(fresh, dom), Control(q), req' = [req EXCEPT ![r] = q],
               UNCHANGED <<fresh, integrations, accounts, job, role, ops, faults>>,
               bank' \in [Clients -> [token : Nat, hook : 0..fresh]],
               orderly' \in BOOLEAN, slipped' \in BOOLEAN,
               q.mode = "new" /\ q.pc \in {"webhook", "commit"} /\ ~q.own /\ q.integ # None
                   => /\ q.integ \in Ids
                      /\ \A p \in Requests \ {r} :
                           ~(req[p].mode = "unlink" /\ req[p].pc = "commit" /\ req[p].integ = q.integ),
               q.mode = "unlink" /\ q.pc = "commit" => ~Referenced(q.integ, r)
        PROVE  Shape'
    <2>1. /\ fresh' \in Nat /\ fresh <= fresh' /\ ops' \in Nat /\ faults' \in Nat
          /\ q \in Request(fresh', DOMAIN accounts)
      BY <1>1, <1>2
    <2> HIDE DEF dom
    <2> QED
      BY <1>2, <2>1, RequestMoves
  <1>3. ASSUME NEW pc, req' = [req EXCEPT ![r].pc = pc],
               UNCHANGED <<fresh, integrations, accounts, job, role, ops, faults, slipped>>,
               bank' \in [Clients -> [token : Nat, hook : 0..fresh]], orderly' \in BOOLEAN,
               was.pc # "idle",
               \/ was.mode = "new" /\ was.pc = "reselect" /\ pc = "accounts"
               \/ was.mode = "new" /\ was.pc = "conflict" /\ pc = "insert"
               \/ was.mode = "new" /\ was.pc = "webhook" /\ pc = "commit"
               \/ was.mode = "rotate" /\ pc \in {"webhook", "commit"}
               \/ was.mode = "unlink" /\ pc = "delete"
               \/ was.mode = "unlink" /\ pc = "commit" /\ ~Referenced(was.integ, r)
        PROVE  Shape'
    <2> DEFINE q == [was EXCEPT !.pc = pc]
    <2>1. /\ q.pc = pc /\ q.mode = was.mode /\ q.client = was.client /\ q.added = was.added
          /\ q.own = was.own /\ q.integ = was.integ /\ q.secret = was.secret
          /\ req' = [req EXCEPT ![r] = q]
      BY <1>1, <1>3 DEF Request
    <2>2. q \in Request(fresh, dom)
      BY <1>1, <1>3 DEF Request
    <2> HIDE DEF q
    <2>3. Control(q)
      BY <1>1, <1>3, <2>1 DEF Control
    <2>4. q.mode = "new" /\ q.pc \in {"webhook", "commit"} /\ ~q.own /\ q.integ # None
             => /\ q.integ \in Ids
                /\ \A p \in Requests \ {r} :
                     ~(req[p].mode = "unlink" /\ req[p].pc = "commit" /\ req[p].integ = q.integ)
      <3>1. q.mode = "new" /\ q.pc \in {"webhook", "commit"} => was.mode = "new" /\ was.pc = "webhook"
        BY <1>3, <2>1
      <3>2. was.mode = "new" /\ was.pc = "webhook" /\ ~was.own /\ was.integ # None
             => /\ was.integ \in Ids
                /\ \A p \in Requests :
                     ~(req[p].mode = "unlink" /\ req[p].pc = "commit" /\ req[p].integ = was.integ)
        BY DEF Shape, RowsHeld
      <3> QED
        BY <2>1, <3>1, <3>2
    <2>5. q.mode = "unlink" /\ q.pc = "commit" => ~Referenced(q.integ, r)
      BY <1>3, <2>1
    <2> QED
      BY <1>1, <1>2, <1>3, <2>1, <2>2, <2>3, <2>4, <2>5
  <1>4. ASSUME req' = [req EXCEPT ![r] = Idle],
               UNCHANGED <<fresh, bank, integrations, accounts, job, role, ops, faults,
                           orderly, slipped>>
        PROVE  Shape'
    BY <1>1, <1>4, RequestEnds
  <1>5. ASSUME CheckConflict(r) PROVE Shape'
    <2>1. was.mode = "new" /\ was.pc = "conflict"
      BY <1>1, <1>5 DEF CheckConflict, Control, Request
    <2>2. CASE req' = [req EXCEPT ![r] = [was EXCEPT !.pc = "insert"]]
      <3>1. req' = [req EXCEPT ![r].pc = "insert"]
        BY <2>2
      <3> QED
        BY <1>1, <1>3, <1>5, <2>1, <3>1 DEF CheckConflict, tables
    <2>3. CASE req' = [req EXCEPT ![r] = Idle]
      BY <1>4, <1>5, <2>3 DEF CheckConflict, tables
    <2> QED
      BY <1>5, <2>2, <2>3 DEF CheckConflict
  <1>6. ASSUME InsertIntegration(r) PROVE Shape'
    <2> DEFINE rows == UNION {RowsOf(c) : c \in was.client}
               n == fresh + 1
    <2>1. /\ was.mode = "new" /\ was.pc = "insert"
          /\ UNCHANGED <<bank, integrations, accounts, job, role, ops, faults, orderly, slipped>>
          /\ fresh' = n /\ n \in 0..n /\ n # None /\ fresh <= n /\ n \in Nat
      <3>1. was.mode = "new" /\ was.pc = "insert"
        BY <1>1, <1>6 DEF InsertIntegration, Control, Request
      <3>2. UNCHANGED <<bank, integrations, accounts, job, role, ops, faults, orderly, slipped>>
        BY <1>6 DEF InsertIntegration
      <3>3. fresh' = n
        BY <1>6 DEF InsertIntegration
      <3>4. n \in 0..n /\ n # None /\ fresh <= n /\ n \in Nat
        BY <1>1 DEF None
      <3> QED
        BY <3>1, <3>2, <3>3, <3>4
    <2>2. was \in Request(n, dom)
      <3> HIDE DEF n, dom
      <3>1. dom \subseteq dom
        OBVIOUS
      <3> QED
        BY <1>1, <2>1, <3>1, TypesGrow
    <2>3. ASSUME NEW q \in Request(n, dom), Control(q), req' = [req EXCEPT ![r] = q],
                 q.pc \in {"accounts", "reselect"}
          PROVE  Shape'
      <3>1. q.pc \notin {"webhook", "commit"} /\ q.pc # "commit"
        BY <2>3
      <3> QED
        BY <1>1, <2>1, <2>3, <3>1, RequestMoves
    <2>4. CASE rows = {}
      <3> DEFINE q == [was EXCEPT !.pc = "accounts", !.own = TRUE, !.integ = n, !.secret = n]
      <3>1. req' = [req EXCEPT ![r] = q]
        BY <1>1, <1>6, <2>4 DEF InsertIntegration
      <3> HIDE DEF rows, n
      <3>2. /\ q.pc = "accounts" /\ q.mode = was.mode /\ q.client = was.client
            /\ q.added = was.added /\ q.own = TRUE /\ q.integ = n /\ q.secret = n
        BY <1>1 DEF Request
      <3>3. q \in Request(n, dom)
        BY <2>1, <2>2 DEF Request
      <3> HIDE DEF q
      <3>4. Control(q)
        BY <1>1, <2>1, <3>2 DEF Control
      <3> QED
        BY <2>3, <3>1, <3>2, <3>3, <3>4
    <2>5. CASE rows # {}
      <3> DEFINE i == IF rows \subseteq ActiveIds THEN CHOOSE i \in rows : TRUE ELSE None
                 q == [was EXCEPT !.pc = "reselect", !.integ = i, !.secret = n]
      <3>1. req' = [req EXCEPT ![r] = q]
        BY <1>1, <1>6, <2>5 DEF InsertIntegration
      <3>2. rows \subseteq Ids /\ Ids \subseteq 0..fresh /\ None \in 0..fresh
        BY DEF RowsOf, Shape, TypeOK, None
      <3>3. i \in 0..n
        <4>1. (CHOOSE j \in rows : TRUE) \in rows
          BY <2>5
        <4>2. i \in 0..fresh
          BY <3>2, <4>1
        <4> QED
          BY <1>1, <4>2
      <3> HIDE DEF rows, n, i
      <3>4. /\ q.pc = "reselect" /\ q.mode = was.mode /\ q.client = was.client
            /\ q.added = was.added /\ q.own = was.own /\ q.integ = i /\ q.secret = n
        BY <1>1 DEF Request
      <3>5. q \in Request(n, dom)
        BY <2>1, <2>2, <3>3 DEF Request
      <3> HIDE DEF q
      <3>6. Control(q)
        BY <1>1, <2>1, <3>4 DEF Control
      <3> QED
        BY <2>3, <3>1, <3>4, <3>5, <3>6
    <2> QED
      BY <2>4, <2>5
  <1>7. ASSUME Reselect(r) PROVE Shape'
    <2> DEFINE found == (UNION {RowsOf(c) : c \in was.client}) \cap ActiveIds
               i == CHOOSE i \in found : TRUE
               q == [was EXCEPT !.pc = "rotate", !.mode = "rotate", !.integ = i,
                                !.secret = integrations[i].secret]
    <2>1. /\ was.mode = "new" /\ was.pc = "reselect"
          /\ UNCHANGED <<fresh, bank, integrations, accounts, job, role, ops, faults, orderly>>
      BY <1>1, <1>7 DEF Reselect, Control, Request
    <2>2. slipped' \in BOOLEAN
      BY <1>1, <1>7 DEF Reselect
    <2>3. CASE found = {}
      <3> DEFINE p == [was EXCEPT !.pc = "accounts"]
      <3>1. req' = [req EXCEPT ![r] = p]
        BY <1>1, <1>7, <2>3 DEF Reselect, Goto
      <3>2. /\ p.pc = "accounts" /\ p.mode = was.mode /\ p.client = was.client /\ p.added = was.added
            /\ p.own = was.own /\ p.integ = was.integ /\ p.secret = was.secret
            /\ p \in Request(fresh, dom)
        BY <1>1 DEF Request
      <3> HIDE DEF p
      <3>3. Control(p)
        BY <1>1, <2>1, <3>2 DEF Control
      <3>4. p.pc \notin {"webhook", "commit"} /\ p.pc # "commit"
        BY <3>2
      <3> QED
        BY <1>1, <1>2, <2>1, <2>2, <3>1, <3>2, <3>3, <3>4
    <2>4. CASE found # {}
      <3>1. i \in found
        BY <2>4
      <3>2. i \in Ids /\ integrations[i].secret \in 1..fresh /\ i \in 1..fresh
        <4>1. found \subseteq Ids
          BY DEF ActiveIds
        <4> HIDE DEF found, i
        <4> QED
          BY <3>1, <4>1, RowsTyped
      <3>3. req' = [req EXCEPT ![r] = q]
        BY <1>7, <2>4 DEF Reselect
      <3> HIDE DEF found, i
      <3>4. i \in 0..fresh /\ i # None /\ integrations[i].secret \in 0..fresh
            /\ integrations[i].secret # None
        BY <1>1, <3>2 DEF None
      <3>5. /\ q.pc = "rotate" /\ q.mode = "rotate" /\ q.client = was.client /\ q.added = was.added
            /\ q.own = was.own /\ q.integ = i /\ q.secret = integrations[i].secret
            /\ q \in Request(fresh, dom)
        BY <1>1, <3>4 DEF Request
      <3> HIDE DEF q
      <3>6. Control(q)
        BY <1>1, <2>1, <3>4, <3>5 DEF Control
      <3>7. q.mode # "new" /\ q.mode # "unlink"
        BY <3>5
      <3> QED
        BY <1>1, <1>2, <2>1, <2>2, <3>3, <3>5, <3>6, <3>7
    <2> QED
      BY <2>3, <2>4
  <1>8. ASSUME WriteAccounts(r) PROVE Shape'
    <2>1. /\ was.mode = "new" /\ was.pc = "accounts"
          /\ UNCHANGED <<fresh, bank, integrations, accounts, job, role, ops, faults, orderly,
                         slipped>>
      BY <1>1, <1>8 DEF WriteAccounts, Control, Request, tables
    <2>2. PICK c \in Clients : /\ was.client = {c}
                              /\ (CHOOSE d \in Clients : d \in was.client) = c
      BY <2>1, OneCustomer
    <2> DEFINE orphans == Orphans(c)
               added == CardsOf[c] \ {accounts[a].card : a \in orphans}
               q == [was EXCEPT !.pc = "webhook", !.rebound = orphans, !.added = added]
    <2>3. CASE was.own \/ was.integ \in Ids \cup {None}
      <3>1. req' = [req EXCEPT ![r] = q]
        BY <1>8, <2>2, <2>3 DEF WriteAccounts
      <3>2. orphans \in SUBSET dom /\ added \in SUBSET Cards /\ added \subseteq CardsOf[c]
        BY DEF Orphans, Cards
      <3> HIDE DEF orphans, added
      <3>3. /\ q.pc = "webhook" /\ q.mode = was.mode /\ q.client = was.client /\ q.added = added
            /\ q.own = was.own /\ q.integ = was.integ /\ q.secret = was.secret
            /\ q \in Request(fresh, dom)
        BY <1>1, <3>2 DEF Request
      <3> HIDE DEF q
      <3>4. Control(q)
        BY <1>1, <2>1, <2>2, <3>2, <3>3 DEF Control
      <3>5. ~q.own /\ q.integ # None =>
               /\ q.integ \in Ids
               /\ \A p \in Requests \ {r} :
                     ~(req[p].mode = "unlink" /\ req[p].pc = "commit" /\ req[p].integ = q.integ)
        BY <1>8, <2>3, <3>3 DEF WriteAccounts
      <3>6. q.mode # "unlink"
        BY <2>1, <3>3
      <3> QED
        BY <1>1, <1>2, <2>1, <3>1, <3>3, <3>4, <3>5, <3>6
    <2>4. CASE ~(was.own \/ was.integ \in Ids \cup {None})
      BY <1>4, <1>8, <2>1, <2>4 DEF WriteAccounts
    <2> QED
      BY <2>3, <2>4
  <1>9. ASSUME Rotate(r) PROVE Shape'
    <2>1. was.mode = "rotate" /\ was.pc = "rotate"
      BY <1>1, <1>9 DEF Rotate, Control, Request
    <2> QED
      BY <1>1, <1>3, <1>9, <2>1 DEF Rotate, Goto, tables
  <1>10. ASSUME SetWebhook(r) PROVE Shape'
    <2>1. was.pc = "webhook" /\ was.mode \in {"new", "rotate"}
      BY <1>1, <1>10 DEF SetWebhook, Control, Request
    <2>2. PICK c \in was.client : Register(c, was.token, was.secret)
      BY <1>10 DEF SetWebhook
    <2>3. c \in Clients /\ was.secret \in 0..fresh
      BY <1>1 DEF Request
    <2>4. bank' \in [Clients -> [token : Nat, hook : 0..fresh]] /\ orderly' \in BOOLEAN
      BY <2>2, <2>3, RegisterTyped
    <2> QED
      BY <1>1, <1>3, <1>10, <2>1, <2>4 DEF SetWebhook, Goto, tables
  <1>11. ASSUME Deregister(r) PROVE Shape'
    <2>1. was.pc = "deregister" /\ was.mode = "unlink"
      BY <1>1, <1>11 DEF Deregister, Control, Request
    <2>2. PICK c \in was.client : Register(c, was.token, None)
      BY <1>11 DEF Deregister
    <2>3. c \in Clients /\ None \in 0..fresh
      BY <1>1 DEF Request, None
    <2>4. bank' \in [Clients -> [token : Nat, hook : 0..fresh]] /\ orderly' \in BOOLEAN
      BY <2>2, <2>3, RegisterTyped
    <2> QED
      BY <1>1, <1>3, <1>11, <2>1, <2>4 DEF Deregister, Goto, tables
  <1>12. ASSUME DeleteIntegration(r) PROVE Shape'
    <2>1. was.pc = "delete" /\ was.mode = "unlink"
      BY <1>1, <1>12 DEF DeleteIntegration, Control, Request
    <2>2. CASE Goto(r, "commit")
      BY <1>1, <1>3, <1>12, <2>1, <2>2 DEF DeleteIntegration, Goto, tables
    <2>3. CASE req' = [req EXCEPT ![r] = Idle]
      BY <1>4, <1>12, <2>3 DEF DeleteIntegration, tables
    <2> QED
      BY <1>12, <2>2, <2>3 DEF DeleteIntegration
  <1>13. ASSUME LinkFails(r) PROVE Shape'
    BY <1>4, <1>13 DEF LinkFails, tables
  <1> QED
    BY <1>5, <1>6, <1>7, <1>8, <1>9, <1>10, <1>11, <1>12, <1>13


\* A transaction commits what it did to the tables.
LEMMA CommitShape ==
    ASSUME Shape, NEW r \in Requests, req' = [req EXCEPT ![r] = Idle],
           UNCHANGED <<fresh, bank, job, role, ops, faults, orderly, slipped, jobs>>,
           integrations' \in [Ids' -> Row(fresh)], Ids' \subseteq 1..fresh,
           accounts' \in Seq([card : Cards, client : Clients, integration : Ids' \cup {None}]),
           \A a \in DOMAIN accounts' : accounts'[a].card \in CardsOf[accounts'[a].client],
           DOMAIN accounts \subseteq DOMAIN accounts',
           \/ Ids \subseteq Ids'
           \/ /\ Ids \ {req[r].integ} \subseteq Ids'
              /\ req[r].mode = "unlink" /\ req[r].pc = "commit"
    PROVE  Shape'
  <1> DEFINE dom == DOMAIN accounts
             dom2 == DOMAIN accounts'
  <1>1. /\ req \in [Requests -> Request(fresh, dom)] /\ fresh \in Nat
        /\ jobs \in Seq(Backfill(fresh, dom)) /\ role \in Roles
        /\ dom \subseteq dom2
    BY DEF Shape, TypeOK
  <1>2. /\ Request(fresh, dom) \subseteq Request(fresh, dom2)
        /\ Backfill(fresh, dom) \subseteq Backfill(fresh, dom2)
    <2> HIDE DEF dom, dom2
    <2>1. fresh <= fresh
      BY <1>1
    <2> QED
      BY <1>1, <2>1, TypesGrow
  <1>3. Idle \in Request(fresh, dom2) /\ Control(Idle) /\ Idle.mode = "none"
    BY <1>1 DEF Idle, Request, Control, None
  <1>4. req' \in [Requests -> Request(fresh, dom2)]
    BY <1>1, <1>2, <1>3
  <1>5. jobs \in Seq(Backfill(fresh, dom2))
    BY <1>1, <1>2, SeqMonotonic
  <1>6. TypeOK'
    <2>1. role \in Roles
      BY <1>1
    <2>2. /\ fresh \in Nat /\ ops \in Nat /\ faults \in Nat
          /\ orderly \in BOOLEAN /\ slipped \in BOOLEAN
          /\ bank \in [Clients -> [token : Nat, hook : 0..fresh]]
          /\ job \in [left : SUBSET ((1..fresh) \X Row(fresh)), row : SUBSET Row(fresh)]
      BY DEF Shape, TypeOK
    <2> QED
      BY <1>4, <1>5, <2>1, <2>2 DEF TypeOK
  <1>7. req'[r] = Idle /\ \A p \in Requests \ {r} : req'[p] = req[p]
    BY <1>1
  <1>8. Controlled'
    BY <1>3, <1>7 DEF Shape, Controlled
  <1>9. RowsHeld'
    <2> SUFFICES ASSUME NEW p \in Requests,
                        req'[p].mode = "new", req'[p].pc \in {"webhook", "commit"},
                        ~req'[p].own, req'[p].integ # None
                 PROVE  /\ req'[p].integ \in Ids'
                        /\ \A q \in Requests : ~(req'[q].mode = "unlink" /\ req'[q].pc = "commit"
                                                 /\ req'[q].integ = req'[p].integ)
      BY DEF RowsHeld
    <2>1. p # r /\ req'[p] = req[p]
      BY <1>3, <1>7
    <2>2. /\ req[p].integ \in Ids
          /\ \A q \in Requests : ~(req[q].mode = "unlink" /\ req[q].pc = "commit"
                                   /\ req[q].integ = req[p].integ)
      BY <2>1 DEF Shape, RowsHeld
    <2>3. req[p].integ \in Ids'
      BY <2>2
    <2>4. \A q \in Requests : ~(req'[q].mode = "unlink" /\ req'[q].pc = "commit"
                                /\ req'[q].integ = req[p].integ)
      BY <1>3, <1>7, <2>2
    <2> QED
      BY <2>1, <2>3, <2>4
  <1>10. JobsControlled'
    BY DEF Shape, JobsControlled
  <1> QED
    BY <1>6, <1>8, <1>9, <1>10 DEF Shape


\* The cards of a customer can be listed.
LEMMA CardsListed ==
    ASSUME NEW c \in Clients, NEW S, S \subseteq CardsOf[c]
    PROVE  /\ Cardinality(S) \in Nat
           /\ SetToSeq(S) \in [1..Cardinality(S) -> S] /\ IsInjective(SetToSeq(S))
           /\ \A x \in S : \E n \in 1..Cardinality(S) : SetToSeq(S)[n] = x
  <1>1. IsFiniteSet(S)
    BY MonobankAssumption, FS_Subset
  <1>2. Cardinality(S) \in Nat /\ ExistsBijection(1..Cardinality(S), S)
    BY <1>1, FS_CardinalityType
  <1>3. PICK f : f \in Bijection(1..Cardinality(S), S)
    BY <1>2 DEF ExistsBijection
  <1>4. f \in [1..Cardinality(S) -> S] /\ IsInjective(f)
    BY <1>3 DEF Bijection, Injection
  <1> DEFINE fs == [1..Cardinality(S) -> S]
  <1>5. \E g \in fs : IsInjective(g)
    BY <1>4
  <1> HIDE DEF fs
  <1>6. (CHOOSE g \in fs : IsInjective(g)) \in fs /\ IsInjective(CHOOSE g \in fs : IsInjective(g))
    BY <1>5
  <1>7. SetToSeq(S) \in [1..Cardinality(S) -> S] /\ IsInjective(SetToSeq(S))
    BY <1>6 DEF fs, SetToSeq
  <1> DEFINE n == Cardinality(S)
             g == SetToSeq(S)
  <1> HIDE DEF n, g
  <1>8. \A x \in S : \E k \in 1..n : g[k] = x
    <2>1. g \in Injection(1..n, S)
      BY <1>7 DEF Injection, IsInjective, n, g
    <2>2. IsFiniteSet(1..n) /\ Cardinality(1..n) = n
      <3>1. n \in Nat
        BY <1>2 DEF n
      <3> QED
        BY <3>1, FS_Interval
    <2>3. g \in Surjection(1..n, S)
      BY <1>1, <2>1, <2>2, FS_Injection DEF n
    <2> QED
      BY <2>3 DEF Surjection
  <1> QED
    BY <1>2, <1>7, <1>8 DEF n, g

LEMMA CommitLinkShape ==
    ASSUME Shape, UNCHANGED jobs, NEW r \in Requests, CommitLink(r) PROVE Shape'
  <1> DEFINE was == req[r]
             Account == [card : Cards, client : Clients, integration : Ids' \cup {None}]
  <1>1. /\ was \in Request(fresh, DOMAIN accounts) /\ Control(was) /\ was.mode = "new"
        /\ was.pc = "commit" /\ was.integ # None
    BY DEF Shape, TypeOK, Controlled, CommitLink
  <1>2. PICK c \in Clients : /\ was.client = {c} /\ was.added \subseteq CardsOf[c]
                            /\ (CHOOSE d \in Clients : d \in was.client) = c
    BY <1>1, OneCustomer
  <1> DEFINE added == SetToSeq(was.added)
             new == [client |-> c, token |-> was.token, secret |-> was.secret, status |-> "active"]
             news == [n \in DOMAIN added |-> AccountRow(r, added[n])]
  <1>3. /\ accounts' = Rebound(r) \o news
        /\ integrations' = IF was.own THEN Put(integrations, was.integ, new) ELSE integrations
        /\ req' = [req EXCEPT ![r] = Idle]
        /\ UNCHANGED <<fresh, bank, job, role, ops, faults, orderly, slipped, jobs>>
    BY <1>2 DEF CommitLink
  <1>4. /\ was.integ \in Ids' /\ Ids \subseteq Ids' /\ Ids' \subseteq 1..fresh
        /\ integrations' \in [Ids' -> Row(fresh)]
    <2>1. integrations \in [Ids -> Row(fresh)] /\ Ids \subseteq 1..fresh /\ fresh \in Nat
      BY DEF Shape, TypeOK
    <2>2. CASE was.own
      <3>1. was.integ \in 1..fresh /\ was.secret \in 1..fresh /\ was.token \in Nat
        BY <1>1, <2>1, <2>2 DEF Request, Control, None
      <3>2. new \in Row(fresh)
        BY <3>1 DEF Row
      <3>3. integrations' = Put(integrations, was.integ, new)
        BY <1>3, <2>2
      <3> HIDE DEF new, was
      <3>4. Ids' = Ids \cup {was.integ}
        BY <3>3 DEF Put, Ids
      <3>5. integrations' = [j \in Ids \cup {was.integ} |-> IF j = was.integ THEN new ELSE integrations[j]]
        BY <3>3 DEF Put, Ids
      <3> QED
        BY <2>1, <3>1, <3>2, <3>4, <3>5
    <2>3. CASE ~was.own
      <3>1. was.integ \in Ids
        BY <1>1, <2>3 DEF Shape, RowsHeld
      <3>2. integrations' = integrations /\ Ids' = Ids
        BY <1>3, <2>3 DEF Ids
      <3> QED
        BY <2>1, <3>1, <3>2
    <2> QED
      BY <2>2, <2>3
  <1>5. /\ accounts \in Seq([card : Cards, client : Clients, integration : Ids \cup {None}])
        /\ \A a \in DOMAIN accounts : accounts[a].card \in CardsOf[accounts[a].client]
    BY DEF Shape, TypeOK
  <1>6. /\ Rebound(r) \in Seq(Account) /\ Len(Rebound(r)) = Len(accounts)
        /\ \A a \in DOMAIN accounts : Rebound(r)[a].card \in CardsOf[Rebound(r)[a].client]
    <2>1. /\ Len(accounts) \in Nat /\ DOMAIN accounts = 1..Len(accounts)
          /\ \A a \in DOMAIN accounts :
                accounts[a] \in [card : Cards, client : Clients, integration : Ids \cup {None}]
      BY <1>5, LenProperties, ElementOfSeq
    <2>2. \A a \in DOMAIN accounts :
             /\ Rebound(r)[a] = IF a \in was.rebound
                                THEN [accounts[a] EXCEPT !.integration = was.integ] ELSE accounts[a]
             /\ Rebound(r)[a] \in Account
             /\ Rebound(r)[a].card = accounts[a].card /\ Rebound(r)[a].client = accounts[a].client
      BY <1>4, <2>1 DEF Rebound
    <2>3. Rebound(r) \in [1..Len(accounts) -> Account]
      BY <2>1, <2>2 DEF Rebound
    <2> HIDE DEF Account
    <2>4. Rebound(r) \in Seq(Account) /\ Len(Rebound(r)) = Len(accounts)
      BY <2>1, <2>3, SeqDef
    <2> QED
      BY <1>5, <2>2, <2>4
  <1>7. /\ news \in Seq(Account)
        /\ \A n \in DOMAIN news : news[n].card \in CardsOf[news[n].client]
    <2>1. /\ Cardinality(was.added) \in Nat
          /\ added \in [1..Cardinality(was.added) -> was.added]
      BY <1>2, CardsListed
    <2>2. \A x \in was.added : /\ AccountRow(r, x) \in Account
                               /\ AccountRow(r, x).card \in CardsOf[AccountRow(r, x).client]
      BY <1>2, <1>4 DEF AccountRow, Cards
    <2> HIDE DEF added, was, Account
    <2>3. news \in [1..Cardinality(was.added) -> Account]
      BY <2>1, <2>2
    <2>4. news \in Seq(Account)
      BY <2>1, <2>3, SeqDef
    <2> QED
      BY <2>1, <2>2, <2>4
  <1>8. /\ accounts' \in Seq(Account) /\ DOMAIN accounts \subseteq DOMAIN accounts'
        /\ \A a \in DOMAIN accounts' : accounts'[a].card \in CardsOf[accounts'[a].client]
    <2> DEFINE old == Rebound(r)
    <2>1. /\ old \in Seq(Account) /\ news \in Seq(Account) /\ accounts' = old \o news
          /\ Len(old) = Len(accounts)
          /\ accounts \in Seq([card : Cards, client : Clients, integration : Ids \cup {None}])
      BY <1>3, <1>5, <1>6, <1>7
    <2>2. /\ \A a \in DOMAIN old : old[a].card \in CardsOf[old[a].client]
          /\ \A n \in DOMAIN news : news[n].card \in CardsOf[news[n].client]
      <3>1. DOMAIN old = DOMAIN accounts
        BY DEF Rebound
      <3>2. \A a \in DOMAIN old : old[a].card \in CardsOf[old[a].client]
        BY <1>6, <3>1
      <3>3. \A n \in DOMAIN news : news[n].card \in CardsOf[news[n].client]
        BY <1>7
      <3> QED
        BY <3>2, <3>3
    <2> HIDE DEF old, news, Account
    <2>3. accounts' \in Seq(Account) /\ Len(accounts') = Len(old) + Len(news)
      BY <2>1, ConcatProperties
    <2>4. DOMAIN accounts \subseteq DOMAIN accounts'
      BY <2>1, <2>3
    <2>5. \A a \in DOMAIN accounts' : accounts'[a].card \in CardsOf[accounts'[a].client]
      <3> SUFFICES ASSUME NEW a \in DOMAIN accounts'
                   PROVE  accounts'[a].card \in CardsOf[accounts'[a].client]
        OBVIOUS
      <3>1. \/ a \in DOMAIN old /\ accounts'[a] = old[a]
            \/ (a - Len(old)) \in DOMAIN news /\ accounts'[a] = news[a - Len(old)]
        BY <2>1, <2>3
      <3> QED
        BY <2>2, <3>1
    <2> QED
      BY <2>3, <2>4, <2>5
  <1> HIDE DEF was, news, new
  <1> QED
    BY <1>3, <1>4, <1>8, CommitShape


LEMMA CommitRotationShape ==
    ASSUME Shape, UNCHANGED jobs, NEW r \in Requests, CommitRotation(r) PROVE Shape'
  <1> DEFINE i == req[r].integ
             token == req[r].token
  <1>1. /\ integrations' = WithToken(i, token) /\ req' = [req EXCEPT ![r] = Idle]
        /\ UNCHANGED <<fresh, bank, accounts, job, role, ops, faults, orderly, slipped, jobs>>
    BY DEF CommitRotation
  <1>2. /\ token \in Nat /\ integrations \in [Ids -> Row(fresh)] /\ Ids \subseteq 1..fresh
        /\ accounts \in Seq([card : Cards, client : Clients, integration : Ids \cup {None}])
        /\ \A a \in DOMAIN accounts : accounts[a].card \in CardsOf[accounts[a].client]
    BY DEF Shape, TypeOK, Request
  <1> HIDE DEF i, token
  <1>3. Ids' = Ids /\ integrations' \in [Ids' -> Row(fresh)]
    <2>1. CASE i \notin Ids
      BY <1>1, <1>2, <2>1 DEF WithToken, Ids
    <2>2. CASE i \in Ids
      <3>1. integrations' = [integrations EXCEPT ![i].token = token]
        BY <1>1, <2>2 DEF WithToken
      <3>2. Ids' = Ids
        BY <3>1 DEF Ids
      <3>3. [integrations[i] EXCEPT !.token = token] \in Row(fresh)
        BY <1>2, <2>2 DEF Row
      <3> QED
        BY <1>2, <2>2, <3>1, <3>2, <3>3
    <2> QED
      BY <2>1, <2>2
  <1> QED
    BY <1>1, <1>2, <1>3, CommitShape

LEMMA CommitUnlinkShape ==
    ASSUME Shape, UNCHANGED jobs, NEW r \in Requests, CommitUnlink(r) PROVE Shape'
  <1> DEFINE i == req[r].integ
             Account == [card : Cards, client : Clients, integration : Ids \cup {None}]
             Left == [card : Cards, client : Clients, integration : Ids' \cup {None}]
  <1>1. /\ integrations' = [j \in Ids \ {i} |-> integrations[j]]
        /\ accounts' = [a \in DOMAIN accounts |->
                          IF accounts[a].integration = i
                          THEN [accounts[a] EXCEPT !.integration = None] ELSE accounts[a]]
        /\ req' = [req EXCEPT ![r] = Idle] /\ req[r].mode = "unlink" /\ req[r].pc = "commit"
        /\ UNCHANGED <<fresh, bank, job, role, ops, faults, orderly, slipped, jobs>>
    BY DEF CommitUnlink
  <1>2. /\ integrations \in [Ids -> Row(fresh)] /\ Ids \subseteq 1..fresh
        /\ accounts \in Seq(Account)
        /\ \A a \in DOMAIN accounts : accounts[a].card \in CardsOf[accounts[a].client]
    BY DEF Shape, TypeOK
  <1>3. Ids' = Ids \ {i} /\ integrations' \in [Ids' -> Row(fresh)]
    BY <1>1, <1>2 DEF Ids
  <1>4. /\ Len(accounts) \in Nat /\ DOMAIN accounts = 1..Len(accounts)
        /\ \A a \in DOMAIN accounts : accounts[a] \in Account
    BY <1>2, LenProperties, ElementOfSeq
  <1>5. \A a \in DOMAIN accounts :
           /\ accounts'[a] \in Left /\ accounts'[a].card = accounts[a].card
           /\ accounts'[a].client = accounts[a].client
    BY <1>1, <1>3, <1>4
  <1>6. accounts' \in Seq(Left)
    <2> HIDE DEF Account, Left
    <2>1. accounts' \in [1..Len(accounts) -> Left]
      BY <1>1, <1>4, <1>5
    <2> QED
      BY <1>4, <2>1, SeqDef
  <1>7. /\ \A a \in DOMAIN accounts' : accounts'[a].card \in CardsOf[accounts'[a].client]
        /\ DOMAIN accounts \subseteq DOMAIN accounts'
    BY <1>1, <1>2, <1>5
  <1>8. Ids \ {req[r].integ} \subseteq Ids' /\ Ids' \subseteq 1..fresh
    BY <1>2, <1>3
  <1> HIDE DEF i
  <1> QED
    BY <1>1, <1>3, <1>6, <1>7, <1>8, CommitShape

LEMMA UnlinkShape ==
    ASSUME Shape, UNCHANGED jobs, NEW r \in Requests, NEW i \in Ids, Unlink(r, i)
    PROVE  Shape'
  <1>1. PICK token \in DecryptToken(i) :
           req' = [req EXCEPT ![r] = [Idle EXCEPT !.pc = "deregister", !.mode = "unlink", !.integ = i,
                                       !.client = {integrations[i].client}, !.token = token]]
    BY DEF Unlink
  <1> DEFINE q == [Idle EXCEPT !.pc = "deregister", !.mode = "unlink", !.integ = i,
                               !.client = {integrations[i].client}, !.token = token]
  <1>2. /\ UNCHANGED <<fresh, bank, integrations, accounts, job, role, jobs, faults, slipped>>
        /\ ops' \in Nat /\ orderly' \in BOOLEAN /\ faults' \in Nat /\ slipped' \in BOOLEAN
        /\ fresh' \in Nat /\ fresh <= fresh' /\ bank' \in [Clients -> [token : Nat, hook : 0..fresh]]
    <2>1. UNCHANGED <<fresh, bank, integrations, accounts, job, role, jobs, faults, slipped>>
      BY DEF Unlink, tables
    <2>2. ops' \in Nat /\ orderly' \in BOOLEAN
      BY SpendTyped DEF Unlink
    <2> QED
      BY <2>1, <2>2, ScalarsTyped
  <1>3. /\ integrations[i].client \in Clients /\ token \in Nat /\ i \in 1..fresh
    BY RowsTyped DEF DecryptToken, ActiveIds
  <1>4. Idle \in Request(fresh, DOMAIN accounts) /\ Idle.added = {} /\ Idle.own = FALSE
    BY ScalarsTyped DEF Idle, Request, None
  <1>5. q \in Request(fresh, DOMAIN accounts)
    <2>1. i \in 0..fresh
      BY <1>3, ScalarsTyped
    <2> QED
      BY <1>3, <1>4, <2>1 DEF Request
  <1>6. /\ q.pc = "deregister" /\ q.mode = "unlink" /\ q.client = {integrations[i].client}
        /\ q.added = {} /\ q.own = FALSE /\ q.integ = i /\ i # None
        /\ req' = [req EXCEPT ![r] = q]
    BY <1>1, <1>2, <1>3, <1>4 DEF Request, None
  <1> HIDE DEF q
  <1>7. Control(q)
    BY <1>3, <1>6 DEF Control
  <1>8. q \in Request(fresh', DOMAIN accounts)
    BY <1>2, <1>5
  <1>9. q.mode # "new" /\ q.pc # "commit"
    BY <1>6
  <1> QED
    BY <1>2, <1>6, <1>7, <1>8, <1>9, RequestMoves

LEMMA RollbackShape ==
    ASSUME Shape, UNCHANGED jobs, NEW r \in Requests, Rollback(r) PROVE Shape'
  <1>1. /\ req' = [req EXCEPT ![r] = Idle] /\ ops' \in Nat /\ faults' \in Nat
        /\ orderly' \in BOOLEAN /\ slipped' \in BOOLEAN
        /\ UNCHANGED <<fresh, bank, integrations, accounts, job, role, jobs>>
    <2>1. /\ req' = [req EXCEPT ![r] = Idle] /\ faults' = faults + 1
          /\ UNCHANGED <<fresh, bank, integrations, accounts, job, role, jobs, ops, slipped>>
          /\ UNCHANGED orderly
      BY DEF Rollback, tables
    <2>2. ops \in Nat /\ faults \in Nat /\ slipped \in BOOLEAN
      BY ScalarsTyped
    <2>3. ops' \in Nat /\ faults' \in Nat
      BY <2>1, <2>2
    <2>4. orderly' \in BOOLEAN
      BY <2>1, ScalarsTyped
    <2>5. slipped' \in BOOLEAN
      BY <2>1, <2>2
    <2> QED
      BY <2>1, <2>3, <2>4, <2>5
  <1> QED
    BY <1>1, RequestEnds

\* The re-registration job, the bank and what the requests do not touch.
LEMMA OthersShape ==
    ASSUME Shape, UNCHANGED <<req, accounts, jobs>>, fresh' \in Nat, fresh <= fresh',
           Ids' = Ids, integrations' \in [Ids -> Row(fresh')],
           bank' \in [Clients -> [token : Nat, hook : 0..fresh']],
           job' \in [left : SUBSET ((1..fresh') \X Row(fresh')), row : SUBSET Row(fresh')],
           role' \in Roles,
           ops' \in Nat, faults' \in Nat, orderly' \in BOOLEAN, slipped' \in BOOLEAN
    PROVE  Shape'
  <1> DEFINE dom == DOMAIN accounts
  <1>1. /\ req \in [Requests -> Request(fresh, dom)] /\ jobs \in Seq(Backfill(fresh, dom))
        /\ fresh \in Nat /\ dom \subseteq dom /\ Ids \subseteq 1..fresh
        /\ accounts \in Seq([card : Cards, client : Clients, integration : Ids \cup {None}])
        /\ \A a \in DOMAIN accounts : accounts[a].card \in CardsOf[accounts[a].client]
    BY DEF Shape, TypeOK
  <1>2. /\ Request(fresh, dom) \subseteq Request(fresh', dom)
        /\ Backfill(fresh, dom) \subseteq Backfill(fresh', dom)
    <2> HIDE DEF dom
    <2> QED
      BY <1>1, TypesGrow
  <1>3. /\ req' \in [Requests -> Request(fresh', dom)] /\ jobs \in Seq(Backfill(fresh', dom))
        /\ Ids' \subseteq 1..fresh'
    BY <1>1, <1>2, SeqMonotonic
  <1>4. TypeOK'
    BY <1>1, <1>3 DEF TypeOK
  <1>5. Controlled' /\ RowsHeld' /\ JobsControlled'
    BY DEF Shape, Controlled, RowsHeld, JobsControlled
  <1> QED
    BY <1>4, <1>5 DEF Shape


\* What the re-registration job and the bank leave alone.
LEMMA OthersKeep ==
    ASSUME Shape
    PROVE  /\ integrations \in [Ids -> Row(fresh)] /\ fresh \in Nat /\ fresh <= fresh
           /\ bank \in [Clients -> [token : Nat, hook : 0..fresh]]
           /\ job \in [left : SUBSET ((1..fresh) \X Row(fresh)), row : SUBSET Row(fresh)]
           /\ role \in Roles
  BY DEF Shape, TypeOK

LEMMA CountersKeep ==
    ASSUME Shape
    PROVE  /\ UNCHANGED ops => ops' \in Nat
           /\ UNCHANGED faults => faults' \in Nat
           /\ faults' = faults + 1 => faults' \in Nat
           /\ UNCHANGED orderly => orderly' \in BOOLEAN
           /\ orderly' = FALSE => orderly' \in BOOLEAN
           /\ UNCHANGED slipped => slipped' \in BOOLEAN
  <1>1. ops \in Nat /\ faults \in Nat
    BY DEF Shape, TypeOK
  <1>2. orderly \in BOOLEAN
    BY DEF Shape, TypeOK
  <1>3. slipped \in BOOLEAN
    BY DEF Shape, TypeOK
  <1>4. /\ UNCHANGED ops => ops' \in Nat
        /\ UNCHANGED faults => faults' \in Nat
        /\ faults' = faults + 1 => faults' \in Nat
    BY <1>1
  <1>5. UNCHANGED orderly => orderly' \in BOOLEAN
    BY <1>2
  <1>6. orderly' = FALSE => orderly' \in BOOLEAN
    OBVIOUS
  <1>7. UNCHANGED slipped => slipped' \in BOOLEAN
    BY <1>3
  <1> QED
    BY <1>4, <1>5, <1>6, <1>7

LEMMA StartReregistrationShape ==
    ASSUME Shape, UNCHANGED jobs, StartReregistration PROVE Shape'
  <1>1. /\ UNCHANGED <<integrations, accounts, role, fresh, slipped, bank, req, faults>>
        /\ job' = [NoJob EXCEPT !.left = ListActive]
    BY DEF StartReregistration, tables
  <1>2. ops' \in Nat /\ orderly' \in BOOLEAN /\ faults' \in Nat /\ slipped' \in BOOLEAN
    BY <1>1, SpendTyped, CountersKeep DEF StartReregistration
  <1>3. ListActive \subseteq (1..fresh) \X Row(fresh)
    BY RowsTyped DEF ListActive, ActiveIds
  <1>4. job' \in [left : SUBSET ((1..fresh) \X Row(fresh)), row : SUBSET Row(fresh)]
    BY <1>1, <1>3 DEF NoJob
  <1>5. Ids' = Ids
    BY <1>1 DEF Ids
  <1> QED
    BY <1>1, <1>2, <1>4, <1>5, OthersKeep, OthersShape

LEMMA UpdateConfigShape ==
    ASSUME Shape, UNCHANGED jobs, UpdateConfig PROVE Shape'
  <1> DEFINE n == fresh + 1
  <1>1. PICK x \in job.left :
           LET config == [x[2] EXCEPT !.secret = n]
           IN  /\ integrations' = IF x[1] \in Ids
                                  THEN [integrations EXCEPT ![x[1]].token = config.token,
                                                            ![x[1]].secret = config.secret]
                                  ELSE integrations
               /\ job' = [left |-> job.left \ {x}, row |-> {config}]
    BY DEF UpdateConfig
  <1> DEFINE config == [x[2] EXCEPT !.secret = n]
  <1>0. /\ integrations' = IF x[1] \in Ids
                           THEN [integrations EXCEPT ![x[1]].token = config.token,
                                                     ![x[1]].secret = config.secret]
                           ELSE integrations
        /\ job' = [left |-> job.left \ {x}, row |-> {config}]
    BY <1>1
  <1>2. /\ fresh' = n /\ n \in Nat /\ fresh <= n /\ n \in 1..n
        /\ UNCHANGED <<bank, accounts, req, role, ops, faults, orderly, slipped>>
    BY OthersKeep DEF UpdateConfig
  <1>3. Row(fresh) \subseteq Row(n) /\ 1..fresh \subseteq 1..n /\ 0..fresh \subseteq 0..n
    BY <1>2, OthersKeep DEF Row
  <1>4. x[1] \in 1..fresh /\ x[2] \in Row(fresh)
    BY OthersKeep
  <1>5. integrations \in [Ids -> Row(n)]
    BY <1>3, OthersKeep
  <1>6. config \in Row(n) /\ config.token \in Nat /\ config.secret \in 1..n
    BY <1>2, <1>3, <1>4 DEF Row
  <1>7. integrations' \in [Ids -> Row(n)] /\ Ids' = Ids
    <2> HIDE DEF n, config
    <2>1. \A row \in Row(n) :
             [row EXCEPT !.token = config.token, !.secret = config.secret] \in Row(n)
      BY <1>2, <1>6 DEF Row
    <2>2. integrations' \in [Ids -> Row(n)]
      BY <1>0, <1>5, <2>1
    <2> QED
      BY <2>2 DEF Ids
  <1>8. job' \in [left : SUBSET ((1..n) \X Row(n)), row : SUBSET Row(n)]
    <2>1. job.left \subseteq (1..n) \X Row(n)
      BY <1>3, OthersKeep
    <2> HIDE DEF n, config
    <2> QED
      BY <1>0, <1>6, <2>1
  <1>9. bank' \in [Clients -> [token : Nat, hook : 0..n]]
    BY <1>2, <1>3, OthersKeep
  <1> HIDE DEF n
  <1>10. fresh' \in Nat /\ fresh <= fresh' /\ role' \in Roles
    BY <1>2, OthersKeep
  <1>11. ops' \in Nat /\ faults' \in Nat /\ orderly' \in BOOLEAN /\ slipped' \in BOOLEAN
    BY <1>2, CountersKeep
  <1> QED
    BY <1>2, <1>7, <1>8, <1>9, <1>10, <1>11, OthersShape

LEMMA PushConfigShape ==
    ASSUME Shape, UNCHANGED jobs, PushConfig PROVE Shape'
  <1>1. PICK config \in job.row : Register(config.client, config.token, config.secret)
    BY DEF PushConfig
  <1>2. /\ job' = [job EXCEPT !.row = {}]
        /\ UNCHANGED <<integrations, accounts, role, fresh, slipped, req, ops, faults>>
    BY DEF PushConfig, tables
  <1>3. config.client \in Clients /\ config.secret \in 0..fresh
    <2>1. config \in Row(fresh)
      BY OthersKeep
    <2> QED
      BY <2>1, OthersKeep DEF Row
  <1>4. bank' \in [Clients -> [token : Nat, hook : 0..fresh]] /\ orderly' \in BOOLEAN
    BY <1>1, <1>3, RegisterTyped
  <1>5. job' \in [left : SUBSET ((1..fresh) \X Row(fresh)), row : SUBSET Row(fresh)]
    BY <1>2, OthersKeep
  <1>6. Ids' = Ids /\ ops' \in Nat /\ faults' \in Nat /\ slipped' \in BOOLEAN
    BY <1>2, CountersKeep DEF Ids
  <1> QED
    BY <1>2, <1>4, <1>5, <1>6, OthersKeep, OthersShape

LEMMA JobDiesShape ==
    ASSUME Shape, UNCHANGED jobs, JobDies PROVE Shape'
  <1>1. /\ job' = NoJob /\ faults' = faults + 1 /\ orderly' = FALSE
        /\ UNCHANGED <<integrations, accounts, role, fresh, slipped, bank, req, ops>>
    BY DEF JobDies, tables
  <1>2. job' \in [left : SUBSET ((1..fresh) \X Row(fresh)), row : SUBSET Row(fresh)]
    BY <1>1 DEF NoJob
  <1>3. Ids' = Ids /\ ops' \in Nat /\ faults' \in Nat /\ orderly' \in BOOLEAN /\ slipped' \in BOOLEAN
    BY <1>1, CountersKeep DEF Ids
  <1> QED
    BY <1>1, <1>2, <1>3, OthersKeep, OthersShape

LEMMA NewTokenShape ==
    ASSUME Shape, UNCHANGED jobs, NEW c \in Clients, NewToken(c) PROVE Shape'
  <1>1. /\ bank' = [bank EXCEPT ![c].token = @ + 1]
        /\ UNCHANGED <<integrations, accounts, role, fresh, slipped, req, job, faults>>
    BY DEF NewToken, tables
  <1>2. bank' \in [Clients -> [token : Nat, hook : 0..fresh]]
    BY <1>1, OthersKeep
  <1>3. Ids' = Ids /\ ops' \in Nat /\ orderly' \in BOOLEAN /\ faults' \in Nat /\ slipped' \in BOOLEAN
    BY <1>1, SpendTyped, CountersKeep DEF NewToken, Ids
  <1> QED
    BY <1>1, <1>2, <1>3, OthersKeep, OthersShape


-----------------------------------------------------------------------------
(* Backfill.                                                               *)

LEMMA BackfillShape ==
    ASSUME Shape, UNCHANGED <<req, accounts, fresh, bank, job>>,
           Ids' = Ids, integrations' \in [Ids -> Row(fresh)],
           role' \in Roles,
           ops' \in Nat, faults' \in Nat, orderly' \in BOOLEAN, slipped' \in BOOLEAN,
           jobs' \in Seq(Backfill(fresh, DOMAIN accounts)), JobsControlled'
    PROVE  Shape'
  <1>1. /\ req \in [Requests -> Request(fresh, DOMAIN accounts)]
        /\ fresh \in Nat /\ Ids \subseteq 1..fresh
        /\ bank \in [Clients -> [token : Nat, hook : 0..fresh]]
        /\ job \in [left : SUBSET ((1..fresh) \X Row(fresh)), row : SUBSET Row(fresh)]
        /\ accounts \in Seq([card : Cards, client : Clients, integration : Ids \cup {None}])
        /\ \A a \in DOMAIN accounts : accounts[a].card \in CardsOf[accounts[a].client]
    BY DEF Shape, TypeOK
  <1>2. TypeOK'
    BY <1>1 DEF TypeOK
  <1>3. Controlled' /\ RowsHeld'
    BY DEF Shape, Controlled, RowsHeld
  <1> QED
    BY <1>2, <1>3 DEF Shape

\* What an operation may make of a Job.
JobControl(k) ==
    /\ k.pod # "none" => k.status = "open"
    /\ k.status = "open" => k.attempts <= BackoffLimit

LEMMA OneJob ==
    ASSUME Shape, NEW j \in DOMAIN jobs
    PROVE  /\ jobs \in Seq(Backfill(fresh, DOMAIN accounts))
           /\ jobs[j] \in Backfill(fresh, DOMAIN accounts) /\ JobControl(jobs[j])
           /\ j \in 1..Len(jobs) /\ Len(jobs) \in Nat /\ DOMAIN jobs = 1..Len(jobs)
  <1>1. jobs \in Seq(Backfill(fresh, DOMAIN accounts))
    BY DEF Shape, TypeOK
  <1>2. JobControl(jobs[j])
    BY DEF Shape, JobsControlled, JobControl
  <1> QED
    BY <1>1, <1>2, LenProperties, ElementOfSeq

LEMMA JobMoves ==
    ASSUME Shape, NEW j \in DOMAIN jobs, NEW k \in Backfill(fresh, DOMAIN accounts), JobControl(k),
           jobs' = [jobs EXCEPT ![j] = k]
    PROVE  jobs' \in Seq(Backfill(fresh, DOMAIN accounts)) /\ JobsControlled'
  <1>1. jobs' \in Seq(Backfill(fresh, DOMAIN accounts))
    BY OneJob, ExceptSeq
  <1>2. DOMAIN jobs' = DOMAIN jobs /\ \A l \in DOMAIN jobs : jobs'[l] = IF l = j THEN k ELSE jobs[l]
    OBVIOUS
  <1>3. JobsControlled'
    BY <1>2 DEF Shape, JobsControlled, JobControl
  <1> QED
    BY <1>1, <1>3

LEMMA PodFailsShape ==
    ASSUME Shape, NEW j \in DOMAIN jobs, jobs[j].pod # "none", PodFails(j)
    PROVE  jobs' \in Seq(Backfill(fresh, DOMAIN accounts)) /\ JobsControlled'
  <1> DEFINE was == jobs[j]
             n == was.attempts + 1
             status == IF n > BackoffLimit THEN "failed" ELSE "open"
             k == [was EXCEPT !.attempts = n, !.pod = "none", !.token = None, !.status = status]
  <1>1. /\ was \in Backfill(fresh, DOMAIN accounts) /\ was.status = "open"
        /\ was.attempts <= BackoffLimit /\ jobs \in Seq(Backfill(fresh, DOMAIN accounts))
    BY OneJob DEF JobControl
  <1>2. jobs' = [jobs EXCEPT ![j] = k]
    BY DEF PodFails
  <1>3. n \in 0..(BackoffLimit + 1) /\ BackoffLimit \in Nat /\ None \in Nat
    BY <1>1, BackoffAssumption DEF Backfill, None
  <1>4. /\ k.pod = "none" /\ k.status = status /\ k.attempts = n
        /\ k \in Backfill(fresh, DOMAIN accounts)
    BY <1>1, <1>3 DEF Backfill, Pod
  <1>5. JobControl(k)
    BY <1>3, <1>4 DEF JobControl
  <1> HIDE DEF k
  <1> QED
    BY <1>2, <1>4, <1>5, JobMoves

LEMMA AccountTyped ==
    ASSUME Shape, NEW a \in DOMAIN accounts
    PROVE  /\ accounts[a].card \in Cards /\ accounts[a].client \in Clients
           /\ accounts[a].integration \in Ids \cup {None} /\ Ids \subseteq 1..fresh
  <1> DEFINE Account == [card : Cards, client : Clients, integration : Ids \cup {None}]
  <1>1. accounts \in Seq(Account) /\ Ids \subseteq 1..fresh
    BY DEF Shape, TypeOK
  <1> HIDE DEF Account
  <1>2. a \in 1..Len(accounts)
    BY <1>1, LenProperties
  <1>3. accounts[a] \in Account
    BY <1>1, <1>2, ElementOfSeq
  <1> QED
    BY <1>1, <1>3 DEF Account

LEMMA TriggerBackfillShape ==
    ASSUME Shape, NEW a \in DOMAIN accounts, TriggerBackfill(a) PROVE Shape'
  <1> DEFINE k == NewJob(a)
             old == Backfill(fresh, DOMAIN accounts)
  <1>1. /\ UNCHANGED <<integrations, accounts, role, fresh, slipped, bank, req, job, faults>>
        /\ jobs' = Append(jobs, k)
    BY DEF TriggerBackfill, tables
  <1>2. ops' \in Nat /\ orderly' \in BOOLEAN /\ faults' \in Nat /\ slipped' \in BOOLEAN
    BY <1>1, SpendTyped, CountersKeep DEF TriggerBackfill
  <1>3. accounts[a].integration \in 1..fresh
    BY AccountTyped DEF TriggerBackfill, IsBound
  <1>4. k \in old /\ JobControl(k)
    BY <1>3, BackoffAssumption DEF NewJob, Backfill, Pod, None, JobControl
  <1>5. jobs \in Seq(old)
    BY DEF Shape, TypeOK
  <1>6. jobs' \in Seq(old) /\ JobsControlled'
    <2>1. \A j \in DOMAIN jobs : JobControl(jobs[j])
      BY DEF Shape, JobsControlled, JobControl
    <2> HIDE DEF old, k
    <2>2. /\ jobs' \in Seq(old) /\ Len(jobs') = Len(jobs) + 1 /\ jobs'[Len(jobs) + 1] = k
          /\ \A j \in 1..Len(jobs) : jobs'[j] = jobs[j]
      BY <1>1, <1>4, <1>5, AppendProperties
    <2>3. /\ DOMAIN jobs = 1..Len(jobs) /\ Len(jobs) \in Nat
          /\ DOMAIN jobs' = 1..(Len(jobs) + 1)
      BY <1>5, <2>2, LenProperties
    <2>4. \A j \in DOMAIN jobs' : JobControl(jobs'[j])
      BY <1>4, <2>1, <2>2, <2>3
    <2> QED
      BY <2>2, <2>4 DEF JobsControlled, JobControl
  <1>7. Ids' = Ids
    BY <1>1 DEF Ids
  <1> QED
    BY <1>1, <1>2, <1>6, <1>7, OthersKeep, BackfillShape

LEMMA PodShape ==
    ASSUME Shape, NEW j \in DOMAIN jobs, PodStep(j) \/ PodDies(j) \/ Deadline(j)
    PROVE  Shape'
  <1> DEFINE old == Backfill(fresh, DOMAIN accounts)
             was == jobs[j]
  <1>1. was \in old /\ JobControl(was) /\ jobs \in Seq(old)
    BY OneJob
  <1>2. ASSUME jobs' \in Seq(old), JobsControlled', UNCHANGED linkVars PROVE Shape'
    <2>1. /\ UNCHANGED <<req, accounts, fresh, bank, job, integrations, role>>
          /\ UNCHANGED ops /\ UNCHANGED faults /\ UNCHANGED orderly /\ UNCHANGED slipped
      BY <1>2 DEF linkVars
    <2>2. Ids' = Ids /\ ops' \in Nat /\ faults' \in Nat /\ orderly' \in BOOLEAN /\ slipped' \in BOOLEAN
      BY <2>1, CountersKeep DEF Ids
    <2> QED
      BY <1>2, <2>1, <2>2, OthersKeep, BackfillShape
  <1>3. ASSUME StartPod(j) PROVE Shape'
    <2> DEFINE k == [was EXCEPT !.pod = "starting"]
    <2>1. jobs' = [jobs EXCEPT ![j] = k] /\ was.status = "open"
      BY <1>3 DEF StartPod
    <2>2. k \in old /\ k.pod = "starting" /\ k.status = was.status /\ k.attempts = was.attempts
      BY <1>1 DEF Backfill, Pod
    <2> HIDE DEF k
    <2>3. JobControl(k)
      BY <1>1, <2>1, <2>2 DEF JobControl
    <2>4. jobs' \in Seq(old) /\ JobsControlled'
      BY <2>1, <2>2, <2>3, JobMoves
    <2> QED
      BY <1>2, <1>3, <2>4 DEF StartPod
  <1>4. ASSUME ReadIntegration(j) PROVE Shape'
    <2>1. CASE PodFails(j)
      <3>1. was.pod # "none"
        BY <1>4 DEF ReadIntegration
      <3> QED
        BY <1>2, <1>4, <2>1, <3>1, PodFailsShape DEF ReadIntegration
    <2>2. CASE \E token \in DecryptToken(was.integ) :
                  jobs' = [jobs EXCEPT ![j].pod = "fetching", ![j].token = token]
      <3>1. PICK token \in DecryptToken(was.integ) :
               jobs' = [jobs EXCEPT ![j].pod = "fetching", ![j].token = token]
        BY <2>2
      <3> DEFINE k == [was EXCEPT !.pod = "fetching", !.token = token]
      <3>2. jobs' = [jobs EXCEPT ![j] = k] /\ was.pod = "starting"
        BY <1>4, <3>1 DEF ReadIntegration
      <3>3. token \in Nat
        BY RowsTyped DEF DecryptToken, ActiveIds
      <3>4. k \in old /\ k.pod = "fetching" /\ k.status = was.status /\ k.attempts = was.attempts
        BY <1>1, <3>3 DEF Backfill, Pod
      <3> HIDE DEF k
      <3>5. JobControl(k)
        BY <1>1, <3>2, <3>4 DEF JobControl
      <3>6. jobs' \in Seq(old) /\ JobsControlled'
        BY <3>2, <3>4, <3>5, JobMoves
      <3> QED
        BY <1>2, <1>4, <3>6 DEF ReadIntegration
    <2> QED
      BY <1>4, <2>1, <2>2 DEF ReadIntegration
  <1>5. ASSUME FetchStatements(j) PROVE Shape'
    <2> DEFINE k == [was EXCEPT !.pod = "flushing"]
    <2>1. jobs' = [jobs EXCEPT ![j] = k] /\ was.pod = "fetching"
      BY <1>5 DEF FetchStatements
    <2>2. k \in old /\ k.pod = "flushing" /\ k.status = was.status /\ k.attempts = was.attempts
      BY <1>1 DEF Backfill, Pod
    <2> HIDE DEF k
    <2>3. JobControl(k)
      BY <1>1, <2>1, <2>2 DEF JobControl
    <2>4. jobs' \in Seq(old) /\ JobsControlled'
      BY <2>1, <2>2, <2>3, JobMoves
    <2> QED
      BY <1>2, <1>5, <2>4 DEF FetchStatements
  <1>6. ASSUME TokenRefused(j) PROVE Shape'
    <2> DEFINE k == [was EXCEPT !.pod = "marking"]
    <2>1. jobs' = [jobs EXCEPT ![j] = k] /\ was.pod = "fetching"
      BY <1>6 DEF TokenRefused
    <2>2. k \in old /\ k.pod = "marking" /\ k.status = was.status /\ k.attempts = was.attempts
      BY <1>1 DEF Backfill, Pod
    <2> HIDE DEF k
    <2>3. JobControl(k)
      BY <1>1, <2>1, <2>2 DEF JobControl
    <2>4. jobs' \in Seq(old) /\ JobsControlled'
      BY <2>1, <2>2, <2>3, JobMoves
    <2> QED
      BY <1>2, <1>6, <2>4 DEF TokenRefused
  <1>7. ASSUME MarkError(j) PROVE Shape'
    <2>1. jobs' \in Seq(old) /\ JobsControlled'
      <3>1. was.pod # "none" /\ PodFails(j)
        BY <1>7 DEF MarkError
      <3> QED
        BY <3>1, PodFailsShape
    <2>2. /\ integrations' = WithError(was.integ)
          /\ UNCHANGED <<bank, accounts, req, job, role, fresh, ops, faults, orderly, slipped>>
      BY <1>7 DEF MarkError
    <2>3. integrations' \in [Ids -> Row(fresh)]
      <3>1. integrations \in [Ids -> Row(fresh)]
        BY OthersKeep
      <3>2. \A row \in Row(fresh) : [row EXCEPT !.status = "error"] \in Row(fresh)
        BY DEF Row
      <3> QED
        BY <2>2, <3>1, <3>2 DEF WithError
    <2>4. Ids' = Ids /\ ops' \in Nat /\ faults' \in Nat /\ orderly' \in BOOLEAN /\ slipped' \in BOOLEAN
      BY <2>2, <2>3, CountersKeep DEF Ids
    <2> QED
      BY <2>1, <2>2, <2>3, <2>4, OthersKeep, BackfillShape
  <1>8. ASSUME PodDies(j) PROVE Shape'
    <2>1. jobs' \in Seq(old) /\ JobsControlled'
      <3>1. was.pod # "none" /\ PodFails(j)
        BY <1>8 DEF PodDies
      <3> QED
        BY <3>1, PodFailsShape
    <2>2. /\ faults' = faults + 1
          /\ UNCHANGED <<integrations, accounts, role, fresh, slipped, bank, req, job, ops,
                         orderly>>
      BY <1>8 DEF PodDies, tables
    <2>3. Ids' = Ids /\ ops' \in Nat /\ faults' \in Nat /\ orderly' \in BOOLEAN /\ slipped' \in BOOLEAN
      BY <2>2, CountersKeep DEF Ids
    <2> QED
      BY <2>1, <2>2, <2>3, OthersKeep, BackfillShape
  <1>9. ASSUME Deadline(j) PROVE Shape'
    <2> DEFINE k == [was EXCEPT !.status = "failed", !.pod = "none"]
    <2>1. jobs' = [jobs EXCEPT ![j] = k] /\ was.status = "open"
      BY <1>9 DEF Deadline
    <2>2. k \in old /\ k.pod = "none" /\ k.status = "failed" /\ k.attempts = was.attempts
      BY <1>1 DEF Backfill, Pod
    <2> HIDE DEF k
    <2>3. JobControl(k)
      BY <1>1, <2>1, <2>2 DEF JobControl
    <2>4. jobs' \in Seq(old) /\ JobsControlled'
      BY <2>1, <2>2, <2>3, JobMoves
    <2>5. /\ faults' = faults + 1
          /\ UNCHANGED <<integrations, accounts, role, fresh, slipped, bank, req, job, ops,
                         orderly>>
      BY <1>9 DEF Deadline, tables
    <2>6. Ids' = Ids /\ ops' \in Nat /\ faults' \in Nat /\ orderly' \in BOOLEAN /\ slipped' \in BOOLEAN
      BY <2>5, CountersKeep DEF Ids
    <2> QED
      BY <2>4, <2>5, <2>6, OthersKeep, BackfillShape
  <1>10. ASSUME Collect(j) PROVE Shape'
    <2> DEFINE k == [was EXCEPT !.status = "gone"]
    <2>1. jobs' = [jobs EXCEPT ![j] = k] /\ was.status \in {"complete", "failed"}
      BY <1>10 DEF Collect
    <2>2. k \in old /\ k.pod = was.pod /\ k.status = "gone" /\ k.attempts = was.attempts
      BY <1>1 DEF Backfill, Pod
    <2> HIDE DEF k
    <2>3. JobControl(k)
      BY <1>1, <2>1, <2>2 DEF JobControl
    <2>4. jobs' \in Seq(old) /\ JobsControlled'
      BY <2>1, <2>2, <2>3, JobMoves
    <2> QED
      BY <1>2, <1>10, <2>4 DEF Collect
  <1>11. ASSUME Flush(j) PROVE Shape'
    <2> DEFINE k == [was EXCEPT !.pod = "none", !.status = "complete"]
    <2>1. jobs' = [jobs EXCEPT ![j] = k] /\ was.pod = "flushing"
      BY <1>11 DEF Flush
    <2>2. k \in old /\ k.pod = "none" /\ k.status = "complete" /\ k.attempts = was.attempts
      BY <1>1 DEF Backfill, Pod
    <2> HIDE DEF k
    <2>3. JobControl(k)
      BY <1>1, <2>1, <2>2 DEF JobControl
    <2>4. jobs' \in Seq(old) /\ JobsControlled'
      BY <2>1, <2>2, <2>3, JobMoves
    <2> QED
      BY <1>2, <1>11, <2>4 DEF Flush
  <1> QED
    BY <1>3, <1>4, <1>5, <1>6, <1>7, <1>8, <1>9, <1>10, <1>11 DEF PodStep


-----------------------------------------------------------------------------
(* Types.                                                                  *)

LEMMA NextShape == Shape /\ [Next]_vars => Shape'
  <1> SUFFICES ASSUME Shape, [Next]_vars PROVE Shape'
    OBVIOUS
  <1>1. CASE LinkNext /\ UNCHANGED jobs
    <2>1. ASSUME NEW r \in Requests, NEW c \in Clients, Link(r, c) PROVE Shape'
      BY <1>1, <2>1, LinkShape
    <2>2. ASSUME NEW r \in Requests, NEW i \in Ids, Unlink(r, i) PROVE Shape'
      BY <1>1, <2>2, UnlinkShape
    <2>3. ASSUME NEW r \in Requests, LinkStep(r) PROVE Shape'
      <3>1. CASE CommitLink(r) \/ CommitRotation(r) \/ CommitUnlink(r)
        BY <1>1, <3>1, CommitLinkShape, CommitRotationShape, CommitUnlinkShape
      <3>2. CASE ~(CommitLink(r) \/ CommitRotation(r) \/ CommitUnlink(r))
        BY <1>1, <2>3, <3>2, StatementShape DEF LinkStep
      <3> QED
        BY <3>1, <3>2
    <2>4. ASSUME NEW r \in Requests, Rollback(r) PROVE Shape'
      BY <1>1, <2>4, RollbackShape
    <2>5. CASE StartReregistration \/ UpdateConfig \/ PushConfig \/ JobDies
      BY <1>1, <2>5, StartReregistrationShape, UpdateConfigShape, PushConfigShape, JobDiesShape
    <2>6. ASSUME NEW c \in Clients, NewToken(c) PROVE Shape'
      BY <1>1, <2>6, NewTokenShape
    <2> QED
      BY <1>1, <2>1, <2>2, <2>3, <2>4, <2>5, <2>6 DEF LinkNext
  <1>2. ASSUME NEW a \in DOMAIN accounts, TriggerBackfill(a) PROVE Shape'
    BY <1>2, TriggerBackfillShape
  <1>3. ASSUME NEW j \in DOMAIN jobs, PodStep(j) \/ PodDies(j) \/ Deadline(j) PROVE Shape'
    BY <1>3, PodShape
  <1>4. CASE UNCHANGED vars
    <2>1. /\ UNCHANGED <<req, accounts, fresh, bank, job, integrations, role, jobs>>
          /\ UNCHANGED ops /\ UNCHANGED faults /\ UNCHANGED orderly /\ UNCHANGED slipped
      BY <1>4 DEF vars, linkVars
    <2>2. Ids' = Ids /\ ops' \in Nat /\ faults' \in Nat /\ orderly' \in BOOLEAN /\ slipped' \in BOOLEAN
      BY <2>1, CountersKeep DEF Ids
    <2>3. jobs' \in Seq(Backfill(fresh, DOMAIN accounts)) /\ JobsControlled'
      BY <2>1 DEF Shape, TypeOK, JobsControlled
    <2> QED
      BY <2>1, <2>2, <2>3, OthersKeep, BackfillShape
  <1> QED
    BY <1>1, <1>2, <1>3, <1>4 DEF Next

\* The tables, the bank, the requests and the Jobs have their types, and every account
\* refers to an integration that exists, whatever links, unlinks, rotations, backfills
\* and the re-registration job overlap, break or lose.
THEOREM MonobankTypeCorrect == Spec => []TypeOK
  <1>1. Shape /\ [Next]_vars => Shape'
    BY NextShape
  <1>2. Shape => TypeOK
    BY DEF Shape
  <1> QED
    BY <1>1, <1>2, InitShape, PTL DEF Spec

-----------------------------------------------------------------------------
(* Backfills of one account.                                               *)

\* A Job is created when the older ones of the account do not look active.
OlderSpent ==
    \A j, k \in DOMAIN jobs :
        j < k /\ jobs[j].account = jobs[k].account => ~LooksActive(j)

\* A Job that does not look active does not do so again.
LEMMA StaysSpent ==
    ASSUME Shape, NEW j \in DOMAIN jobs, PodStep(j) \/ PodDies(j) \/ Deadline(j)
    PROVE  /\ DOMAIN jobs' = DOMAIN jobs
           /\ \A k \in DOMAIN jobs : /\ jobs'[k].account = jobs[k].account
                                     /\ LooksActive(k)' => LooksActive(k)
  <1>1. /\ jobs \in Seq(Backfill(fresh, DOMAIN accounts))
        /\ jobs[j] \in Backfill(fresh, DOMAIN accounts) /\ JobControl(jobs[j])
    BY OneJob
  <1>2. jobs[j].attempts \in Nat /\ BackoffLimit \in Nat /\ jobs[j].attempts + 1 \in Nat
    BY <1>1, BackoffAssumption DEF Backfill
  <1>3. ASSUME NEW k, jobs' = [jobs EXCEPT ![j] = k], k.account = jobs[j].account,
               k.status \in {"open", "failed"} /\ k.attempts < BackoffLimit
                  => jobs[j].status \in {"open", "failed"} /\ jobs[j].attempts < BackoffLimit
        PROVE  /\ DOMAIN jobs' = DOMAIN jobs
               /\ \A l \in DOMAIN jobs : /\ jobs'[l].account = jobs[l].account
                                         /\ LooksActive(l)' => LooksActive(l)
    <2>1. DOMAIN jobs' = DOMAIN jobs /\ \A l \in DOMAIN jobs : jobs'[l] = IF l = j THEN k ELSE jobs[l]
      BY <1>3
    <2> QED
      BY <1>3, <2>1 DEF LooksActive
  <1>4. CASE PodFails(j) /\ jobs[j].pod # "none"
    <2> DEFINE n == jobs[j].attempts + 1
               k == [jobs[j] EXCEPT !.attempts = n, !.pod = "none", !.token = None,
                                    !.status = IF n > BackoffLimit THEN "failed" ELSE "open"]
    <2>1. jobs' = [jobs EXCEPT ![j] = k] /\ jobs[j].status = "open"
      BY <1>1, <1>4 DEF PodFails, JobControl
    <2>2. k.account = jobs[j].account /\ k.attempts = n
      BY <1>1 DEF Backfill
    <2> HIDE DEF k
    <2>3. k.attempts < BackoffLimit => jobs[j].attempts < BackoffLimit
      BY <1>2, <2>2
    <2> QED
      BY <1>3, <2>1, <2>2, <2>3
  <1>5. CASE StartPod(j)
    <2> DEFINE k == [jobs[j] EXCEPT !.pod = "starting"]
    <2>1. jobs' = [jobs EXCEPT ![j] = k]
      BY <1>5 DEF StartPod
    <2>2. k.account = jobs[j].account /\ k.attempts = jobs[j].attempts /\ k.status = jobs[j].status
      BY <1>1 DEF Backfill
    <2> HIDE DEF k
    <2>3. k.status \in {"open", "failed"} => jobs[j].status \in {"open", "failed"}
      BY <1>5, <2>2 DEF StartPod
    <2> QED
      BY <1>3, <2>1, <2>2, <2>3
  <1>6. CASE FetchStatements(j)
    <2> DEFINE k == [jobs[j] EXCEPT !.pod = "flushing"]
    <2>1. jobs' = [jobs EXCEPT ![j] = k]
      BY <1>6 DEF FetchStatements
    <2>2. k.account = jobs[j].account /\ k.attempts = jobs[j].attempts /\ k.status = jobs[j].status
      BY <1>1 DEF Backfill
    <2> HIDE DEF k
    <2>3. k.status \in {"open", "failed"} => jobs[j].status \in {"open", "failed"}
      BY <1>6, <2>2 DEF FetchStatements
    <2> QED
      BY <1>3, <2>1, <2>2, <2>3
  <1>7. CASE TokenRefused(j)
    <2> DEFINE k == [jobs[j] EXCEPT !.pod = "marking"]
    <2>1. jobs' = [jobs EXCEPT ![j] = k]
      BY <1>7 DEF TokenRefused
    <2>2. k.account = jobs[j].account /\ k.attempts = jobs[j].attempts /\ k.status = jobs[j].status
      BY <1>1 DEF Backfill
    <2> HIDE DEF k
    <2>3. k.status \in {"open", "failed"} => jobs[j].status \in {"open", "failed"}
      BY <1>7, <2>2 DEF TokenRefused
    <2> QED
      BY <1>3, <2>1, <2>2, <2>3
  <1>8. CASE Deadline(j)
    <2> DEFINE k == [jobs[j] EXCEPT !.status = "failed", !.pod = "none"]
    <2>1. jobs' = [jobs EXCEPT ![j] = k]
      BY <1>8 DEF Deadline
    <2>2. k.account = jobs[j].account /\ k.attempts = jobs[j].attempts /\ k.status = "failed"
      BY <1>1 DEF Backfill
    <2> HIDE DEF k
    <2>3. k.status \in {"open", "failed"} => jobs[j].status \in {"open", "failed"}
      BY <1>8, <2>2 DEF Deadline
    <2> QED
      BY <1>3, <2>1, <2>2, <2>3
  <1>9. CASE Collect(j)
    <2> DEFINE k == [jobs[j] EXCEPT !.status = "gone"]
    <2>1. jobs' = [jobs EXCEPT ![j] = k]
      BY <1>9 DEF Collect
    <2>2. k.account = jobs[j].account /\ k.attempts = jobs[j].attempts /\ k.status = "gone"
      BY <1>1 DEF Backfill
    <2> HIDE DEF k
    <2>3. k.status \in {"open", "failed"} => jobs[j].status \in {"open", "failed"}
      BY <1>9, <2>2 DEF Collect
    <2> QED
      BY <1>3, <2>1, <2>2, <2>3
  <1>10. CASE ReadIntegration(j)
    <2>1. CASE PodFails(j)
      BY <1>4, <1>10, <2>1 DEF ReadIntegration
    <2>2. CASE \E token \in DecryptToken(jobs[j].integ) :
                  jobs' = [jobs EXCEPT ![j].pod = "fetching", ![j].token = token]
      <3>1. PICK token : jobs' = [jobs EXCEPT ![j].pod = "fetching", ![j].token = token]
        BY <2>2
      <3> DEFINE k == [jobs[j] EXCEPT !.pod = "fetching", !.token = token]
      <3>2. jobs' = [jobs EXCEPT ![j] = k]
        BY <3>1
      <3>3. k.account = jobs[j].account /\ k.attempts = jobs[j].attempts /\ k.status = jobs[j].status
        BY <1>1 DEF Backfill
      <3> HIDE DEF k
      <3> QED
        BY <1>3, <3>2, <3>3
    <2> QED
      BY <1>10, <2>1, <2>2 DEF ReadIntegration
  <1>11. CASE MarkError(j) \/ PodDies(j)
    BY <1>4, <1>11 DEF MarkError, PodDies
  <1>12. CASE Flush(j)
    <2> DEFINE k == [jobs[j] EXCEPT !.pod = "none", !.status = "complete"]
    <2>1. jobs' = [jobs EXCEPT ![j] = k]
      BY <1>12 DEF Flush
    <2>2. k.account = jobs[j].account /\ k.attempts = jobs[j].attempts /\ k.status = "complete"
      BY <1>1 DEF Backfill
    <2> HIDE DEF k
    <2>3. k.status \in {"open", "failed"} => jobs[j].status \in {"open", "failed"}
      BY <1>12, <2>2 DEF Flush
    <2> QED
      BY <1>3, <2>1, <2>2, <2>3
  <1> QED
    BY <1>5, <1>6, <1>7, <1>8, <1>9, <1>10, <1>11, <1>12 DEF PodStep

\* Two pods publish the history of one account at the same time only when the older Job
\* is at its last attempt, which _has_active_job takes for exhausted.
THEOREM OverlapsAtLastAttemptOnly == Spec => []OverlapAtLastAttempt
  <1> DEFINE Inv == Shape /\ OlderSpent
  <1>1. MonobankInit => OlderSpent
    BY DEF MonobankInit, OlderSpent
  <1>2. ASSUME Inv, [Next]_vars PROVE OlderSpent'
    <2>1. CASE UNCHANGED jobs
      BY <1>2, <2>1 DEF OlderSpent, LooksActive
    <2>2. ASSUME NEW a \in DOMAIN accounts, TriggerBackfill(a) PROVE OlderSpent'
      <3> DEFINE n == Len(jobs)
      <3>1. jobs' = Append(jobs, NewJob(a))
        BY <2>2 DEF TriggerBackfill
      <3>2. /\ n \in Nat /\ DOMAIN jobs = 1..n /\ DOMAIN jobs' = 1..(n + 1)
            /\ jobs'[n + 1].account = a /\ \A j \in 1..n : jobs'[j] = jobs[j]
        <4>1. jobs \in Seq(Backfill(fresh, DOMAIN accounts))
          BY <1>2 DEF Shape, TypeOK
        <4> QED
          BY <3>1, <4>1 DEF NewJob
      <3>3. \A j \in 1..n : LooksActive(j)' => LooksActive(j)
        BY <3>2 DEF LooksActive
      <3>4. \A j \in 1..n : jobs[j].account = a => ~LooksActive(j)
        BY <2>2, <3>2 DEF TriggerBackfill
      <3> SUFFICES ASSUME NEW j \in DOMAIN jobs', NEW k \in DOMAIN jobs', j < k,
                          jobs'[j].account = jobs'[k].account
                   PROVE  ~LooksActive(j)'
        BY DEF OlderSpent
      <3> HIDE DEF n
      <3>5. j \in 1..n
        BY <3>2
      <3>6. CASE k = n + 1
        BY <3>2, <3>3, <3>4, <3>5, <3>6
      <3>7. CASE k \in 1..n
        BY <1>2, <3>2, <3>3, <3>5, <3>7 DEF OlderSpent
      <3> QED
        BY <3>2, <3>6, <3>7
    <2>3. ASSUME NEW j \in DOMAIN jobs, PodStep(j) \/ PodDies(j) \/ Deadline(j)
          PROVE  OlderSpent'
      BY <1>2, <2>3, StaysSpent DEF OlderSpent
    <2> QED
      BY <1>2, <2>1, <2>2, <2>3 DEF Next, vars
  <1>3. Inv => OverlapAtLastAttempt
    <2> SUFFICES ASSUME Inv, NEW j \in DOMAIN jobs, NEW k \in DOMAIN jobs, j < k,
                        jobs[j].account = jobs[k].account, jobs[j].pod # "none"
                 PROVE  jobs[j].attempts = BackoffLimit
      BY DEF OverlapAtLastAttempt
    <2>1. ~LooksActive(j)
      BY DEF OlderSpent
    <2>2. jobs[j] \in Backfill(fresh, DOMAIN accounts) /\ JobControl(jobs[j])
      BY OneJob
    <2>3. jobs[j].attempts \in Nat /\ BackoffLimit \in Nat
      BY <2>2, BackoffAssumption DEF Backfill
    <2> QED
      BY <2>1, <2>2, <2>3 DEF LooksActive, JobControl
  <1> QED
    BY <1>1, <1>2, <1>3, InitShape, NextShape, PTL DEF Spec


-----------------------------------------------------------------------------
(* Whose integration and whose webhook.                                    *)

\* The customers to whom an integration id, and a webhook secret, leads.
IdClaim(i, c) ==
    \/ i \in Ids /\ integrations[i].client = c
    \/ \E r \in Requests : req[r].integ = i /\ c \in req[r].client
    \/ \E x \in job.left : x[1] = i /\ x[2].client = c

SecretClaim(s, c) ==
    \/ \E i \in Ids : integrations[i].secret = s /\ integrations[i].client = c
    \/ \E r \in Requests : req[r].secret = s /\ c \in req[r].client
    \/ \E config \in job.row : config.secret = s /\ config.client = c
    \/ c \in Clients /\ bank[c].hook = s

IdsOwned == \A i \in 1..fresh : \A c, d \in Clients : IdClaim(i, c) /\ IdClaim(i, d) => c = d

SecretsOwned ==
    \A s \in 1..fresh : \A c, d \in Clients : SecretClaim(s, c) /\ SecretClaim(s, d) => c = d

\* Accounts are, and will be, bound to rows of their own customer.
AccountsOwned ==
    /\ \A a \in DOMAIN accounts : accounts[a].integration # None =>
          integrations[accounts[a].integration].client = accounts[a].client
    /\ \A r \in Requests : \A a \in req[r].rebound : accounts[a].client \in req[r].client

Owned == IdsOwned /\ SecretsOwned /\ AccountsOwned

LEMMA InitOwned == MonobankInit => Owned
  <1> SUFFICES ASSUME MonobankInit PROVE Owned
    OBVIOUS
  <1>1. fresh = 0 /\ accounts = <<>> /\ \A r \in Requests : req[r].rebound = {}
    BY DEF MonobankInit, Init, Idle
  <1>2. 1..fresh = {} /\ DOMAIN accounts = {}
    BY <1>1
  <1> QED
    BY <1>1, <1>2 DEF Owned, IdsOwned, SecretsOwned, AccountsOwned

\* Nothing that has not been given out leads anywhere.
LEMMA ClaimsGivenOut ==
    ASSUME Shape, NEW n, NEW c \in Clients
    PROVE  /\ IdClaim(n, c) => n \in 0..fresh
           /\ SecretClaim(n, c) => n \in 0..fresh
  <1>1. fresh \in Nat /\ 1..fresh \subseteq 0..fresh
    BY OthersKeep
  <1>2. \A i \in Ids : i \in 0..fresh /\ integrations[i].secret \in 0..fresh
    BY <1>1, RowsTyped
  <1>3. \A r \in Requests : req[r].integ \in 0..fresh /\ req[r].secret \in 0..fresh
    BY ScalarsTyped DEF Request
  <1>4. \A x \in job.left : x[1] \in 0..fresh
    BY <1>1, OthersKeep
  <1>5. \A config \in job.row : config.secret \in 0..fresh
    <2>1. job.row \subseteq Row(fresh)
      BY OthersKeep
    <2> QED
      BY <1>1, <2>1 DEF Row
  <1>6. bank[c].hook \in 0..fresh
    BY OthersKeep
  <1> QED
    BY <1>2, <1>3, <1>4, <1>5, <1>6 DEF IdClaim, SecretClaim

\* A step that leads nowhere new, but from the id and the secret it gives out.
LEMMA ClaimsGrow ==
    ASSUME Shape, IdsOwned, SecretsOwned, fresh' \in {fresh, fresh + 1}, NEW d,
           \A n \in 1..fresh' : \A c \in Clients :
              /\ IdClaim(n, c)' => IdClaim(n, c) \/ (n = fresh + 1 /\ c = d)
              /\ SecretClaim(n, c)' => SecretClaim(n, c) \/ (n = fresh + 1 /\ c = d)
    PROVE  IdsOwned' /\ SecretsOwned'
  <1>1. fresh \in Nat
    BY OthersKeep
  <1>2. ASSUME NEW n \in 1..fresh', NEW b \in Clients, NEW c \in Clients
        PROVE  /\ IdClaim(n, b)' /\ IdClaim(n, c)' => b = c
               /\ SecretClaim(n, b)' /\ SecretClaim(n, c)' => b = c
    <2>1. /\ IdClaim(n, b)' => IdClaim(n, b) \/ (n = fresh + 1 /\ b = d)
          /\ IdClaim(n, c)' => IdClaim(n, c) \/ (n = fresh + 1 /\ c = d)
          /\ SecretClaim(n, b)' => SecretClaim(n, b) \/ (n = fresh + 1 /\ b = d)
          /\ SecretClaim(n, c)' => SecretClaim(n, c) \/ (n = fresh + 1 /\ c = d)
      OBVIOUS
    <2>2. CASE n \in 1..fresh
      <3>1. n # fresh + 1
        BY <1>1, <2>2
      <3> QED
        BY <2>1, <2>2, <3>1 DEF IdsOwned, SecretsOwned
    <2>3. CASE n \notin 1..fresh
      <3>1. n \notin 0..fresh
        BY <1>1, <2>3
      <3>2. ~IdClaim(n, b) /\ ~IdClaim(n, c) /\ ~SecretClaim(n, b) /\ ~SecretClaim(n, c)
        BY <3>1, ClaimsGivenOut
      <3> QED
        BY <2>1, <3>2
    <2> QED
      BY <2>2, <2>3
  <1>3. IdsOwned'
    BY <1>2 DEF IdsOwned
  <1>4. SecretsOwned'
    BY <1>2 DEF SecretsOwned
  <1> QED
    BY <1>3, <1>4

\* A request takes a step that leads where it, or a table, led before.
LEMMA RequestOwned ==
    ASSUME Shape, Owned, NEW r \in Requests, NEW q, req' = [req EXCEPT ![r] = q],
           UNCHANGED <<fresh, integrations, accounts, job>>,
           q.client \subseteq Clients,
           \A c \in q.client : /\ q.integ # None => IdClaim(q.integ, c)
                               /\ q.secret # None => SecretClaim(q.secret, c),
           \A a \in q.rebound : accounts[a].client \in q.client,
           \A c \in Clients : bank'[c].hook # None => SecretClaim(bank'[c].hook, c)
    PROVE  Owned'
  <1>1. req'[r] = q /\ \A p \in Requests \ {r} : req'[p] = req[p]
    BY ScalarsTyped
  <1>2. ASSUME NEW n \in 1..fresh', NEW c \in Clients
        PROVE  /\ IdClaim(n, c)' => IdClaim(n, c)
               /\ SecretClaim(n, c)' => SecretClaim(n, c)
    <2>1. n # None /\ Ids' = Ids
      BY DEF None, Ids
    <2>2. IdClaim(n, c)' => IdClaim(n, c)
      BY <1>1, <2>1 DEF IdClaim
    <2>3. SecretClaim(n, c)' => SecretClaim(n, c)
      BY <1>1, <2>1 DEF SecretClaim
    <2> QED
      BY <2>2, <2>3
  <1>3. IdsOwned' /\ SecretsOwned'
    <2>1. IdsOwned /\ SecretsOwned /\ fresh' \in {fresh, fresh + 1}
      BY DEF Owned
    <2>2. \A n \in 1..fresh' : \A c \in Clients :
             /\ IdClaim(n, c)' => IdClaim(n, c) \/ (n = fresh + 1 /\ c = None)
             /\ SecretClaim(n, c)' => SecretClaim(n, c) \/ (n = fresh + 1 /\ c = None)
      BY <1>2
    <2> QED
      BY <2>1, <2>2, ClaimsGrow
  <1>4. AccountsOwned'
    BY <1>1 DEF Owned, AccountsOwned
  <1> QED
    BY <1>3, <1>4 DEF Owned

\* The webhook of a customer leads where it led, or to an integration of the customer.
LEMMA HooksOwned ==
    ASSUME Shape, NEW c \in Clients, NEW token, NEW hook, Register(c, token, hook),
           hook # None => SecretClaim(hook, c)
    PROVE  \A d \in Clients : bank'[d].hook # None => SecretClaim(bank'[d].hook, d)
  <1>1. \A d \in Clients : SecretClaim(bank[d].hook, d)
    BY DEF SecretClaim
  <1>2. \A d \in Clients : bank'[d].hook = bank[d].hook \/ (d = c /\ bank'[d].hook = hook)
    <2>1. bank' = bank \/ bank' = [bank EXCEPT ![c].hook = hook]
      BY DEF Register
    <2>2. bank \in [Clients -> [token : Nat, hook : 0..fresh]]
      BY OthersKeep
    <2> QED
      BY <2>1, <2>2
  <1> QED
    BY <1>1, <1>2


LEMMA LinkOwned ==
    ASSUME Shape, Owned, NEW r \in Requests, NEW c \in Clients, Link(r, c)
    PROVE  Owned'
  <1> DEFINE asked == [Idle EXCEPT !.client = {c}, !.token = bank[c].token,
                                   !.pc = "conflict", !.mode = "new"]
             found == RowsOf(c) \cap ActiveIds
             i == CHOOSE i \in found : TRUE
             again == [asked EXCEPT !.pc = "rotate", !.mode = "rotate", !.integ = i,
                                    !.secret = integrations[i].secret]
  <1>1. UNCHANGED <<fresh, integrations, accounts, job>> /\ UNCHANGED bank
    BY DEF Link, tables
  <1>2. \A d \in Clients : bank'[d].hook # None => SecretClaim(bank'[d].hook, d)
    BY <1>1 DEF SecretClaim
  <1>3. /\ asked.client = {c} /\ asked.integ = None /\ asked.secret = None
        /\ asked.rebound = {}
    BY DEF Idle
  <1>4. CASE found = {}
    <2>1. req' = [req EXCEPT ![r] = asked]
      BY <1>4 DEF Link
    <2> HIDE DEF asked, found
    <2> QED
      BY <1>1, <1>2, <1>3, <2>1, RequestOwned
  <1>5. CASE found # {}
    <2>1. req' = [req EXCEPT ![r] = again]
      BY <1>5 DEF Link
    <2>2. i \in Ids /\ integrations[i].client = c
      BY <1>5 DEF ActiveIds, RowsOf
    <2> HIDE DEF found, i
    <2>3. /\ again.client = {c} /\ again.integ = i /\ again.secret = integrations[i].secret
          /\ again.rebound = {}
      BY DEF Idle
    <2> HIDE DEF again, asked
    <2>4. IdClaim(again.integ, c) /\ SecretClaim(again.secret, c)
      BY <2>2, <2>3 DEF IdClaim, SecretClaim
    <2> QED
      BY <1>1, <1>2, <2>1, <2>3, <2>4, RequestOwned
  <1> QED
    BY <1>4, <1>5

LEMMA StatementOwned ==
    ASSUME Shape, Owned, NEW r \in Requests,
           \/ CheckConflict(r) \/ Reselect(r) \/ WriteAccounts(r) \/ Rotate(r) \/ SetWebhook(r)
           \/ LinkFails(r) \/ Deregister(r) \/ DeleteIntegration(r) \/ Rollback(r)
    PROVE  Owned'
  <1> DEFINE was == req[r]
             Hooks == \A d \in Clients : bank'[d].hook # None => SecretClaim(bank'[d].hook, d)
  <1>1. /\ was \in Request(fresh, DOMAIN accounts) /\ was.client \subseteq Clients
        /\ req \in [Requests -> Request(fresh, DOMAIN accounts)]
    <2>1. was \in Request(fresh, DOMAIN accounts) /\ req \in [Requests -> Request(fresh, DOMAIN accounts)]
      BY ScalarsTyped
    <2> QED
      BY <2>1 DEF Request
  <1>2. /\ \A c \in was.client : IdClaim(was.integ, c) /\ SecretClaim(was.secret, c)
        /\ \A a \in was.rebound : accounts[a].client \in was.client
    BY DEF IdClaim, SecretClaim, Owned, AccountsOwned
  <1>3. UNCHANGED bank => Hooks
    BY DEF SecretClaim
  <1>4. ASSUME req' = [req EXCEPT ![r] = Idle], UNCHANGED <<fresh, integrations, accounts, job>>,
               UNCHANGED bank
        PROVE  Owned'
    <2>1. Idle.client = {} /\ Idle.rebound = {}
      BY DEF Idle
    <2> QED
      BY <1>3, <1>4, <2>1, RequestOwned
  <1>5. ASSUME NEW pc, req' = [req EXCEPT ![r].pc = pc],
               UNCHANGED <<fresh, integrations, accounts, job>>, Hooks
        PROVE  Owned'
    <2> DEFINE q == [was EXCEPT !.pc = pc]
    <2>1. /\ q.client = was.client /\ q.integ = was.integ /\ q.secret = was.secret
          /\ q.rebound = was.rebound /\ req' = [req EXCEPT ![r] = q]
      BY <1>1, <1>5 DEF Request
    <2> HIDE DEF q
    <2> QED
      BY <1>1, <1>2, <1>5, <2>1, RequestOwned
  <1>6. ASSUME CheckConflict(r) PROVE Owned'
    <2>1. UNCHANGED <<fresh, integrations, accounts, job>> /\ UNCHANGED bank
      BY <1>6 DEF CheckConflict, tables
    <2>2. CASE ActiveIds = {}
      <3>1. req' = [req EXCEPT ![r].pc = "insert"]
        BY <1>6, <2>2 DEF CheckConflict
      <3> QED
        BY <1>3, <1>5, <2>1, <3>1
    <2>3. CASE ActiveIds # {}
      BY <1>4, <1>6, <2>1, <2>3 DEF CheckConflict
    <2> QED
      BY <2>2, <2>3
  <1>7. ASSUME Reselect(r) PROVE Owned'
    <2> DEFINE found == (UNION {RowsOf(c) : c \in was.client}) \cap ActiveIds
               i == CHOOSE i \in found : TRUE
               q == [was EXCEPT !.pc = "rotate", !.mode = "rotate", !.integ = i,
                                !.secret = integrations[i].secret]
    <2>1. UNCHANGED <<fresh, integrations, accounts, job>> /\ UNCHANGED bank
          /\ was.pc = "reselect"
      BY <1>7 DEF Reselect
    <2>2. CASE found = {}
      <3>1. req' = [req EXCEPT ![r].pc = "accounts"]
        BY <1>7, <2>2 DEF Reselect, Goto
      <3> QED
        BY <1>3, <1>5, <2>1, <3>1
    <2>3. CASE found # {}
      <3>1. req' = [req EXCEPT ![r] = q]
        BY <1>7, <2>3 DEF Reselect
      <3>2. PICK c \in was.client : was.client = {c}
        BY <1>1, <2>1 DEF Shape, Controlled, Control, Request
      <3>3. i \in Ids /\ integrations[i].client = c
        <4>1. i \in found
          BY <2>3
        <4>2. found \subseteq RowsOf(c)
          BY <3>2
        <4> HIDE DEF found, i
        <4> QED
          BY <4>1, <4>2 DEF RowsOf
      <3> HIDE DEF found, i
      <3>4. /\ q.client = was.client /\ q.integ = i /\ q.secret = integrations[i].secret
            /\ q.rebound = was.rebound
        BY <1>1 DEF Request
      <3> HIDE DEF q
      <3>5. IdClaim(q.integ, c) /\ SecretClaim(q.secret, c)
        BY <3>3, <3>4 DEF IdClaim, SecretClaim
      <3>6. \A d \in q.client : IdClaim(q.integ, d) /\ SecretClaim(q.secret, d)
        BY <3>2, <3>4, <3>5
      <3> QED
        BY <1>1, <1>2, <1>3, <2>1, <3>1, <3>4, <3>6, RequestOwned
    <2> QED
      BY <2>2, <2>3
  <1>8. ASSUME WriteAccounts(r) PROVE Owned'
    <2>1. UNCHANGED <<fresh, integrations, accounts, job>> /\ UNCHANGED bank
          /\ was.pc = "accounts"
      BY <1>8 DEF WriteAccounts, tables
    <2>2. PICK c \in Clients : was.client = {c} /\ (CHOOSE d \in Clients : d \in was.client) = c
      <3>1. was.mode # "none"
        BY <1>1, <2>1 DEF Shape, Controlled, Control
      <3> QED
        BY <3>1, OneCustomer
    <2> DEFINE orphans == Orphans(c)
               added == CardsOf[c] \ {accounts[a].card : a \in orphans}
               q == [was EXCEPT !.pc = "webhook", !.rebound = orphans, !.added = added]
    <2>3. CASE was.own \/ was.integ \in Ids \cup {None}
      <3>1. req' = [req EXCEPT ![r] = q]
        BY <1>8, <2>2, <2>3 DEF WriteAccounts
      <3>2. \A a \in orphans : accounts[a].client \in was.client
        BY <2>2 DEF Orphans
      <3> HIDE DEF orphans, added
      <3>3. /\ q.client = was.client /\ q.integ = was.integ /\ q.secret = was.secret
            /\ q.rebound = orphans
        BY <1>1 DEF Request
      <3> HIDE DEF q
      <3> QED
        BY <1>1, <1>2, <1>3, <2>1, <3>1, <3>2, <3>3, RequestOwned
    <2>4. CASE ~(was.own \/ was.integ \in Ids \cup {None})
      BY <1>4, <1>8, <2>1, <2>4 DEF WriteAccounts
    <2> QED
      BY <2>3, <2>4
  <1>9. ASSUME Rotate(r) PROVE Owned'
    BY <1>3, <1>5, <1>9 DEF Rotate, Goto, tables
  <1>10. ASSUME SetWebhook(r) PROVE Owned'
    <2>1. PICK c \in was.client : Register(c, was.token, was.secret)
      BY <1>10 DEF SetWebhook
    <2>2. Hooks
      BY <1>1, <1>2, <2>1, HooksOwned
    <2> HIDE DEF Hooks
    <2> QED
      BY <1>5, <1>10, <2>2 DEF SetWebhook, Goto, tables
  <1>11. ASSUME Deregister(r) PROVE Owned'
    <2>1. PICK c \in was.client : Register(c, was.token, None)
      BY <1>11 DEF Deregister
    <2>2. Hooks
      BY <1>1, <2>1, HooksOwned
    <2> HIDE DEF Hooks
    <2> QED
      BY <1>5, <1>11, <2>2 DEF Deregister, Goto, tables
  <1>12. ASSUME DeleteIntegration(r) PROVE Owned'
    <2>1. UNCHANGED <<fresh, integrations, accounts, job>> /\ UNCHANGED bank
      BY <1>12 DEF DeleteIntegration, tables
    <2>2. CASE Goto(r, "commit")
      BY <1>3, <1>5, <2>1, <2>2 DEF Goto
    <2>3. CASE req' = [req EXCEPT ![r] = Idle]
      BY <1>4, <2>1, <2>3
    <2> QED
      BY <1>12, <2>2, <2>3 DEF DeleteIntegration
  <1>13. ASSUME LinkFails(r) \/ Rollback(r) PROVE Owned'
    BY <1>4, <1>13 DEF LinkFails, Rollback, tables
  <1> QED
    BY <1>6, <1>7, <1>8, <1>9, <1>10, <1>11, <1>12, <1>13

LEMMA UnlinkOwned ==
    ASSUME Shape, Owned, NEW r \in Requests, NEW i \in Ids, Unlink(r, i)
    PROVE  Owned'
  <1>1. PICK token \in DecryptToken(i) :
           req' = [req EXCEPT ![r] = [Idle EXCEPT !.pc = "deregister", !.mode = "unlink", !.integ = i,
                                       !.client = {integrations[i].client}, !.token = token]]
    BY DEF Unlink
  <1> DEFINE q == [Idle EXCEPT !.pc = "deregister", !.mode = "unlink", !.integ = i,
                               !.client = {integrations[i].client}, !.token = token]
  <1>2. UNCHANGED <<fresh, integrations, accounts, job>> /\ UNCHANGED bank
    BY DEF Unlink, tables
  <1>3. \A d \in Clients : bank'[d].hook # None => SecretClaim(bank'[d].hook, d)
    BY <1>2 DEF SecretClaim
  <1>4. /\ q.client = {integrations[i].client} /\ q.integ = i /\ q.secret = None
        /\ q.rebound = {} /\ req' = [req EXCEPT ![r] = q]
    BY <1>1 DEF Idle
  <1> HIDE DEF q
  <1>5. q.client \subseteq Clients /\ \A c \in q.client : IdClaim(q.integ, c)
    BY <1>4, RowsTyped DEF IdClaim
  <1> QED
    BY <1>2, <1>3, <1>4, <1>5, RequestOwned


\* The one place where an id or a secret is given to a request.
LEMMA InsertOwned ==
    ASSUME Shape, Owned, NEW r \in Requests, InsertIntegration(r) PROVE Owned'
  <1> DEFINE was == req[r]
             rows == UNION {RowsOf(c) : c \in was.client}
             n == fresh + 1
             i == IF rows \subseteq ActiveIds THEN CHOOSE i \in rows : TRUE ELSE None
             q == IF rows = {}
                  THEN [was EXCEPT !.pc = "accounts", !.own = TRUE, !.integ = n, !.secret = n]
                  ELSE [was EXCEPT !.pc = "reselect", !.integ = i, !.secret = n]
  <1>1. /\ was \in Request(fresh, DOMAIN accounts) /\ fresh \in Nat
        /\ req \in [Requests -> Request(fresh, DOMAIN accounts)]
    BY ScalarsTyped
  <1>2. /\ UNCHANGED <<integrations, accounts, job>> /\ UNCHANGED bank /\ was.pc = "insert"
        /\ fresh' = n
    BY DEF InsertIntegration
  <1>3. PICK c \in Clients : was.client = {c}
    <2>1. was.mode # "none"
      BY <1>1, <1>2 DEF Shape, Controlled, Control
    <2> QED
      BY <2>1, OneCustomer
  <1>4. req' = [req EXCEPT ![r] = q]
    <2>1. CASE rows = {}
      BY <1>1, <2>1 DEF InsertIntegration
    <2>2. CASE rows # {}
      BY <1>1, <2>2 DEF InsertIntegration
    <2> QED
      BY <2>1, <2>2
  <1>5. rows # {} => i = None \/ IdClaim(i, c)
    <2>1. rows # {} => (CHOOSE j \in rows : TRUE) \in rows
      OBVIOUS
    <2>2. \A j \in rows : IdClaim(j, c)
      BY <1>3 DEF RowsOf, IdClaim
    <2> HIDE DEF rows
    <2> QED
      BY <2>1, <2>2
  <1>6. /\ q.client = {c} /\ q.secret = n /\ q.rebound = was.rebound
        /\ q.integ = None \/ q.integ = n \/ IdClaim(q.integ, c)
    <2> HIDE DEF rows, i
    <2> QED
      BY <1>1, <1>3, <1>5 DEF Request
  <1> HIDE DEF q
  <1>7. req'[r] = q /\ \A p \in Requests \ {r} : req'[p] = req[p]
    BY <1>1, <1>4
  <1>8. ASSUME NEW m \in 1..fresh', NEW d \in Clients
        PROVE  /\ IdClaim(m, d)' => IdClaim(m, d) \/ (m = fresh + 1 /\ d = c)
               /\ SecretClaim(m, d)' => SecretClaim(m, d) \/ (m = fresh + 1 /\ d = c)
    <2>1. m # None /\ Ids' = Ids
      BY <1>2 DEF None, Ids
    <2>2. IdClaim(m, d)' => IdClaim(m, d) \/ (m = fresh + 1 /\ d = c)
      BY <1>2, <1>6, <1>7, <2>1 DEF IdClaim
    <2>3. SecretClaim(m, d)' => SecretClaim(m, d) \/ (m = fresh + 1 /\ d = c)
      BY <1>2, <1>6, <1>7, <2>1 DEF SecretClaim
    <2> QED
      BY <2>2, <2>3
  <1>9. IdsOwned' /\ SecretsOwned'
    <2>1. IdsOwned /\ SecretsOwned /\ fresh' \in {fresh, fresh + 1}
      BY <1>2 DEF Owned
    <2> HIDE DEF n
    <2> QED
      BY <1>8, <2>1, ClaimsGrow
  <1>10. AccountsOwned'
    BY <1>2, <1>3, <1>6, <1>7 DEF Owned, AccountsOwned
  <1> QED
    BY <1>9, <1>10 DEF Owned

\* A transaction commits rows that lead where it, or a row, led before.
LEMMA CommitOwned ==
    ASSUME Shape, Owned, NEW r \in Requests, req' = [req EXCEPT ![r] = Idle],
           UNCHANGED <<fresh, job>>, UNCHANGED bank,
           \A i \in Ids' : /\ IdClaim(i, integrations'[i].client)
                           /\ SecretClaim(integrations'[i].secret, integrations'[i].client),
           \A a \in DOMAIN accounts : accounts'[a].client = accounts[a].client,
           \A a \in DOMAIN accounts' : accounts'[a].integration # None =>
              integrations'[accounts'[a].integration].client = accounts'[a].client
    PROVE  Owned'
  <1>1. req'[r] = Idle /\ \A p \in Requests \ {r} : req'[p] = req[p]
    BY ScalarsTyped
  <1>2. Idle.client = {} /\ Idle.rebound = {}
    BY DEF Idle
  <1>3. \A n, c : /\ IdClaim(n, c)' => IdClaim(n, c)
                  /\ SecretClaim(n, c)' => SecretClaim(n, c)
    <2>1. ASSUME NEW n, NEW c PROVE IdClaim(n, c)' => IdClaim(n, c)
      BY <1>1, <1>2 DEF IdClaim
    <2>2. ASSUME NEW n, NEW c PROVE SecretClaim(n, c)' => SecretClaim(n, c)
      <3>1. \A i \in Ids' : integrations'[i].secret = n /\ integrations'[i].client = c
               => SecretClaim(n, c)
        OBVIOUS
      <3> QED
        BY <1>1, <1>2, <3>1 DEF SecretClaim
    <2> QED
      BY <2>1, <2>2
  <1>4. IdsOwned' /\ SecretsOwned'
    <2>1. IdsOwned /\ SecretsOwned /\ fresh' \in {fresh, fresh + 1}
      BY DEF Owned
    <2>2. \A n \in 1..fresh' : \A c \in Clients :
             /\ IdClaim(n, c)' => IdClaim(n, c) \/ (n = fresh + 1 /\ c = None)
             /\ SecretClaim(n, c)' => SecretClaim(n, c) \/ (n = fresh + 1 /\ c = None)
      BY <1>3
    <2> QED
      BY <2>1, <2>2, ClaimsGrow
  <1>5. AccountsOwned'
    <2>1. \A p \in Requests : req[p].rebound \subseteq DOMAIN accounts
      BY ScalarsTyped DEF Request
    <2> QED
      BY <1>1, <1>2, <2>1 DEF Owned, AccountsOwned
  <1> QED
    BY <1>4, <1>5 DEF Owned

LEMMA RotationOwned ==
    ASSUME Shape, Owned, NEW r \in Requests, CommitRotation(r) PROVE Owned'
  <1>1. /\ integrations' = WithToken(req[r].integ, req[r].token) /\ req' = [req EXCEPT ![r] = Idle]
        /\ UNCHANGED <<fresh, job>> /\ UNCHANGED bank /\ UNCHANGED accounts
    BY DEF CommitRotation
  <1>2. integrations \in [Ids -> Row(fresh)]
    BY OthersKeep
  <1>3. /\ Ids' = Ids
        /\ \A i \in Ids : /\ integrations'[i].client = integrations[i].client
                          /\ integrations'[i].secret = integrations[i].secret
    BY <1>1, <1>2 DEF WithToken, Ids, Row
  <1>4. \A i \in Ids : /\ IdClaim(i, integrations[i].client)
                       /\ SecretClaim(integrations[i].secret, integrations[i].client)
    BY DEF IdClaim, SecretClaim
  <1>5. \A a \in DOMAIN accounts : accounts[a].integration # None =>
           integrations'[accounts[a].integration].client = accounts[a].client
    BY <1>3, AccountTyped DEF Owned, AccountsOwned
  <1> QED
    BY <1>1, <1>3, <1>4, <1>5, CommitOwned

LEMMA UnlinkedOwned ==
    ASSUME Shape, Owned, NEW r \in Requests, CommitUnlink(r) PROVE Owned'
  <1> DEFINE i == req[r].integ
  <1>1. /\ integrations' = [j \in Ids \ {i} |-> integrations[j]]
        /\ accounts' = [a \in DOMAIN accounts |->
                          IF accounts[a].integration = i
                          THEN [accounts[a] EXCEPT !.integration = None] ELSE accounts[a]]
        /\ req' = [req EXCEPT ![r] = Idle]
        /\ UNCHANGED <<fresh, job>> /\ UNCHANGED bank
    BY DEF CommitUnlink
  <1>2. Ids' = Ids \ {i} /\ \A j \in Ids' : integrations'[j] = integrations[j]
    BY <1>1 DEF Ids
  <1>3. \A j \in Ids : /\ IdClaim(j, integrations[j].client)
                       /\ SecretClaim(integrations[j].secret, integrations[j].client)
    BY DEF IdClaim, SecretClaim
  <1>4. \A a \in DOMAIN accounts :
           /\ a \in DOMAIN accounts' /\ accounts'[a].client = accounts[a].client
           /\ accounts'[a].integration = None \/ (accounts'[a].integration = accounts[a].integration
                                                  /\ accounts[a].integration # i)
    <2>1. accounts \in Seq([card : Cards, client : Clients, integration : Ids \cup {None}])
      BY DEF Shape, TypeOK
    <2>2. \A a \in DOMAIN accounts :
             accounts[a] \in [card : Cards, client : Clients, integration : Ids \cup {None}]
      BY <2>1, LenProperties, ElementOfSeq
    <2> QED
      BY <1>1, <2>2
  <1>5. \A a \in DOMAIN accounts' : accounts'[a].integration # None =>
           integrations'[accounts'[a].integration].client = accounts'[a].client
    <2> SUFFICES ASSUME NEW a \in DOMAIN accounts', accounts'[a].integration # None
                 PROVE  integrations'[accounts'[a].integration].client = accounts'[a].client
      OBVIOUS
    <2>1. a \in DOMAIN accounts
      BY <1>1
    <2>2. /\ accounts'[a].integration = accounts[a].integration /\ accounts[a].integration # i
          /\ accounts'[a].client = accounts[a].client
      BY <1>4, <2>1
    <2>3. accounts[a].integration \in Ids'
      BY <1>2, <2>1, <2>2, AccountTyped
    <2> QED
      BY <1>2, <2>1, <2>2, <2>3 DEF Owned, AccountsOwned
  <1> HIDE DEF i
  <1> QED
    BY <1>1, <1>2, <1>3, <1>4, <1>5, CommitOwned


\* The rows of accounts that a link commits.
LEMMA AccountsCommitted ==
    ASSUME Shape, NEW r \in Requests, CommitLink(r), NEW c \in Clients, req[r].client = {c}
    PROVE  /\ \A a \in DOMAIN accounts :
                 accounts'[a] = IF a \in req[r].rebound
                                THEN [accounts[a] EXCEPT !.integration = req[r].integ] ELSE accounts[a]
           /\ \A a \in DOMAIN accounts' \ DOMAIN accounts :
                 /\ accounts'[a].client = c /\ accounts'[a].integration = req[r].integ
                 /\ accounts'[a].card \in req[r].added
           /\ \A card \in req[r].added :
                 \E a \in DOMAIN accounts' \ DOMAIN accounts : accounts'[a].card = card
           /\ \A a, b \in DOMAIN accounts' \ DOMAIN accounts :
                 accounts'[a].card = accounts'[b].card => a = b
           /\ DOMAIN accounts \subseteq DOMAIN accounts'
  <1> DEFINE was == req[r]
             added == SetToSeq(was.added)
             old == Rebound(r)
             news == [n \in DOMAIN added |-> AccountRow(r, added[n])]
             size == Cardinality(was.added)
             All == {old[a] : a \in DOMAIN accounts} \cup {news[n] : n \in DOMAIN news}
  <1>1. accounts' = old \o news
    BY DEF CommitLink
  <1>2. Len(accounts) \in Nat /\ DOMAIN accounts = 1..Len(accounts)
    <2>1. accounts \in Seq([card : Cards, client : Clients, integration : Ids \cup {None}])
      BY DEF Shape, TypeOK
    <2> QED
      BY <2>1, LenProperties
  <1>3. /\ size \in Nat /\ DOMAIN added = 1..size
        /\ \A n \in 1..size : added[n] \in was.added
        /\ \A m, n \in 1..size : added[m] = added[n] => m = n
    <2>1. was.added \subseteq CardsOf[c]
      <3>1. was.mode # "none"
        BY DEF CommitLink
      <3> QED
        BY <3>1, OneCustomer
    <2>2. size \in Nat /\ added \in [1..size -> was.added] /\ IsInjective(added)
      BY <2>1, CardsListed
    <2> HIDE DEF added, size
    <2> QED
      BY <2>2 DEF IsInjective
  <1>31. \A card \in was.added : \E n \in 1..size : added[n] = card
    <2>1. was.added \subseteq CardsOf[c]
      <3>1. was.mode # "none"
        BY DEF CommitLink
      <3> QED
        BY <3>1, OneCustomer
    <2> QED
      BY <2>1, CardsListed
  <1>4. (CHOOSE d \in Clients : d \in was.client) = c
    OBVIOUS
  <1>5. /\ \A n \in 1..size : /\ news[n].client = c /\ news[n].integration = was.integ
                              /\ news[n].card \in was.added
        /\ \A m, n \in 1..size : news[m].card = news[n].card => m = n
    <2>1. \A n \in 1..size : /\ news[n].client = c /\ news[n].integration = was.integ
                             /\ news[n].card = added[n]
      BY <1>3, <1>4 DEF AccountRow
    <2> HIDE DEF news, added, size
    <2> QED
      BY <1>3, <2>1
  <1>51. \A card \in was.added : \E n \in 1..size : news[n].card = card
    <2>1. \A n \in 1..size : news[n].card = added[n]
      BY <1>3 DEF AccountRow
    <2> HIDE DEF news, added, size
    <2> QED
      BY <1>31, <2>1
  <1>6. DOMAIN old = DOMAIN accounts /\ DOMAIN news = 1..size
    BY <1>3 DEF Rebound
  <1>7. old \in Seq(All) /\ Len(old) = Len(accounts) /\ news \in Seq(All) /\ Len(news) = size
    <2>1. old = [a \in 1..Len(accounts) |-> old[a]]
      BY <1>2 DEF Rebound
    <2>2. news = [n \in 1..size |-> news[n]]
      BY <1>6
    <2>3. (\A a \in 1..Len(accounts) : old[a] \in All) /\ (\A n \in 1..size : news[n] \in All)
      BY <1>2, <1>6
    <2> HIDE DEF old, news, All, size
    <2>4. old \in [1..Len(accounts) -> All] /\ news \in [1..size -> All]
      BY <2>1, <2>2, <2>3
    <2> QED
      BY <1>2, <1>3, <2>4, SeqDef
  <1>8. \A a \in DOMAIN accounts : old[a] = IF a \in was.rebound
                                            THEN [accounts[a] EXCEPT !.integration = was.integ]
                                            ELSE accounts[a]
    BY DEF Rebound
  <1> HIDE DEF old, news, All, size, was
  <1>9. /\ \A a \in 1..Len(accounts) : accounts'[a] = old[a]
        /\ \A a \in DOMAIN accounts' \ DOMAIN accounts :
              /\ (a - Len(accounts)) \in 1..size /\ a \in Nat
              /\ accounts'[a] = news[a - Len(accounts)]
        /\ DOMAIN accounts \subseteq DOMAIN accounts'
    <2>0. /\ old \o news \in Seq(All) /\ Len(old \o news) = Len(old) + Len(news)
          /\ \A a \in 1..(Len(old) + Len(news)) :
                (old \o news)[a] = IF a <= Len(old) THEN old[a] ELSE news[a - Len(old)]
      <3>1. old \in Seq(All) /\ news \in Seq(All)
        BY <1>7
      <3> QED
        BY <3>1, ConcatProperties
    <2>1. /\ accounts' \in Seq(All) /\ Len(accounts') = Len(accounts) + size
          /\ \A a \in 1..(Len(accounts) + size) :
                accounts'[a] = IF a <= Len(accounts) THEN old[a] ELSE news[a - Len(accounts)]
      BY <1>1, <1>7, <2>0
    <2>2. DOMAIN accounts' = 1..(Len(accounts) + size)
      BY <2>1, LenProperties
    <2> QED
      BY <1>2, <1>3, <2>1, <2>2
  <1>91. \A n \in 1..size : /\ (Len(accounts) + n) \in DOMAIN accounts' \ DOMAIN accounts
                            /\ accounts'[Len(accounts) + n] = news[n]
    <2>1. accounts' \in Seq(All) /\ Len(accounts') = Len(old) + Len(news)
          /\ \A a \in 1..(Len(old) + Len(news)) :
                accounts'[a] = IF a <= Len(old) THEN old[a] ELSE news[a - Len(old)]
      <3>1. old \in Seq(All) /\ news \in Seq(All)
        BY <1>7
      <3> QED
        BY <1>1, <3>1, ConcatProperties
    <2> DEFINE len == Len(accounts)
    <2> HIDE DEF len
    <2>2. /\ len \in Nat /\ size \in Nat /\ DOMAIN accounts = 1..len /\ DOMAIN accounts' = 1..(len + size)
          /\ \A a \in 1..(len + size) : accounts'[a] = IF a <= len THEN old[a] ELSE news[a - len]
      BY <1>2, <1>3, <1>7, <2>1, LenProperties DEF len
    <2>3. ASSUME NEW n \in 1..size
          PROVE  (len + n) \in 1..(len + size) \ 1..len /\ accounts'[len + n] = news[n]
      <3>1. (len + n) \in 1..(len + size) /\ ~(len + n <= len) /\ (len + n) - len = n
        BY <2>2
      <3> QED
        BY <2>2, <3>1
    <2> QED
      BY <2>2, <2>3 DEF len
  <1>10. ASSUME NEW a \in DOMAIN accounts' \ DOMAIN accounts,
                NEW b \in DOMAIN accounts' \ DOMAIN accounts, accounts'[a].card = accounts'[b].card
         PROVE  a = b
    <2>1. /\ (a - Len(accounts)) \in 1..size /\ (b - Len(accounts)) \in 1..size
          /\ a \in Nat /\ b \in Nat
          /\ news[a - Len(accounts)].card = news[b - Len(accounts)].card
      BY <1>9, <1>10
    <2>2. a - Len(accounts) = b - Len(accounts)
      BY <1>5, <2>1
    <2> QED
      BY <1>2, <2>1, <2>2
  <1>11. ASSUME NEW a \in DOMAIN accounts' \ DOMAIN accounts
         PROVE  /\ accounts'[a].client = c /\ accounts'[a].integration = was.integ
                /\ accounts'[a].card \in was.added
    BY <1>5, <1>9
  <1>12. \A a \in DOMAIN accounts :
            accounts'[a] = IF a \in was.rebound
                           THEN [accounts[a] EXCEPT !.integration = was.integ] ELSE accounts[a]
    BY <1>2, <1>8, <1>9
  <1>13. \A card \in was.added :
            \E a \in DOMAIN accounts' \ DOMAIN accounts : accounts'[a].card = card
    BY <1>51, <1>91
  <1> QED
    BY <1>9, <1>10, <1>11, <1>12, <1>13 DEF was

LEMMA LinkedOwned ==
    ASSUME Shape, Owned, NEW r \in Requests, CommitLink(r) PROVE Owned'
  <1> DEFINE i == req[r].integ
             s == req[r].secret
  <1>1. PICK c \in Clients : /\ req[r].client = {c}
                            /\ (CHOOSE d \in Clients : d \in req[r].client) = c
    <2>1. req[r].mode # "none"
      BY DEF CommitLink
    <2> QED
      BY <2>1, OneCustomer
  <1> DEFINE new == [client |-> c, token |-> req[r].token, secret |-> s, status |-> "active"]
  <1>2. /\ integrations' = IF req[r].own THEN Put(integrations, i, new) ELSE integrations
        /\ req' = [req EXCEPT ![r] = Idle] /\ i # None
        /\ req[r].mode = "new" /\ req[r].pc = "commit"
        /\ UNCHANGED <<fresh, job>> /\ UNCHANGED bank
    BY <1>1 DEF CommitLink
  <1>3. IdClaim(i, c) /\ SecretClaim(s, c) /\ i \in 1..fresh
    <2>1. i \in 0..fresh /\ fresh \in Nat
      BY ScalarsTyped DEF Request
    <2> QED
      BY <1>1, <1>2, <2>1 DEF IdClaim, SecretClaim, None
  <1>4. \A j \in Ids : /\ IdClaim(j, integrations[j].client)
                       /\ SecretClaim(integrations[j].secret, integrations[j].client)
    BY DEF IdClaim, SecretClaim
  <1>5. i \in Ids => integrations[i].client = c
    BY <1>3, <1>4, RowsTyped DEF Owned, IdsOwned
  <1>6. new.client = c /\ new.secret = s
    OBVIOUS
  <1> HIDE DEF i, s, new
  <1>7. /\ Ids \subseteq Ids' /\ i \in Ids' /\ integrations'[i].client = c
        /\ \A j \in Ids' : j = i \/ (j \in Ids /\ integrations'[j] = integrations[j])
        /\ integrations'[i].secret = s \/ (i \in Ids /\ integrations'[i] = integrations[i])
    <2>1. CASE req[r].own
      BY <1>2, <1>6, <2>1 DEF Put, Ids
    <2>2. CASE ~req[r].own
      <3>1. i \in Ids
        BY <1>2, <2>2 DEF Shape, RowsHeld, i
      <3> QED
        BY <1>2, <1>5, <2>2, <3>1 DEF Ids
    <2> QED
      BY <2>1, <2>2
  <1>8. \A j \in Ids' : /\ IdClaim(j, integrations'[j].client)
                        /\ SecretClaim(integrations'[j].secret, integrations'[j].client)
    <2> SUFFICES ASSUME NEW j \in Ids'
                 PROVE  /\ IdClaim(j, integrations'[j].client)
                        /\ SecretClaim(integrations'[j].secret, integrations'[j].client)
      OBVIOUS
    <2>1. CASE j \in Ids /\ integrations'[j] = integrations[j]
      <3>1. IdClaim(j, integrations[j].client) /\ SecretClaim(integrations[j].secret, integrations[j].client)
        BY <1>4, <2>1
      <3> QED
        BY <2>1, <3>1
    <2>2. CASE j = i /\ integrations'[i].secret = s
      <3>1. integrations'[j].client = c /\ integrations'[j].secret = s
        BY <1>7, <2>2
      <3> QED
        BY <1>3, <2>2, <3>1
    <2> QED
      BY <1>7, <2>1, <2>2
  <1>9. /\ \A a \in DOMAIN accounts :
              accounts'[a] = IF a \in req[r].rebound
                             THEN [accounts[a] EXCEPT !.integration = i] ELSE accounts[a]
        /\ \A a \in DOMAIN accounts' \ DOMAIN accounts :
              accounts'[a].client = c /\ accounts'[a].integration = i
    BY <1>1, AccountsCommitted DEF i
  <1>10. \A a \in DOMAIN accounts :
            /\ accounts'[a].client = accounts[a].client
            /\ a \in req[r].rebound => accounts'[a].integration = i /\ accounts[a].client = c
            /\ a \notin req[r].rebound => accounts'[a] = accounts[a]
    <2>1. accounts \in Seq([card : Cards, client : Clients, integration : Ids \cup {None}])
      BY DEF Shape, TypeOK
    <2>2. \A a \in DOMAIN accounts :
             accounts[a] \in [card : Cards, client : Clients, integration : Ids \cup {None}]
      BY <2>1, LenProperties, ElementOfSeq
    <2>3. \A a \in req[r].rebound : accounts[a].client = c
      BY <1>1 DEF Owned, AccountsOwned
    <2> QED
      BY <1>9, <2>2, <2>3
  <1>11. \A a \in DOMAIN accounts' : accounts'[a].integration # None =>
            integrations'[accounts'[a].integration].client = accounts'[a].client
    <2> SUFFICES ASSUME NEW a \in DOMAIN accounts', accounts'[a].integration # None
                 PROVE  integrations'[accounts'[a].integration].client = accounts'[a].client
      OBVIOUS
    <2>1. CASE accounts'[a].integration = i /\ accounts'[a].client = c
      BY <1>7, <2>1
    <2>2. CASE a \in DOMAIN accounts /\ accounts'[a] = accounts[a]
      <3>1. /\ accounts[a].integration \in Ids
            /\ integrations[accounts[a].integration].client = accounts[a].client
        BY <2>2, AccountTyped DEF Owned, AccountsOwned
      <3> QED
        BY <1>5, <1>7, <2>2, <3>1
    <2> QED
      BY <1>9, <1>10, <2>1, <2>2
  <1> QED
    BY <1>2, <1>8, <1>10, <1>11, CommitOwned


\* The job, the bank and the pods lead where a row led.
LEMMA OthersOwned ==
    ASSUME Shape, Owned, UNCHANGED <<fresh, accounts, req>>, Ids' = Ids,
           \A i \in Ids : /\ integrations'[i].client = integrations[i].client
                          /\ integrations'[i].secret = integrations[i].secret,
           \A x \in job'.left : IdClaim(x[1], x[2].client),
           \A config \in job'.row : SecretClaim(config.secret, config.client),
           \A c \in Clients : bank'[c].hook # None => SecretClaim(bank'[c].hook, c)
    PROVE  Owned'
  <1>1. ASSUME NEW n \in 1..fresh', NEW c \in Clients
        PROVE  /\ IdClaim(n, c)' => IdClaim(n, c)
               /\ SecretClaim(n, c)' => SecretClaim(n, c)
    <2>1. n # None
      BY DEF None
    <2>2. IdClaim(n, c)' => IdClaim(n, c)
      BY DEF IdClaim
    <2>3. SecretClaim(n, c)' => SecretClaim(n, c)
      BY <2>1 DEF SecretClaim
    <2> QED
      BY <2>2, <2>3
  <1>2. IdsOwned' /\ SecretsOwned'
    <2>1. IdsOwned /\ SecretsOwned /\ fresh' \in {fresh, fresh + 1}
      BY DEF Owned
    <2>2. \A n \in 1..fresh' : \A c \in Clients :
             /\ IdClaim(n, c)' => IdClaim(n, c) \/ (n = fresh + 1 /\ c = None)
             /\ SecretClaim(n, c)' => SecretClaim(n, c) \/ (n = fresh + 1 /\ c = None)
      BY <1>1
    <2> QED
      BY <2>1, <2>2, ClaimsGrow
  <1>3. AccountsOwned'
    BY AccountTyped DEF Owned, AccountsOwned
  <1> QED
    BY <1>2, <1>3 DEF Owned

LEMMA StandingClaims ==
    /\ \A i \in Ids : /\ IdClaim(i, integrations[i].client)
                      /\ SecretClaim(integrations[i].secret, integrations[i].client)
    /\ \A x \in job.left : IdClaim(x[1], x[2].client)
    /\ \A config \in job.row : SecretClaim(config.secret, config.client)
    /\ \A c \in Clients : SecretClaim(bank[c].hook, c)
  BY DEF IdClaim, SecretClaim

LEMMA JobOwned ==
    ASSUME Shape, Owned, StartReregistration \/ PushConfig \/ JobDies
    PROVE  Owned'
  <1>1. UNCHANGED <<fresh, accounts, req>> /\ UNCHANGED integrations
    BY DEF StartReregistration, PushConfig, JobDies, tables
  <1>2. /\ Ids' = Ids
        /\ \A i \in Ids : /\ integrations'[i].client = integrations[i].client
                          /\ integrations'[i].secret = integrations[i].secret
    BY <1>1 DEF Ids
  <1>3. \A x \in job'.left : IdClaim(x[1], x[2].client)
    <2>1. CASE StartReregistration
      <3>1. job'.left = ListActive
        BY <2>1 DEF StartReregistration, NoJob
      <3> QED
        BY <3>1, StandingClaims DEF ListActive, ActiveIds
    <2>2. CASE PushConfig
      <3>1. job'.left = job.left
        BY <2>2, OthersKeep DEF PushConfig
      <3> QED
        BY <3>1, StandingClaims
    <2>3. CASE JobDies
      BY <2>3 DEF JobDies, NoJob
    <2> QED
      BY <2>1, <2>2, <2>3
  <1>4. job'.row = {}
    BY OthersKeep DEF StartReregistration, PushConfig, JobDies, NoJob
  <1>5. \A c \in Clients : bank'[c].hook # None => SecretClaim(bank'[c].hook, c)
    <2>1. CASE UNCHANGED bank
      BY <2>1, StandingClaims
    <2>2. CASE PushConfig
      <3>1. PICK config \in job.row : Register(config.client, config.token, config.secret)
        BY <2>2 DEF PushConfig
      <3>2. config.client \in Clients
        <4>1. config \in Row(fresh)
          BY OthersKeep
        <4> QED
          BY <4>1 DEF Row
      <3> QED
        BY <3>1, <3>2, StandingClaims, HooksOwned
    <2> QED
      BY <2>1, <2>2 DEF StartReregistration, JobDies
  <1> QED
    BY <1>1, <1>2, <1>3, <1>4, <1>5, OthersOwned

\* The job gives out a secret: to a row, and to the call that will follow.
LEMMA UpdateConfigOwned ==
    ASSUME Shape, Owned, UpdateConfig PROVE Owned'
  <1> DEFINE n == fresh + 1
  <1>1. PICK x \in job.left :
           LET config == [x[2] EXCEPT !.secret = n]
           IN  /\ integrations' = IF x[1] \in Ids
                                  THEN [integrations EXCEPT ![x[1]].token = config.token,
                                                            ![x[1]].secret = config.secret]
                                  ELSE integrations
               /\ job' = [left |-> job.left \ {x}, row |-> {config}]
    BY DEF UpdateConfig
  <1> DEFINE config == [x[2] EXCEPT !.secret = n]
             i == x[1]
             d == x[2].client
  <1>2. /\ integrations' = IF i \in Ids
                           THEN [integrations EXCEPT ![i].token = config.token,
                                                     ![i].secret = config.secret]
                           ELSE integrations
        /\ job'.left \subseteq job.left /\ job'.row = {config}
    BY <1>1
  <1>3. x[2] \in Row(fresh) /\ i \in 1..fresh
    BY OthersKeep
  <1>4. config.client = d /\ config.secret = n /\ d \in Clients
    BY <1>3 DEF Row
  <1>5. /\ fresh' = n /\ UNCHANGED <<accounts, req>> /\ UNCHANGED bank
    BY DEF UpdateConfig
  <1>6. i \in Ids => integrations[i].client = d
    BY <1>3, <1>4, StandingClaims, RowsTyped DEF Owned, IdsOwned
  <1> HIDE DEF config, i, d
  <1>7. /\ Ids' = Ids
        /\ \A j \in Ids : /\ integrations'[j].client = integrations[j].client
                          /\ \/ integrations'[j].secret = integrations[j].secret
                             \/ integrations'[j].secret = n /\ integrations[j].client = d
    <2>1. integrations \in [Ids -> Row(fresh)]
      BY OthersKeep
    <2> HIDE DEF n
    <2>2. CASE i \notin Ids
      BY <1>2, <2>2 DEF Ids
    <2>3. CASE i \in Ids
      <3>1. integrations' = [integrations EXCEPT ![i] = [@ EXCEPT !.token = config.token,
                                                                 !.secret = n]]
        BY <1>2, <1>4, <2>1, <2>3 DEF Ids
      <3>2. /\ [integrations[i] EXCEPT !.token = config.token, !.secret = n].client = integrations[i].client
            /\ [integrations[i] EXCEPT !.token = config.token, !.secret = n].secret = n
        BY <2>1, <2>3 DEF Row
      <3>3. Ids' = Ids /\ \A j \in Ids : integrations'[j] =
               IF j = i THEN [integrations[i] EXCEPT !.token = config.token, !.secret = n]
               ELSE integrations[j]
        BY <3>1 DEF Ids
      <3> QED
        BY <1>6, <2>3, <3>2, <3>3
    <2> QED
      BY <2>2, <2>3
  <1>8. ASSUME NEW m \in 1..fresh', NEW c \in Clients
        PROVE  /\ IdClaim(m, c)' => IdClaim(m, c) \/ (m = fresh + 1 /\ c = d)
               /\ SecretClaim(m, c)' => SecretClaim(m, c) \/ (m = fresh + 1 /\ c = d)
    <2>1. IdClaim(m, c)' => IdClaim(m, c) \/ (m = fresh + 1 /\ c = d)
      BY <1>2, <1>5, <1>7 DEF IdClaim
    <2>2. SecretClaim(m, c)' => SecretClaim(m, c) \/ (m = fresh + 1 /\ c = d)
      BY <1>2, <1>4, <1>5, <1>7 DEF SecretClaim
    <2> QED
      BY <2>1, <2>2
  <1>9. IdsOwned' /\ SecretsOwned'
    <2>1. IdsOwned /\ SecretsOwned /\ fresh' \in {fresh, fresh + 1}
      BY <1>5 DEF Owned
    <2> HIDE DEF n
    <2> QED
      BY <1>8, <2>1, ClaimsGrow
  <1>10. AccountsOwned'
    BY <1>5, <1>7, AccountTyped DEF Owned, AccountsOwned
  <1> QED
    BY <1>9, <1>10 DEF Owned

LEMMA RestOwned ==
    ASSUME Shape, Owned, UNCHANGED <<fresh, accounts, req, job>>,
           \A c \in Clients : bank'[c].hook = bank[c].hook,
           \/ UNCHANGED integrations
           \/ \E j \in DOMAIN jobs : integrations' = WithError(jobs[j].integ)
    PROVE  Owned'
  <1>1. /\ Ids' = Ids
        /\ \A i \in Ids : /\ integrations'[i].client = integrations[i].client
                          /\ integrations'[i].secret = integrations[i].secret
    <2>1. CASE UNCHANGED integrations
      BY <2>1 DEF Ids
    <2>2. CASE \E j \in DOMAIN jobs : integrations' = WithError(jobs[j].integ)
      <3>1. PICK k : integrations' = WithError(k)
        BY <2>2
      <3>2. integrations \in [Ids -> Row(fresh)]
        BY OthersKeep
      <3> QED
        BY <3>1, <3>2 DEF WithError, Ids, Row
    <2> QED
      BY <2>1, <2>2
  <1> QED
    BY <1>1, StandingClaims, OthersOwned

LEMMA NextOwned == Shape /\ Owned /\ [Next]_vars => Owned'
  <1> SUFFICES ASSUME Shape, Owned, [Next]_vars PROVE Owned'
    OBVIOUS
  <1>1. CASE LinkNext
    <2>1. ASSUME NEW r \in Requests, NEW c \in Clients, Link(r, c) PROVE Owned'
      BY <2>1, LinkOwned
    <2>2. ASSUME NEW r \in Requests, NEW i \in Ids, Unlink(r, i) PROVE Owned'
      BY <2>2, UnlinkOwned
    <2>3. ASSUME NEW r \in Requests, LinkStep(r) \/ Rollback(r) PROVE Owned'
      <3>1. CASE CommitLink(r) \/ CommitRotation(r) \/ CommitUnlink(r)
        BY <3>1, LinkedOwned, RotationOwned, UnlinkedOwned
      <3>2. CASE InsertIntegration(r)
        BY <3>2, InsertOwned
      <3>3. CASE ~(CommitLink(r) \/ CommitRotation(r) \/ CommitUnlink(r) \/ InsertIntegration(r))
        BY <2>3, <3>3, StatementOwned DEF LinkStep
      <3> QED
        BY <3>1, <3>2, <3>3
    <2>4. CASE StartReregistration \/ PushConfig \/ JobDies \/ UpdateConfig
      BY <2>4, JobOwned, UpdateConfigOwned
    <2>5. ASSUME NEW c \in Clients, NewToken(c) PROVE Owned'
      <3>1. /\ UNCHANGED <<fresh, accounts, req, job>> /\ UNCHANGED integrations
            /\ bank' = [bank EXCEPT ![c].token = @ + 1]
        BY <2>5 DEF NewToken, tables
      <3>2. \A e \in Clients : bank'[e].hook = bank[e].hook
        BY <3>1, OthersKeep
      <3> QED
        BY <3>1, <3>2, RestOwned
    <2> QED
      BY <1>1, <2>1, <2>2, <2>3, <2>4, <2>5 DEF LinkNext
  <1>2. ASSUME NEW a \in DOMAIN accounts, TriggerBackfill(a) PROVE Owned'
    BY <1>2, RestOwned DEF TriggerBackfill, tables
  <1>3. ASSUME NEW j \in DOMAIN jobs, PodStep(j) \/ PodDies(j) \/ Deadline(j) PROVE Owned'
    <2>1. UNCHANGED <<fresh, accounts, req, job>> /\ UNCHANGED bank
      BY <1>3 DEF PodStep, StartPod, ReadIntegration, FetchStatements, Flush, TokenRefused,
                  MarkError, Collect, PodDies, Deadline, linkVars, tables
    <2>2. UNCHANGED integrations \/ integrations' = WithError(jobs[j].integ)
      BY <1>3 DEF PodStep, StartPod, ReadIntegration, FetchStatements, Flush, TokenRefused,
                  MarkError, Collect, PodDies, Deadline, linkVars, tables
    <2> QED
      BY <2>1, <2>2, RestOwned
  <1>4. CASE UNCHANGED vars
    BY <1>4, RestOwned DEF vars, linkVars
  <1> QED
    BY <1>1, <1>2, <1>3, <1>4 DEF Next

\* Whatever is rebound, rotated or written back from a stale copy, an account is bound to
\* an integration of its own customer, and the webhook that the bank holds for a customer
\* never finds another customer's integration.
THEOREM CustomersStayApart == Spec => []OwnCustomerOnly
  <1> DEFINE Inv == Shape /\ Owned
  <1>1. MonobankInit => Inv
    BY InitShape, InitOwned
  <1>2. Inv /\ [Next]_vars => Inv'
    BY NextShape, NextOwned
  <1>3. Inv => OwnCustomerOnly
    <2> SUFFICES ASSUME Shape, Owned PROVE OwnCustomerOnly
      OBVIOUS
    <2>1. ASSUME NEW c \in Clients, NEW i \in Ids, bank[c].hook # None,
                 integrations[i].secret = bank[c].hook
          PROVE  integrations[i].client = c
      <3>1. /\ integrations[i].secret \in 1..fresh /\ integrations[i].client \in Clients
        BY RowsTyped
      <3>2. SecretClaim(bank[c].hook, c) /\ SecretClaim(integrations[i].secret, integrations[i].client)
        BY StandingClaims
      <3> QED
        BY <2>1, <3>1, <3>2 DEF Owned, SecretsOwned
    <2> QED
      BY <2>1 DEF OwnCustomerOnly, Owned, AccountsOwned
  <1> QED
    BY <1>1, <1>2, <1>3, PTL DEF Spec

-----------------------------------------------------------------------------
(* What a step does to the request that takes it.                          *)

\* Request r is at pc, with the rest of its fields as given.
Became(r, pc, mode, integ, secret, own) ==
    /\ req'[r].pc = pc /\ req'[r].mode = mode
    /\ req'[r].integ = integ /\ req'[r].secret = secret /\ req'[r].own = own

SameAdded(r) ==
    /\ req'[r].client = req[r].client
    /\ req'[r].added = req[r].added /\ req'[r].rebound = req[r].rebound

\* The request goes on to pc.
Moved(r, pc) ==
    Became(r, pc, req[r].mode, req[r].integ, req[r].secret, req[r].own) /\ SameAdded(r)

\* No other request moves.
OthersStay(r) == \A p \in Requests \ {r} : req'[p] = req[p]

\* A record takes the place of the request's.
LEMMA RequestReplaced ==
    ASSUME Shape, NEW r \in Requests, NEW q, req' = [req EXCEPT ![r] = q]
    PROVE  OthersStay(r) /\ req'[r] = q
  BY ScalarsTyped DEF OthersStay

\* Only the program counter changes.
LEMMA RequestGoes ==
    ASSUME Shape, NEW r \in Requests, NEW pc, req' = [req EXCEPT ![r].pc = pc]
    PROVE  OthersStay(r) /\ Moved(r, pc)
  <1>1. req \in [Requests -> Request(fresh, DOMAIN accounts)]
    BY ScalarsTyped
  <1>2. req[r] \in Request(fresh, DOMAIN accounts)
    BY <1>1
  <1> DEFINE q == [req[r] EXCEPT !.pc = pc]
  <1>3. /\ q.pc = pc /\ q.mode = req[r].mode /\ q.integ = req[r].integ
        /\ q.secret = req[r].secret /\ q.own = req[r].own
        /\ q.client = req[r].client /\ q.added = req[r].added /\ q.rebound = req[r].rebound
    BY <1>2 DEF Request
  <1>4. req' = [req EXCEPT ![r] = q]
    BY <1>1
  <1> HIDE DEF q
  <1> QED
    BY <1>3, <1>4, RequestReplaced DEF Moved, Became, SameAdded

\* get_client_info has answered.
LEMMA LinkEffect ==
    ASSUME Shape, NEW r \in Requests, NEW c \in Clients, Link(r, c)
    PROVE  /\ OthersStay(r) /\ req'[r].client = {c}
           /\ \/ Became(r, "conflict", "new", None, None, FALSE)
              \/ \E i \in RowsOf(c) \cap ActiveIds :
                    Became(r, "rotate", "rotate", i, integrations[i].secret, FALSE)
  <1> DEFINE asked == [Idle EXCEPT !.client = {c}, !.token = bank[c].token,
                                   !.pc = "conflict", !.mode = "new"]
             found == RowsOf(c) \cap ActiveIds
             i == CHOOSE i \in found : TRUE
             again == [asked EXCEPT !.pc = "rotate", !.mode = "rotate", !.integ = i,
                                    !.secret = integrations[i].secret]
  <1>1. /\ asked.pc = "conflict" /\ asked.mode = "new" /\ asked.integ = None
        /\ asked.secret = None /\ asked.own = FALSE /\ asked.client = {c}
    BY DEF Idle
  <1>2. /\ again.pc = "rotate" /\ again.mode = "rotate" /\ again.integ = i
        /\ again.secret = integrations[i].secret /\ again.own = FALSE /\ again.client = {c}
    BY DEF Idle
  <1>3. req' = [req EXCEPT ![r] = IF found = {} THEN asked ELSE again]
    BY DEF Link
  <1>4. found # {} => i \in found
    OBVIOUS
  <1> HIDE DEF asked, again, i, found
  <1>5. OthersStay(r) /\ req'[r] = IF found = {} THEN asked ELSE again
    BY <1>3, RequestReplaced
  <1>6. CASE found = {}
    BY <1>1, <1>5, <1>6 DEF Became
  <1>7. CASE found # {}
    BY <1>2, <1>4, <1>5, <1>7 DEF Became, found
  <1> QED
    BY <1>6, <1>7

\* The request ends: nothing of it is left.
Ended(r) == OthersStay(r) /\ req'[r] = Idle

LEMMA RequestEnded ==
    ASSUME Shape, NEW r \in Requests, req' = [req EXCEPT ![r] = Idle]
    PROVE  Ended(r)
  BY RequestReplaced DEF Ended

LEMMA CheckConflictEffect ==
    ASSUME Shape, NEW r \in Requests, CheckConflict(r)
    PROVE  Ended(r) \/ (ActiveIds = {} /\ OthersStay(r) /\ Moved(r, "insert"))
  <1>1. CASE ActiveIds = {}
    BY <1>1, RequestGoes DEF CheckConflict
  <1>2. CASE ActiveIds # {}
    BY <1>2, RequestEnded DEF CheckConflict
  <1> QED
    BY <1>1, <1>2

\* The customer whose rows a link looks at.
LEMMA CustomersRows ==
    ASSUME NEW r, NEW c, req[r].client = {c}
    PROVE  UNION {RowsOf(d) : d \in req[r].client} = RowsOf(c)
  OBVIOUS

LEMMA InsertEffect ==
    ASSUME Shape, NEW r \in Requests, InsertIntegration(r), NEW c \in Clients, req[r].client = {c}
    PROVE  /\ OthersStay(r) /\ SameAdded(r)
           /\ \/ /\ RowsOf(c) = {}
                 /\ Became(r, "accounts", req[r].mode, fresh + 1, fresh + 1, TRUE)
              \/ /\ RowsOf(c) # {}
                 /\ \E i : /\ Became(r, "reselect", req[r].mode, i, fresh + 1, req[r].own)
                           /\ RowsOf(c) \cap ActiveIds = {} => i = None
  <1> DEFINE rows == UNION {RowsOf(d) : d \in req[r].client}
             held == IF rows \subseteq ActiveIds THEN CHOOSE i \in rows : TRUE ELSE None
             mine == [req[r] EXCEPT !.pc = "accounts", !.own = TRUE, !.integ = fresh + 1,
                                    !.secret = fresh + 1]
             lost == [req[r] EXCEPT !.pc = "reselect", !.integ = held, !.secret = fresh + 1]
  <1>1. req \in [Requests -> Request(fresh, DOMAIN accounts)] /\ req[r] \in Request(fresh, DOMAIN accounts)
    BY ScalarsTyped
  <1>2. rows = RowsOf(c)
    BY CustomersRows
  <1>3. rows = {} => req' = [req EXCEPT ![r] = mine]
    BY <1>1 DEF InsertIntegration
  <1>4. rows # {} => req' = [req EXCEPT ![r] = lost]
    BY <1>1 DEF InsertIntegration
  <1>5. /\ mine.pc = "accounts" /\ mine.mode = req[r].mode /\ mine.integ = fresh + 1
        /\ mine.secret = fresh + 1 /\ mine.own = TRUE
        /\ mine.client = req[r].client /\ mine.added = req[r].added /\ mine.rebound = req[r].rebound
    BY <1>1 DEF Request
  <1>6. /\ lost.pc = "reselect" /\ lost.mode = req[r].mode /\ lost.integ = held
        /\ lost.secret = fresh + 1 /\ lost.own = req[r].own
        /\ lost.client = req[r].client /\ lost.added = req[r].added /\ lost.rebound = req[r].rebound
    BY <1>1 DEF Request
  <1>7. rows # {} /\ rows \cap ActiveIds = {} => held = None
    OBVIOUS
  <1> HIDE DEF rows, held, mine, lost
  <1>8. CASE rows = {}
    BY <1>2, <1>3, <1>5, <1>8, RequestReplaced DEF Became, SameAdded
  <1>9. CASE rows # {}
    <2>1. OthersStay(r) /\ req'[r] = lost
      BY <1>4, <1>9, RequestReplaced
    <2>2. Became(r, "reselect", req[r].mode, held, fresh + 1, req[r].own) /\ SameAdded(r)
      BY <1>6, <2>1 DEF Became, SameAdded
    <2> QED
      BY <1>2, <1>7, <1>9, <2>1, <2>2
  <1> QED
    BY <1>8, <1>9

LEMMA ReselectEffect ==
    ASSUME Shape, NEW r \in Requests, Reselect(r), NEW c \in Clients, req[r].client = {c}
    PROVE  /\ OthersStay(r) /\ SameAdded(r)
           /\ \/ /\ RowsOf(c) \cap ActiveIds = {} /\ Moved(r, "accounts")
                 /\ slipped' = (slipped \/ req[r].integ # None)
              \/ \E i \in RowsOf(c) \cap ActiveIds :
                    /\ Became(r, "rotate", "rotate", i, integrations[i].secret, req[r].own)
                    /\ slipped' = slipped
  <1> DEFINE found == (UNION {RowsOf(d) : d \in req[r].client}) \cap ActiveIds
             i == CHOOSE i \in found : TRUE
             q == [req[r] EXCEPT !.pc = "rotate", !.mode = "rotate", !.integ = i,
                                 !.secret = integrations[i].secret]
  <1>1. req \in [Requests -> Request(fresh, DOMAIN accounts)] /\ req[r] \in Request(fresh, DOMAIN accounts)
        /\ slipped \in BOOLEAN
    BY ScalarsTyped
  <1>2. found = RowsOf(c) \cap ActiveIds
    BY CustomersRows
  <1>3. found = {} => req' = [req EXCEPT ![r].pc = "accounts"]
    BY DEF Reselect, Goto
  <1>4. found # {} => req' = [req EXCEPT ![r] = q]
    BY <1>1 DEF Reselect
  <1>5. /\ q.pc = "rotate" /\ q.mode = "rotate" /\ q.integ = i
        /\ q.secret = integrations[i].secret /\ q.own = req[r].own
        /\ q.client = req[r].client /\ q.added = req[r].added /\ q.rebound = req[r].rebound
    BY <1>1 DEF Request
  <1>6. slipped' = (slipped \/ (found = {} /\ req[r].integ # None))
    BY DEF Reselect
  <1>7. found # {} => i \in found
    OBVIOUS
  <1> HIDE DEF found, i, q
  <1>8. CASE found = {}
    <2>1. OthersStay(r) /\ Moved(r, "accounts")
      BY <1>3, <1>8, RequestGoes
    <2>2. slipped' = (slipped \/ req[r].integ # None)
      BY <1>6, <1>8
    <2> QED
      BY <1>2, <1>8, <2>1, <2>2 DEF Moved
  <1>9. CASE found # {}
    <2>1. OthersStay(r) /\ req'[r] = q
      BY <1>4, <1>9, RequestReplaced
    <2>2. slipped' = slipped
      BY <1>1, <1>6, <1>9
    <2>3. i \in RowsOf(c) \cap ActiveIds
      BY <1>2, <1>7, <1>9
    <2>4. Became(r, "rotate", "rotate", i, integrations[i].secret, req[r].own) /\ SameAdded(r)
      BY <1>5, <2>1 DEF Became, SameAdded
    <2> QED
      BY <2>1, <2>2, <2>3, <2>4
  <1> QED
    BY <1>8, <1>9

LEMMA WriteAccountsEffect ==
    ASSUME Shape, NEW r \in Requests, WriteAccounts(r), NEW c \in Clients, req[r].client = {c}
    PROVE  \/ Ended(r)
           \/ /\ OthersStay(r)
              /\ Became(r, "webhook", req[r].mode, req[r].integ, req[r].secret, req[r].own)
              /\ req'[r].client = req[r].client
              /\ req'[r].added = CardsOf[c] \ {accounts[a].card : a \in Orphans(c)}
              /\ req'[r].rebound = Orphans(c)
  <1> DEFINE orphans == Orphans(c)
             added == CardsOf[c] \ {accounts[a].card : a \in orphans}
             q == [req[r] EXCEPT !.pc = "webhook", !.rebound = orphans, !.added = added]
             fits == req[r].own \/ req[r].integ \in Ids \cup {None}
  <1>1. req \in [Requests -> Request(fresh, DOMAIN accounts)] /\ req[r] \in Request(fresh, DOMAIN accounts)
    BY ScalarsTyped
  <1>2. (CHOOSE d \in Clients : d \in req[r].client) = c
    OBVIOUS
  <1>3. CASE fits
    <2>1. req' = [req EXCEPT ![r] = q]
      BY <1>1, <1>2, <1>3 DEF WriteAccounts
    <2>2. /\ q.pc = "webhook" /\ q.mode = req[r].mode /\ q.integ = req[r].integ
          /\ q.secret = req[r].secret /\ q.own = req[r].own
          /\ q.client = req[r].client /\ q.added = added /\ q.rebound = orphans
      BY <1>1 DEF Request
    <2> HIDE DEF q, added
    <2>3. OthersStay(r) /\ req'[r] = q
      BY <2>1, RequestReplaced
    <2>4. /\ Became(r, "webhook", req[r].mode, req[r].integ, req[r].secret, req[r].own)
          /\ req'[r].client = req[r].client /\ req'[r].added = added
          /\ req'[r].rebound = Orphans(c)
      BY <2>2, <2>3 DEF Became
    <2> QED
      BY <2>3, <2>4 DEF added
  <1>4. CASE ~fits
    <2>1. req' = [req EXCEPT ![r] = Idle]
      BY <1>4 DEF WriteAccounts
    <2> QED
      BY <2>1, RequestEnded
  <1> QED
    BY <1>3, <1>4

LEMMA PlainEffect ==
    ASSUME Shape, NEW r \in Requests
    PROVE  /\ Rotate(r) => OthersStay(r) /\ Moved(r, "webhook")
           /\ SetWebhook(r) => OthersStay(r) /\ Moved(r, "commit")
           /\ Deregister(r) => OthersStay(r) /\ Moved(r, "delete")
           /\ DeleteIntegration(r) =>
                 \/ role = "owner" /\ req[r].integ \in Ids /\ OthersStay(r) /\ Moved(r, "commit")
                 \/ ~(role = "owner" /\ req[r].integ \in Ids) /\ Ended(r)
           /\ LinkFails(r) \/ CommitLink(r) \/ CommitRotation(r) \/ CommitUnlink(r) \/ Rollback(r)
                 => Ended(r)
  <1>1. Rotate(r) => OthersStay(r) /\ Moved(r, "webhook")
    BY RequestGoes DEF Rotate, Goto
  <1>2. SetWebhook(r) => OthersStay(r) /\ Moved(r, "commit")
    BY RequestGoes DEF SetWebhook, Goto
  <1>3. Deregister(r) => OthersStay(r) /\ Moved(r, "delete")
    BY RequestGoes DEF Deregister, Goto
  <1>4. ASSUME DeleteIntegration(r)
        PROVE  \/ role = "owner" /\ req[r].integ \in Ids /\ OthersStay(r) /\ Moved(r, "commit")
               \/ ~(role = "owner" /\ req[r].integ \in Ids) /\ Ended(r)
    <2>1. CASE role = "owner" /\ req[r].integ \in Ids
      BY <1>4, <2>1, RequestGoes DEF DeleteIntegration, Goto
    <2>2. CASE ~(role = "owner" /\ req[r].integ \in Ids)
      BY <1>4, <2>2, RequestEnded DEF DeleteIntegration
    <2> QED
      BY <2>1, <2>2
  <1>5. LinkFails(r) \/ CommitLink(r) \/ CommitRotation(r) \/ CommitUnlink(r) \/ Rollback(r)
           => Ended(r)
    BY RequestEnded DEF LinkFails, CommitLink, CommitRotation, CommitUnlink, Rollback
  <1> QED
    BY <1>1, <1>2, <1>3, <1>4, <1>5

LEMMA UnlinkEffect ==
    ASSUME Shape, NEW r \in Requests, NEW i \in Ids, Unlink(r, i)
    PROVE  /\ OthersStay(r) /\ req'[r].client = {integrations[i].client}
           /\ Became(r, "deregister", "unlink", i, None, FALSE)
  <1>1. PICK token \in DecryptToken(i) :
           req' = [req EXCEPT ![r] = [Idle EXCEPT !.pc = "deregister", !.mode = "unlink", !.integ = i,
                                                  !.client = {integrations[i].client}, !.token = token]]
    BY DEF Unlink
  <1> DEFINE q == [Idle EXCEPT !.pc = "deregister", !.mode = "unlink", !.integ = i,
                               !.client = {integrations[i].client}, !.token = token]
  <1>2. /\ q.pc = "deregister" /\ q.mode = "unlink" /\ q.integ = i /\ q.secret = None
        /\ q.own = FALSE /\ q.client = {integrations[i].client}
    BY DEF Idle
  <1>3. req' = [req EXCEPT ![r] = q]
    BY <1>1
  <1> HIDE DEF q
  <1> QED
    BY <1>2, <1>3, RequestReplaced DEF Became

-----------------------------------------------------------------------------
(* Who owns the integration of a customer.                                 *)

\* The unique index on the customer: two links cannot both have inserted, none has
\* inserted where a row exists, and there is one row for each customer.
OneOwner ==
    /\ \A r, q \in Requests : req[r].own /\ req[q].own /\ req[r].client = req[q].client => r = q
    /\ \A r \in Requests : req[r].own => \A i \in Ids : integrations[i].client \notin req[r].client
    /\ \A i, j \in Ids : integrations[i].client = integrations[j].client => i = j

\* Nobody begins to own, and no row appears.
LEMMA OwnersKept ==
    ASSUME OneOwner,
           \A r \in Requests : req'[r].own => req[r].own /\ req'[r].client = req[r].client,
           \A i \in Ids' : i \in Ids /\ integrations'[i].client = integrations[i].client
    PROVE  OneOwner'
  <1>1. \A r, q \in Requests : req'[r].own /\ req'[q].own /\ req'[r].client = req'[q].client => r = q
    BY DEF OneOwner
  <1>2. \A r \in Requests : req'[r].own => \A i \in Ids' : integrations'[i].client \notin req'[r].client
    BY DEF OneOwner
  <1>3. \A i, j \in Ids' : integrations'[i].client = integrations'[j].client => i = j
    BY DEF OneOwner
  <1> QED
    BY <1>1, <1>2, <1>3 DEF OneOwner

\* One request moves, and does not begin to own.
LEMMA OwnerMoves ==
    ASSUME OneOwner, NEW r \in Requests, OthersStay(r), UNCHANGED integrations,
           req'[r].own => req[r].own /\ req'[r].client = req[r].client
    PROVE  OneOwner'
  <1>1. \A p \in Requests : req'[p].own => req[p].own /\ req'[p].client = req[p].client
    BY DEF OthersStay
  <1>2. \A i \in Ids' : i \in Ids /\ integrations'[i].client = integrations[i].client
    BY DEF Ids
  <1> QED
    BY <1>1, <1>2, OwnersKept

\* A link that finds no row inserts one, unless another has.
LEMMA OwnerInserts ==
    ASSUME Shape, OneOwner, NEW r \in Requests, InsertIntegration(r)
    PROVE  OneOwner'
  <1>1. UNCHANGED integrations
    BY DEF InsertIntegration
  <1>2. PICK c \in Clients : req[r].client = {c}
    <2>1. req[r].mode # "none"
      BY DEF InsertIntegration, Shape, Controlled, Control
    <2> QED
      BY <2>1, OneCustomer
  <1>3. OthersStay(r) /\ SameAdded(r)
    BY <1>2, InsertEffect
  <1>4. CASE RowsOf(c) # {}
    <2>1. req'[r].own = req[r].own
      BY <1>2, <1>4, InsertEffect DEF Became
    <2> QED
      BY <1>1, <1>3, <2>1, OwnerMoves DEF SameAdded
  <1>5. CASE RowsOf(c) = {}
    <2>1. \A q \in Requests \ {r} : req[q].own => req[q].client # req[r].client
      BY DEF InsertIntegration, Contended
    <2>2. \A i \in Ids : integrations[i].client \notin req[r].client
      BY <1>2, <1>5 DEF RowsOf
    <2>3. /\ \A q \in Requests \ {r} : req'[q] = req[q]
          /\ req'[r].client = req[r].client
      BY <1>3 DEF OthersStay, SameAdded
    <2>4. ASSUME NEW p \in Requests, NEW q \in Requests,
                 req'[p].own, req'[q].own, req'[p].client = req'[q].client, p # q
          PROVE  FALSE
      <3>1. CASE p = r
        BY <2>1, <2>3, <2>4, <3>1
      <3>2. CASE q = r
        BY <2>1, <2>3, <2>4, <3>2
      <3>3. CASE p # r /\ q # r
        BY <2>3, <2>4, <3>3 DEF OneOwner
      <3> QED
        BY <3>1, <3>2, <3>3
    <2>5. \A p \in Requests : req'[p].own => \A i \in Ids : integrations[i].client \notin req'[p].client
      BY <2>2, <2>3 DEF OneOwner
    <2>6. Ids' = Ids
      BY <1>1 DEF Ids
    <2> QED
      BY <1>1, <2>4, <2>5, <2>6 DEF OneOwner
  <1> QED
    BY <1>4, <1>5

\* What a link that owns commits: a row for a customer that had none.
LEMMA OwnerCommits ==
    ASSUME Shape, OneOwner, NEW r \in Requests, CommitLink(r)
    PROVE  OneOwner'
  <1>1. PICK c \in Clients : req[r].client = {c}
    <2>1. req[r].mode # "none"
      BY DEF CommitLink
    <2> QED
      BY <2>1, OneCustomer
  <1>2. OthersStay(r) /\ req'[r] = Idle /\ ~Idle.own
    BY PlainEffect DEF Ended, Idle
  <1>3. CASE ~req[r].own
    <2>1. UNCHANGED integrations
      BY <1>3 DEF CommitLink
    <2> QED
      BY <1>2, <2>1, OwnerMoves
  <1>4. CASE req[r].own
    <2> DEFINE i == req[r].integ
               new == [client |-> c, token |-> req[r].token, secret |-> req[r].secret,
                       status |-> "active"]
    <2>1. integrations' = Put(integrations, i, new)
      <3>1. (CHOOSE d \in Clients : d \in req[r].client) = c
        BY <1>1
      <3> QED
        BY <1>4, <3>1 DEF CommitLink
    <2>2. /\ \A j \in Ids' : j = i \/ j \in Ids
          /\ \A j \in Ids' : integrations'[j] = IF j = i THEN new ELSE integrations[j]
      BY <2>1 DEF Put, Ids
    <2>3. new.client = c
      OBVIOUS
    <2> HIDE DEF i, new
    <2>4. \A j \in Ids : integrations[j].client # c
      BY <1>1, <1>4 DEF OneOwner
    <2>5. \A p \in Requests : req'[p].own => p # r /\ req'[p] = req[p]
      BY <1>2 DEF OthersStay
    <2>6. \A p \in Requests : p # r /\ req[p].own => c \notin req[p].client
      <3> SUFFICES ASSUME NEW p \in Requests, p # r, req[p].own, c \in req[p].client PROVE FALSE
        OBVIOUS
      <3>1. \E d \in Clients : req[p].client = {d}
        BY DEF Shape, Controlled, Control
      <3>2. req[p].client = req[r].client
        BY <1>1, <3>1
      <3> QED
        BY <1>4, <3>2 DEF OneOwner
    <2>7. \A p, q \in Requests : req'[p].own /\ req'[q].own /\ req'[p].client = req'[q].client => p = q
      BY <2>5 DEF OneOwner
    <2>8. \A p \in Requests : req'[p].own => \A j \in Ids' : integrations'[j].client \notin req'[p].client
      BY <2>2, <2>3, <2>5, <2>6 DEF OneOwner
    <2>9. \A j, k \in Ids' : integrations'[j].client = integrations'[k].client => j = k
      BY <2>2, <2>3, <2>4 DEF OneOwner
    <2> QED
      BY <2>7, <2>8, <2>9 DEF OneOwner
  <1> QED
    BY <1>3, <1>4

\* A row changes, and remains its customer's.
LEMMA RowRewritten ==
    ASSUME Shape, NEW k,
           \/ UNCHANGED integrations
           \/ \E token : integrations' = WithToken(k, token)
           \/ integrations' = WithError(k)
           \/ \E token, secret :
                 integrations' = IF k \in Ids
                                 THEN [integrations EXCEPT ![k].token = token, ![k].secret = secret]
                                 ELSE integrations
    PROVE  /\ Ids' = Ids
           /\ \A i \in Ids : integrations'[i].client = integrations[i].client
  <1>1. integrations \in [Ids -> Row(fresh)]
    BY OthersKeep
  <1>2. \A i \in Ids : integrations[i] \in Row(fresh)
    BY <1>1
  <1>3. CASE UNCHANGED integrations
    BY <1>3 DEF Ids
  <1>4. ASSUME NEW token, integrations' = WithToken(k, token)
        PROVE  /\ Ids' = Ids
               /\ \A i \in Ids : integrations'[i].client = integrations[i].client
    <2>1. CASE k \in Ids
      <3>1. integrations' = [integrations EXCEPT ![k].token = token]
        BY <1>4, <2>1 DEF WithToken
      <3> QED
        BY <1>1, <1>2, <2>1, <3>1 DEF Ids, Row
    <2>2. CASE k \notin Ids
      BY <1>4, <2>2 DEF WithToken, Ids
    <2> QED
      BY <2>1, <2>2
  <1>5. CASE integrations' = WithError(k)
    BY <1>1, <1>2, <1>5 DEF WithError, Ids, Row
  <1>6. ASSUME NEW token, NEW secret,
               integrations' = IF k \in Ids
                               THEN [integrations EXCEPT ![k].token = token, ![k].secret = secret]
                               ELSE integrations
        PROVE  /\ Ids' = Ids
               /\ \A i \in Ids : integrations'[i].client = integrations[i].client
    BY <1>1, <1>2, <1>6 DEF Ids, Row
  <1> QED
    BY <1>3, <1>4, <1>5, <1>6

\* The requests stay where they are.
LEMMA OwnersUndisturbed ==
    ASSUME OneOwner, UNCHANGED req, Ids' = Ids,
           \A i \in Ids : integrations'[i].client = integrations[i].client
    PROVE  OneOwner'
  BY OwnersKept

\* What becomes of the requests and of the rows when neither a request moves.
LEMMA OthersEffect ==
    ASSUME Shape,
           \/ StartReregistration \/ UpdateConfig \/ PushConfig \/ JobDies
           \/ \E c \in Clients : NewToken(c)
           \/ \E a \in DOMAIN accounts : TriggerBackfill(a)
           \/ \E j \in DOMAIN jobs : PodStep(j) \/ PodDies(j) \/ Deadline(j)
           \/ UNCHANGED vars
    PROVE  /\ UNCHANGED req /\ UNCHANGED <<accounts, slipped>>
           /\ Ids' = Ids
           /\ \A i \in Ids : integrations'[i].client = integrations[i].client
  <1>1. ASSUME StartReregistration \/ PushConfig \/ JobDies
        PROVE  UNCHANGED <<req, accounts, slipped, integrations>>
    BY <1>1 DEF StartReregistration, PushConfig, JobDies, tables
  <1>2. CASE UpdateConfig
    <2>1. UNCHANGED <<req, accounts, slipped>>
      BY <1>2 DEF UpdateConfig
    <2>2. PICK k, token, secret :
             integrations' = IF k \in Ids
                             THEN [integrations EXCEPT ![k].token = token, ![k].secret = secret]
                             ELSE integrations
      BY <1>2 DEF UpdateConfig
    <2>3. /\ Ids' = Ids
          /\ \A i \in Ids : integrations'[i].client = integrations[i].client
      <3>1. \E t, s :
               integrations' = IF k \in Ids
                               THEN [integrations EXCEPT ![k].token = t, ![k].secret = s]
                               ELSE integrations
        BY <2>2
      <3> QED
        BY <3>1, RowRewritten
    <2> QED
      BY <2>1, <2>3
  <1>3. ASSUME NEW c \in Clients, NewToken(c)
        PROVE  UNCHANGED <<req, accounts, slipped, integrations>>
    BY <1>3 DEF NewToken, tables
  <1>4. ASSUME NEW a \in DOMAIN accounts, TriggerBackfill(a)
        PROVE  UNCHANGED <<req, accounts, slipped, integrations>>
    BY <1>4 DEF TriggerBackfill, tables
  <1>5. ASSUME NEW j \in DOMAIN jobs, PodStep(j) \/ PodDies(j) \/ Deadline(j)
        PROVE  /\ UNCHANGED <<req, accounts, slipped>>
               /\ UNCHANGED integrations \/ integrations' = WithError(jobs[j].integ)
    BY <1>5 DEF PodStep, StartPod, ReadIntegration, FetchStatements, Flush, TokenRefused,
                MarkError, Collect, PodDies, Deadline, linkVars, tables
  <1>6. CASE UNCHANGED vars
    BY <1>6 DEF vars, linkVars, Ids
  <1>7. ASSUME UNCHANGED integrations
        PROVE  Ids' = Ids /\ \A i \in Ids : integrations'[i].client = integrations[i].client
    BY <1>7 DEF Ids
  <1> QED
    BY <1>1, <1>2, <1>3, <1>4, <1>5, <1>6, <1>7, RowRewritten

\* One case per action of Next.
LEMMA NextOwner == Shape /\ OneOwner /\ [Next]_vars => OneOwner'
  <1> SUFFICES ASSUME Shape, OneOwner, [Next]_vars PROVE OneOwner'
    OBVIOUS
  <1>0. \A r \in Requests : req[r].mode # "none" => \E c \in Clients : req[r].client = {c}
    BY OneCustomer
  <1>1. ASSUME NEW r \in Requests, NEW c \in Clients, Link(r, c) PROVE OneOwner'
    <2>1. OthersStay(r) /\ ~req'[r].own
      BY <1>1, LinkEffect DEF Became
    <2> QED
      BY <1>1, <2>1, OwnerMoves DEF Link, tables
  <1>2. ASSUME NEW r \in Requests, NEW i \in Ids, Unlink(r, i) PROVE OneOwner'
    <2>1. OthersStay(r) /\ ~req'[r].own
      BY <1>2, UnlinkEffect DEF Became
    <2> QED
      BY <1>2, <2>1, OwnerMoves DEF Unlink, tables
  <1>3. ASSUME NEW r \in Requests, LinkStep(r) \/ Rollback(r) PROVE OneOwner'
    <2>1. ASSUME Ended(r), UNCHANGED integrations PROVE OneOwner'
      BY <2>1, OwnerMoves DEF Ended, Idle
    <2>2. ASSUME NEW pc, OthersStay(r), Moved(r, pc), UNCHANGED integrations PROVE OneOwner'
      BY <2>2, OwnerMoves DEF Moved, Became, SameAdded
    <2>3. ASSUME CheckConflict(r) PROVE OneOwner'
      BY <2>1, <2>2, <2>3, CheckConflictEffect DEF CheckConflict, tables
    <2>4. ASSUME Reselect(r) PROVE OneOwner'
      <3>1. PICK c \in Clients : req[r].client = {c}
        BY <1>0, <2>4 DEF Reselect, Shape, Controlled, Control
      <3>2. OthersStay(r) /\ SameAdded(r) /\ req'[r].own = req[r].own
        BY <2>4, <3>1, ReselectEffect DEF Became, Moved
      <3> QED
        BY <2>4, <3>2, OwnerMoves DEF Reselect, SameAdded
    <2>5. ASSUME WriteAccounts(r) PROVE OneOwner'
      <3>1. PICK c \in Clients : req[r].client = {c}
        BY <1>0, <2>5 DEF WriteAccounts, Shape, Controlled, Control
      <3>2. UNCHANGED integrations
        BY <2>5 DEF WriteAccounts, tables
      <3>3. Ended(r) \/ (OthersStay(r) /\ req'[r].own = req[r].own /\ req'[r].client = req[r].client)
        BY <2>5, <3>1, WriteAccountsEffect DEF Became
      <3> QED
        BY <2>1, <3>2, <3>3, OwnerMoves
    <2>6. ASSUME Rotate(r) \/ SetWebhook(r) \/ Deregister(r) \/ DeleteIntegration(r)
                 \/ LinkFails(r) \/ Rollback(r)
          PROVE  OneOwner'
      <3>1. UNCHANGED integrations
        BY <2>6 DEF Rotate, SetWebhook, Deregister, DeleteIntegration, LinkFails, Rollback, tables
      <3>2. Ended(r) \/ \E pc : OthersStay(r) /\ Moved(r, pc)
        BY <2>6, PlainEffect
      <3> QED
        BY <2>1, <2>2, <3>1, <3>2
    <2>7. ASSUME CommitRotation(r) \/ CommitUnlink(r) PROVE OneOwner'
      <3>1. Ended(r)
        BY <2>7, PlainEffect
      <3>2. \A p \in Requests : req'[p].own => req[p].own /\ req'[p].client = req[p].client
        BY <3>1 DEF Ended, OthersStay, Idle
      <3>3. \A i \in Ids' : i \in Ids /\ integrations'[i].client = integrations[i].client
        <4>1. CASE CommitRotation(r)
          BY <4>1, RowRewritten DEF CommitRotation
        <4>2. CASE CommitUnlink(r)
          BY <4>2 DEF CommitUnlink, Ids
        <4> QED
          BY <2>7, <4>1, <4>2
      <3> QED
        BY <3>2, <3>3, OwnersKept
    <2> QED
      BY <1>3, <2>3, <2>4, <2>5, <2>6, <2>7, OwnerInserts, OwnerCommits DEF LinkStep
  <1>4. ASSUME \/ StartReregistration \/ UpdateConfig \/ PushConfig \/ JobDies
               \/ \E c \in Clients : NewToken(c)
               \/ \E a \in DOMAIN accounts : TriggerBackfill(a)
               \/ \E j \in DOMAIN jobs : PodStep(j) \/ PodDies(j) \/ Deadline(j)
               \/ UNCHANGED vars
        PROVE  OneOwner'
    <2>1. /\ UNCHANGED req /\ Ids' = Ids
          /\ \A i \in Ids : integrations'[i].client = integrations[i].client
      BY <1>4, OthersEffect
    <2> QED
      BY <2>1, OwnersUndisturbed
  <1> QED
    BY <1>1, <1>2, <1>3, <1>4 DEF Next, LinkNext

-----------------------------------------------------------------------------
(* One account for each card.                                              *)

\* A link that has lost its insert keeps nothing, and a link that owns adds cards that
\* have no account.
LinksAddOnce ==
    /\ \A r \in Requests :
          req[r].mode = "new" /\ req[r].pc \in {"accounts", "webhook", "commit"} /\ ~req[r].own
          => req[r].integ = None
    /\ \A r \in Requests :
          req[r].own /\ req[r].pc \in {"webhook", "commit"}
          => \A a \in DOMAIN accounts : accounts[a].card \notin req[r].added

CardsOnce ==
    ~slipped =>
        /\ \A a, b \in DOMAIN accounts : accounts[a].card = accounts[b].card => a = b
        /\ LinksAddOnce

\* What has been said of request r remains so.
StillAddsOnce(r) ==
    /\ req'[r].mode = "new" /\ req'[r].pc \in {"accounts", "webhook", "commit"} /\ ~req'[r].own
       => \/ req'[r].integ = None
          \/ /\ req[r].mode = "new" /\ req[r].pc \in {"accounts", "webhook", "commit"}
             /\ ~req[r].own /\ req'[r].integ = req[r].integ
    /\ req'[r].own /\ req'[r].pc \in {"webhook", "commit"}
       => req[r].own /\ req[r].pc \in {"webhook", "commit"} /\ req'[r].added = req[r].added

\* No account is added.
LEMMA CardsKept ==
    ASSUME CardsOnce, slipped => slipped', DOMAIN accounts' = DOMAIN accounts,
           \A a \in DOMAIN accounts : accounts'[a].card = accounts[a].card,
           \A r \in Requests : StillAddsOnce(r)
    PROVE  CardsOnce'
  <1> SUFFICES ASSUME ~slipped'
               PROVE  /\ \A a, b \in DOMAIN accounts' : accounts'[a].card = accounts'[b].card => a = b
                      /\ LinksAddOnce'
    BY DEF CardsOnce
  <1>1. \A a, b \in DOMAIN accounts : accounts[a].card = accounts[b].card => a = b
    BY DEF CardsOnce
  <1>2. LinksAddOnce
    BY DEF CardsOnce
  <1>3. LinksAddOnce'
    BY <1>2 DEF LinksAddOnce, StillAddsOnce
  <1> QED
    BY <1>1, <1>3

\* One request moves.
LEMMA CardsMove ==
    ASSUME CardsOnce, NEW r \in Requests, OthersStay(r), UNCHANGED <<accounts, slipped>>,
           StillAddsOnce(r)
    PROVE  CardsOnce'
  <1>1. \A p \in Requests : StillAddsOnce(p)
    BY DEF StillAddsOnce, OthersStay
  <1> QED
    BY <1>1, CardsKept

\* A card has one customer.
LEMMA CardsCustomer ==
    ASSUME Shape, NEW a \in DOMAIN accounts, NEW c \in Clients, accounts[a].card \in CardsOf[c]
    PROVE  accounts[a].client = c
  <1>1. accounts[a].card \in CardsOf[accounts[a].client] /\ accounts[a].client \in Clients
    BY AccountTyped DEF Shape, TypeOK
  <1> QED
    BY <1>1, MonobankAssumption

\* A link that owns finds every account of the customer without an integration.
LEMMA OwnerFindsOrphans ==
    ASSUME Shape, OneOwner, AccountsOwned, NEW r \in Requests, req[r].own,
           NEW c \in Clients, req[r].client = {c},
           NEW a \in DOMAIN accounts, accounts[a].card \in CardsOf[c]
    PROVE  a \in Orphans(c)
  <1>1. accounts[a].client = c
    BY CardsCustomer
  <1>2. accounts[a].integration = None
    <2> SUFFICES ASSUME accounts[a].integration # None PROVE FALSE
      OBVIOUS
    <2>1. /\ accounts[a].integration \in Ids
          /\ integrations[accounts[a].integration].client = c
      BY <1>1, AccountTyped DEF AccountsOwned
    <2> QED
      BY <2>1 DEF OneOwner
  <1> QED
    BY <1>1, <1>2 DEF Orphans

\* The accounts that are written are those of cards that have none.
LEMMA CardsWritten ==
    ASSUME Shape, OneOwner, AccountsOwned, CardsOnce, NEW r \in Requests, WriteAccounts(r)
    PROVE  CardsOnce'
  <1>1. PICK c \in Clients : req[r].client = {c}
    <2>1. req[r].mode # "none"
      BY DEF WriteAccounts, Shape, Controlled, Control
    <2> QED
      BY <2>1, OneCustomer
  <1>2. UNCHANGED <<accounts, slipped>>
    BY DEF WriteAccounts, tables
  <1>3. CASE Ended(r)
    <2>1. OthersStay(r) /\ StillAddsOnce(r)
      BY <1>3 DEF Ended, Idle, StillAddsOnce
    <2> QED
      BY <1>2, <2>1, CardsMove
  <1>4. CASE /\ OthersStay(r)
             /\ Became(r, "webhook", req[r].mode, req[r].integ, req[r].secret, req[r].own)
             /\ req'[r].client = req[r].client
             /\ req'[r].added = CardsOf[c] \ {accounts[a].card : a \in Orphans(c)}
    <2> SUFFICES ASSUME ~slipped' PROVE CardsOnce'
      BY DEF CardsOnce
    <2>1. LinksAddOnce /\ \A a, b \in DOMAIN accounts : accounts[a].card = accounts[b].card => a = b
      BY <1>2 DEF CardsOnce
    <2>2. req[r].pc = "accounts"
      BY DEF WriteAccounts
    <2>3. req'[r].mode = "new" /\ ~req'[r].own => req'[r].integ = None
      BY <1>4, <2>1, <2>2 DEF LinksAddOnce, Became
    <2>4. req'[r].own => \A a \in DOMAIN accounts : accounts[a].card \notin req'[r].added
      <3> SUFFICES ASSUME req'[r].own, NEW a \in DOMAIN accounts, accounts[a].card \in req'[r].added
                   PROVE  FALSE
        OBVIOUS
      <3>1. req[r].own
        BY <1>4 DEF Became
      <3>2. accounts[a].card \in CardsOf[c] /\ a \notin Orphans(c)
        BY <1>4
      <3> QED
        BY <1>1, <3>1, <3>2, OwnerFindsOrphans
    <2>5. LinksAddOnce'
      BY <1>2, <1>4, <2>1, <2>3, <2>4 DEF LinksAddOnce, OthersStay
    <2> QED
      BY <1>2, <2>1, <2>5 DEF CardsOnce
  <1> QED
    BY <1>1, <1>3, <1>4, WriteAccountsEffect

\* The commit of a link.
LEMMA CardsCommitted ==
    ASSUME Shape, OneOwner, CardsOnce, NEW r \in Requests, CommitLink(r)
    PROVE  CardsOnce'
  <1> SUFFICES ASSUME ~slipped' PROVE CardsOnce'
    BY DEF CardsOnce
  <1>1. PICK c \in Clients : req[r].client = {c} /\ req[r].added \subseteq CardsOf[c]
    <2>1. req[r].mode # "none"
      BY DEF CommitLink
    <2> QED
      BY <2>1, OneCustomer
  <1>2. slipped' = slipped /\ req[r].mode = "new" /\ req[r].pc = "commit" /\ req[r].integ # None
    BY DEF CommitLink
  <1>3. LinksAddOnce /\ \A a, b \in DOMAIN accounts : accounts[a].card = accounts[b].card => a = b
    BY <1>2 DEF CardsOnce
  <1>4. req[r].own
    BY <1>2, <1>3 DEF LinksAddOnce
  <1>5. /\ \A a \in DOMAIN accounts : accounts'[a].card = accounts[a].card
        /\ \A a \in DOMAIN accounts' \ DOMAIN accounts : accounts'[a].card \in req[r].added
        /\ \A a, b \in DOMAIN accounts' \ DOMAIN accounts : accounts'[a].card = accounts'[b].card => a = b
    <2>1. \A a \in DOMAIN accounts :
             accounts'[a] = IF a \in req[r].rebound
                            THEN [accounts[a] EXCEPT !.integration = req[r].integ] ELSE accounts[a]
      BY <1>1, AccountsCommitted
    <2>2. \A a \in DOMAIN accounts :
             accounts[a] \in [card : Cards, client : Clients, integration : Ids \cup {None}]
      <3>1. accounts \in Seq([card : Cards, client : Clients, integration : Ids \cup {None}])
        BY DEF Shape, TypeOK
      <3> QED
        BY <3>1, LenProperties, ElementOfSeq
    <2>3. \A a \in DOMAIN accounts : accounts'[a].card = accounts[a].card
      BY <2>1, <2>2
    <2> QED
      BY <1>1, <2>3, AccountsCommitted
  <1>6. \A a \in DOMAIN accounts : accounts[a].card \notin req[r].added
    BY <1>2, <1>3, <1>4 DEF LinksAddOnce
  <1>7. ASSUME NEW a \in DOMAIN accounts', NEW b \in DOMAIN accounts',
               accounts'[a].card = accounts'[b].card
        PROVE  a = b
    <2>1. CASE a \in DOMAIN accounts /\ b \in DOMAIN accounts
      BY <1>3, <1>5, <1>7, <2>1
    <2>2. CASE a \in DOMAIN accounts /\ b \notin DOMAIN accounts
      BY <1>5, <1>6, <1>7, <2>2
    <2>3. CASE a \notin DOMAIN accounts /\ b \in DOMAIN accounts
      BY <1>5, <1>6, <1>7, <2>3
    <2>4. CASE a \notin DOMAIN accounts /\ b \notin DOMAIN accounts
      BY <1>5, <1>7, <2>4
    <2> QED
      BY <2>1, <2>2, <2>3, <2>4
  <1>8. Ended(r)
    BY PlainEffect
  <1>9. \A p \in Requests : p # r => req'[p] = req[p]
    BY <1>8 DEF Ended, OthersStay
  <1>10. ~req'[r].own /\ req'[r].mode # "new"
    BY <1>8 DEF Ended, Idle
  <1>11. ASSUME NEW p \in Requests, p # r, req[p].own, req[p].pc \in {"webhook", "commit"},
                NEW a \in DOMAIN accounts'
         PROVE  accounts'[a].card \notin req[p].added
    <2>1. CASE a \in DOMAIN accounts
      BY <1>3, <1>5, <1>11, <2>1 DEF LinksAddOnce
    <2>2. CASE a \notin DOMAIN accounts
      <3>1. accounts'[a].card \in CardsOf[c]
        BY <1>1, <1>5, <2>2
      <3>2. PICK d \in Clients : req[p].client = {d} /\ req[p].added \subseteq CardsOf[d]
        BY <1>11 DEF Shape, Controlled, Control
      <3>3. d # c
        BY <1>1, <1>4, <1>11, <3>2 DEF OneOwner
      <3> QED
        BY <3>1, <3>2, <3>3, MonobankAssumption
    <2> QED
      BY <2>1, <2>2
  <1>12. LinksAddOnce'
    BY <1>3, <1>9, <1>10, <1>11 DEF LinksAddOnce
  <1> QED
    BY <1>7, <1>12 DEF CardsOnce

\* One case per action of Next.
LEMMA NextCards == Shape /\ Owned /\ OneOwner /\ CardsOnce /\ [Next]_vars => CardsOnce'
  <1> SUFFICES ASSUME Shape, Owned, OneOwner, CardsOnce, [Next]_vars PROVE CardsOnce'
    OBVIOUS
  <1>0. \A r \in Requests : req[r].mode # "none" => \E c \in Clients : req[r].client = {c}
    BY OneCustomer
  <1>1. ASSUME NEW r \in Requests, NEW c \in Clients, Link(r, c) PROVE CardsOnce'
    <2>1. OthersStay(r) /\ StillAddsOnce(r)
      BY <1>1, LinkEffect DEF Became, StillAddsOnce
    <2> QED
      BY <1>1, <2>1, CardsMove DEF Link, tables
  <1>2. ASSUME NEW r \in Requests, NEW i \in Ids, Unlink(r, i) PROVE CardsOnce'
    <2>1. OthersStay(r) /\ StillAddsOnce(r)
      BY <1>2, UnlinkEffect DEF Became, StillAddsOnce
    <2> QED
      BY <1>2, <2>1, CardsMove DEF Unlink, tables
  <1>3. ASSUME NEW r \in Requests, LinkStep(r) \/ Rollback(r) PROVE CardsOnce'
    <2>1. ASSUME Ended(r), UNCHANGED <<accounts, slipped>> PROVE CardsOnce'
      <3>1. OthersStay(r) /\ StillAddsOnce(r)
        BY <2>1 DEF Ended, Idle, StillAddsOnce
      <3> QED
        BY <2>1, <3>1, CardsMove
    <2>2. ASSUME NEW pc, OthersStay(r), Moved(r, pc), UNCHANGED <<accounts, slipped>>,
                 \/ pc \in {"insert", "delete"}
                 \/ req[r].pc = "webhook"
                 \/ req[r].mode \in {"rotate", "unlink"}
          PROVE  CardsOnce'
      <3>1. StillAddsOnce(r)
        <4>1. req[r].own => req[r].mode = "new"
          BY DEF Shape, Controlled, Control
        <4> QED
          BY <2>2, <4>1 DEF Moved, Became, SameAdded, StillAddsOnce
      <3> QED
        BY <2>2, <3>1, CardsMove
    <2>3. ASSUME CheckConflict(r) PROVE CardsOnce'
      BY <2>1, <2>2, <2>3, CheckConflictEffect DEF CheckConflict, tables
    <2>4. ASSUME InsertIntegration(r) PROVE CardsOnce'
      <3>1. PICK c \in Clients : req[r].client = {c}
        BY <1>0, <2>4 DEF InsertIntegration, Shape, Controlled, Control
      <3>2. OthersStay(r) /\ StillAddsOnce(r)
        BY <2>4, <3>1, InsertEffect DEF Became, StillAddsOnce
      <3> QED
        BY <2>4, <3>2, CardsMove DEF InsertIntegration
    <2>5. ASSUME Reselect(r) PROVE CardsOnce'
      <3>1. PICK c \in Clients : req[r].client = {c}
        BY <1>0, <2>5 DEF Reselect, Shape, Controlled, Control
      <3>2. UNCHANGED accounts
        BY <2>5 DEF Reselect
      <3>3. OthersStay(r)
        BY <2>5, <3>1, ReselectEffect
      <3>4. slipped' \/ (StillAddsOnce(r) /\ UNCHANGED slipped)
        BY <2>5, <3>1, ReselectEffect, ScalarsTyped DEF Moved, Became, StillAddsOnce
      <3>5. CASE slipped'
        BY <3>5 DEF CardsOnce
      <3> QED
        BY <3>2, <3>3, <3>4, <3>5, CardsMove
    <2>6. ASSUME Rotate(r) \/ SetWebhook(r) \/ Deregister(r) \/ DeleteIntegration(r)
                 \/ LinkFails(r) \/ Rollback(r)
          PROVE  CardsOnce'
      <3>1. UNCHANGED <<accounts, slipped>>
        BY <2>6 DEF Rotate, SetWebhook, Deregister, DeleteIntegration, LinkFails, Rollback, tables
      <3>2. /\ Rotate(r) => req[r].mode = "rotate"
            /\ Deregister(r) \/ DeleteIntegration(r) => req[r].mode = "unlink"
            /\ SetWebhook(r) => req[r].pc = "webhook"
        BY DEF Rotate, Deregister, DeleteIntegration, SetWebhook, Shape, Controlled, Control, TypeOK, Request
      <3>3. Ended(r) \/ \E pc : /\ OthersStay(r) /\ Moved(r, pc)
                                /\ req[r].pc = "webhook" \/ req[r].mode \in {"rotate", "unlink"}
        BY <2>6, <3>2, PlainEffect
      <3> QED
        BY <2>1, <2>2, <3>1, <3>3
    <2>7. ASSUME CommitRotation(r) \/ CommitUnlink(r) PROVE CardsOnce'
      <3>1. Ended(r)
        BY <2>7, PlainEffect
      <3>2. \A p \in Requests : StillAddsOnce(p)
        BY <3>1 DEF Ended, OthersStay, Idle, StillAddsOnce
      <3>3. /\ DOMAIN accounts' = DOMAIN accounts
            /\ \A a \in DOMAIN accounts : accounts'[a].card = accounts[a].card
            /\ UNCHANGED slipped
        <4>1. CASE CommitRotation(r)
          BY <4>1 DEF CommitRotation
        <4>2. CASE CommitUnlink(r)
          <5>1. accounts' = [a \in DOMAIN accounts |->
                                IF accounts[a].integration = req[r].integ
                                THEN [accounts[a] EXCEPT !.integration = None] ELSE accounts[a]]
            BY <4>2 DEF CommitUnlink
          <5>2. \A a \in DOMAIN accounts :
                   accounts[a] \in [card : Cards, client : Clients, integration : Ids \cup {None}]
            <6>1. accounts \in Seq([card : Cards, client : Clients, integration : Ids \cup {None}])
              BY DEF Shape, TypeOK
            <6> QED
              BY <6>1, LenProperties, ElementOfSeq
          <5> QED
            BY <4>2, <5>1, <5>2 DEF CommitUnlink
        <4> QED
          BY <2>7, <4>1, <4>2
      <3> QED
        BY <3>2, <3>3, CardsKept
    <2> QED
      BY <1>3, <2>3, <2>4, <2>5, <2>6, <2>7, CardsWritten, CardsCommitted DEF LinkStep, Owned
  <1>4. ASSUME \/ StartReregistration \/ UpdateConfig \/ PushConfig \/ JobDies
               \/ \E c \in Clients : NewToken(c)
               \/ \E a \in DOMAIN accounts : TriggerBackfill(a)
               \/ \E j \in DOMAIN jobs : PodStep(j) \/ PodDies(j) \/ Deadline(j)
               \/ UNCHANGED vars
        PROVE  CardsOnce'
    <2>1. UNCHANGED req /\ UNCHANGED <<accounts, slipped>>
      BY <1>4, OthersEffect
    <2>2. \A p \in Requests : StillAddsOnce(p)
      BY <2>1 DEF StillAddsOnce
    <2> QED
      BY <2>1, <2>2, CardsKept
  <1> QED
    BY <1>1, <1>2, <1>3, <1>4 DEF Next, LinkNext

\* However links race, break, are undone and repeated, a card has one account row, unless
\* an integration ceases to be active between the two SELECTs of a link.
THEOREM OneAccountForEachCard == Spec => []OneAccountPerCard
  <1> DEFINE Inv == Shape /\ Owned /\ OneOwner /\ CardsOnce
  <1>1. MonobankInit => Inv
    <2>1. MonobankInit => OneOwner /\ CardsOnce
      BY DEF MonobankInit, Init, OneOwner, CardsOnce, LinksAddOnce, Idle, Ids
    <2> QED
      BY <2>1, InitShape, InitOwned
  <1>2. Inv /\ [Next]_vars => Inv'
    BY NextShape, NextOwned, NextOwner, NextCards
  <1>3. Inv => OneAccountPerCard
    BY DEF CardsOnce, OneAccountPerCard
  <1> QED
    BY <1>1, <1>2, <1>3, PTL DEF Spec

-----------------------------------------------------------------------------
(* The accounts of an integration.                                         *)

\* Each card of the customer is found among the orphans or will get a row.
Covers(r) ==
    \A c \in req[r].client : \A card \in CardsOf[c] :
        \/ card \in req[r].added
        \/ \E a \in req[r].rebound : a \in DOMAIN accounts /\ accounts[a].card = card

\* An integration, also one that is in error, has an account for every card.
CardsBound ==
    /\ \A i \in Ids : \A card \in CardsOf[integrations[i].client] : AccountsOf(card, i) # {}
    /\ \A r \in Requests : req[r].own /\ req[r].pc \in {"webhook", "commit"} => Covers(r)

\* What a link has found remains what it has found.
StillCovers(r) ==
    req'[r].own /\ req'[r].pc \in {"webhook", "commit"}
    => req[r].own /\ req[r].pc \in {"webhook", "commit"} /\ SameAdded(r)

\* Accounts keep their cards, and those of an integration that remains stay with it.
LEMMA BoundKept ==
    ASSUME CardsBound, DOMAIN accounts' = DOMAIN accounts,
           \A a \in DOMAIN accounts : accounts'[a].card = accounts[a].card,
           \A i \in Ids' : /\ i \in Ids /\ integrations'[i].client = integrations[i].client
                           /\ \A a \in DOMAIN accounts : accounts[a].integration = i
                                                         => accounts'[a].integration = i,
           \A r \in Requests : StillCovers(r)
    PROVE  CardsBound'
  <1>1. ASSUME NEW i \in Ids', NEW card \in CardsOf[integrations'[i].client]
        PROVE  AccountsOf(card, i)' # {}
    <2>1. PICK a \in DOMAIN accounts : accounts[a].card = card /\ accounts[a].integration = i
      BY <1>1 DEF CardsBound, AccountsOf
    <2>2. a \in AccountsOf(card, i)'
      BY <1>1, <2>1 DEF AccountsOf
    <2> QED
      BY <2>2
  <1>2. ASSUME NEW r \in Requests, req'[r].own, req'[r].pc \in {"webhook", "commit"}
        PROVE  Covers(r)'
    <2>1. SameAdded(r) /\ Covers(r)
      BY <1>2 DEF StillCovers, CardsBound
    <2> QED
      BY <2>1 DEF SameAdded, Covers
  <1> QED
    BY <1>1, <1>2 DEF CardsBound

\* One request moves.
LEMMA BoundMoves ==
    ASSUME CardsBound, NEW r \in Requests, OthersStay(r), StillCovers(r),
           UNCHANGED accounts, UNCHANGED integrations
    PROVE  CardsBound'
  <1>1. \A p \in Requests : StillCovers(p)
    BY DEF StillCovers, OthersStay, SameAdded
  <1> QED
    BY <1>1, BoundKept DEF Ids

\* A link has looked for the orphans of its customer.
LEMMA BoundWritten ==
    ASSUME Shape, CardsBound, NEW r \in Requests, WriteAccounts(r) PROVE CardsBound'
  <1>1. PICK c \in Clients : req[r].client = {c}
    <2>1. req[r].mode # "none"
      BY DEF WriteAccounts, Shape, Controlled, Control
    <2> QED
      BY <2>1, OneCustomer
  <1>2. UNCHANGED accounts /\ UNCHANGED integrations
    BY DEF WriteAccounts, tables
  <1>3. CASE Ended(r)
    <2>1. OthersStay(r) /\ StillCovers(r)
      BY <1>3 DEF Ended, Idle, StillCovers
    <2> QED
      BY <1>2, <2>1, BoundMoves
  <1>4. CASE /\ OthersStay(r) /\ req'[r].client = req[r].client
             /\ req'[r].added = CardsOf[c] \ {accounts[a].card : a \in Orphans(c)}
             /\ req'[r].rebound = Orphans(c)
    <2>1. Covers(r)'
      <3> SUFFICES ASSUME NEW card \in CardsOf[c], card \notin req'[r].added
                   PROVE  \E a \in req'[r].rebound : a \in DOMAIN accounts /\ accounts[a].card = card
        BY <1>1, <1>2, <1>4 DEF Covers
      <3> QED
        BY <1>4 DEF Orphans
    <2>2. \A p \in Requests \ {r} : req'[p] = req[p] /\ (Covers(p) => Covers(p)')
      BY <1>2, <1>4 DEF OthersStay, Covers
    <2>3. \A i \in Ids : \A card \in CardsOf[integrations[i].client] : AccountsOf(card, i)' # {}
      BY <1>2 DEF CardsBound, AccountsOf
    <2> QED
      BY <1>2, <2>1, <2>2, <2>3 DEF CardsBound, Ids
  <1> QED
    BY <1>1, <1>3, <1>4, WriteAccountsEffect

\* The commit of a link binds every card to its own integration, and takes no account
\* from another.
LEMMA BoundCommitted ==
    ASSUME Shape, Owned, OneOwner, CardsBound, NEW r \in Requests, CommitLink(r)
    PROVE  CardsBound'
  <1> DEFINE i == req[r].integ
  <1>1. PICK c \in Clients : req[r].client = {c}
    <2>1. req[r].mode # "none"
      BY DEF CommitLink
    <2> QED
      BY <2>1, OneCustomer
  <1>2. req[r].mode = "new" /\ req[r].pc = "commit" /\ req[r].integ # None
    BY DEF CommitLink
  <1>3. /\ \A a \in DOMAIN accounts :
              /\ accounts'[a].card = accounts[a].card
              /\ accounts'[a].integration = IF a \in req[r].rebound THEN i ELSE accounts[a].integration
        /\ \A a \in DOMAIN accounts' \ DOMAIN accounts : accounts'[a].integration = i
        /\ \A card \in req[r].added :
              \E a \in DOMAIN accounts' \ DOMAIN accounts : accounts'[a].card = card
        /\ DOMAIN accounts \subseteq DOMAIN accounts'
    <2>1. \A a \in DOMAIN accounts :
             accounts'[a] = IF a \in req[r].rebound
                            THEN [accounts[a] EXCEPT !.integration = req[r].integ] ELSE accounts[a]
      BY <1>1, AccountsCommitted
    <2>2. \A a \in DOMAIN accounts :
             accounts[a] \in [card : Cards, client : Clients, integration : Ids \cup {None}]
      <3>1. accounts \in Seq([card : Cards, client : Clients, integration : Ids \cup {None}])
        BY DEF Shape, TypeOK
      <3> QED
        BY <3>1, LenProperties, ElementOfSeq
    <2>3. \A a \in DOMAIN accounts :
             /\ accounts'[a].card = accounts[a].card
             /\ accounts'[a].integration = IF a \in req[r].rebound THEN i ELSE accounts[a].integration
      BY <2>1, <2>2
    <2> QED
      BY <1>1, <2>3, AccountsCommitted
  <1>4. /\ \A j \in Ids' : j \in Ids \/ (j = i /\ req[r].own)
        /\ \A j \in Ids' : j \in Ids /\ ~(j = i /\ req[r].own)
                           => integrations'[j].client = integrations[j].client
        /\ req[r].own => integrations'[i].client = c
    <2>1. CASE ~req[r].own
      BY <2>1 DEF CommitLink, Ids
    <2>2. CASE req[r].own
      <3> DEFINE new == [client |-> c, token |-> req[r].token, secret |-> req[r].secret,
                         status |-> "active"]
      <3>1. (CHOOSE d \in Clients : d \in req[r].client) = c
        BY <1>1
      <3>2. integrations' = Put(integrations, i, new) /\ new.client = c
        BY <2>2, <3>1 DEF CommitLink
      <3> HIDE DEF new
      <3> QED
        BY <2>2, <3>2 DEF Put, Ids
    <2> QED
      BY <2>1, <2>2
  <1>5. \A a \in req[r].rebound : a \in DOMAIN accounts /\ accounts[a].client = c
    <2>1. req[r] \in Request(fresh, DOMAIN accounts)
      BY ScalarsTyped
    <2> QED
      BY <1>1, <2>1 DEF Owned, AccountsOwned, Request
  <1>6. i \in Ids => integrations[i].client = c
    <2>1. IdClaim(i, c)
      BY <1>1 DEF IdClaim
    <2>2. i \in Ids => i \in 1..fresh /\ integrations[i].client \in Clients /\ IdClaim(i, integrations[i].client)
      BY RowsTyped DEF IdClaim
    <2> QED
      BY <2>1, <2>2 DEF Owned, IdsOwned
  <1>7. req[r].own => \A j \in Ids : integrations[j].client # c
    BY <1>1 DEF OneOwner
  <1>8. ~req[r].own => i \in Ids
    BY <1>2 DEF Shape, RowsHeld
  <1> HIDE DEF i
  <1>9. ASSUME NEW j \in Ids', NEW card \in CardsOf[integrations'[j].client]
        PROVE  AccountsOf(card, j)' # {}
    <2>1. CASE j = i /\ req[r].own
      <3>1. card \in CardsOf[c]
        BY <1>4, <1>9, <2>1
      <3>2. Covers(r)
        BY <1>2, <2>1 DEF CardsBound
      <3>3. card \in req[r].added \/ \E a \in req[r].rebound : a \in DOMAIN accounts /\ accounts[a].card = card
        BY <1>1, <3>1, <3>2 DEF Covers
      <3>4. \E a \in DOMAIN accounts' : accounts'[a].card = card /\ accounts'[a].integration = i
        BY <1>3, <3>3
      <3> QED
        BY <2>1, <3>4 DEF AccountsOf
    <2>2. CASE ~(j = i /\ req[r].own)
      <3>1. j \in Ids /\ integrations'[j].client = integrations[j].client
        BY <1>4, <2>2
      <3>2. PICK a \in DOMAIN accounts : accounts[a].card = card /\ accounts[a].integration = j
        BY <1>9, <3>1 DEF CardsBound, AccountsOf
      <3>3. j # None
        BY <3>1, RowsTyped DEF None
      <3>4. accounts[a].client = integrations[j].client
        BY <3>2, <3>3 DEF Owned, AccountsOwned
      <3>5. accounts'[a].integration = j
        <4>1. CASE a \in req[r].rebound
          <5>1. integrations[j].client = c
            BY <1>5, <3>4, <4>1
          <5>2. i \in Ids /\ integrations[i].client = c
            BY <1>6, <1>7, <1>8, <3>1, <5>1
          <5>3. j = i
            BY <3>1, <5>1, <5>2 DEF OneOwner
          <5> QED
            BY <1>3, <4>1, <5>3
        <4>2. CASE a \notin req[r].rebound
          BY <1>3, <3>2, <4>2
        <4> QED
          BY <4>1, <4>2
      <3>6. a \in AccountsOf(card, j)'
        BY <1>3, <3>2, <3>5 DEF AccountsOf
      <3> QED
        BY <3>6
    <2> QED
      BY <2>1, <2>2
  <1>10. Ended(r)
    BY PlainEffect
  <1>11. ASSUME NEW p \in Requests, req'[p].own, req'[p].pc \in {"webhook", "commit"}
         PROVE  Covers(p)'
    <2>1. p # r /\ req'[p] = req[p]
      BY <1>10, <1>11 DEF Ended, OthersStay, Idle
    <2>2. Covers(p)
      BY <1>11, <2>1 DEF CardsBound
    <2> QED
      BY <1>3, <2>1, <2>2 DEF Covers
  <1> QED
    BY <1>9, <1>11 DEF CardsBound

\* One case per action of Next.
LEMMA NextBound == Shape /\ Owned /\ OneOwner /\ CardsBound /\ [Next]_vars => CardsBound'
  <1> SUFFICES ASSUME Shape, Owned, OneOwner, CardsBound, [Next]_vars PROVE CardsBound'
    OBVIOUS
  <1>0. \A r \in Requests : req[r].mode # "none" => \E c \in Clients : req[r].client = {c}
    BY OneCustomer
  <1>1. ASSUME NEW r \in Requests, NEW c \in Clients, Link(r, c) PROVE CardsBound'
    <2>1. OthersStay(r) /\ StillCovers(r)
      BY <1>1, LinkEffect DEF Became, StillCovers
    <2> QED
      BY <1>1, <2>1, BoundMoves DEF Link, tables
  <1>2. ASSUME NEW r \in Requests, NEW i \in Ids, Unlink(r, i) PROVE CardsBound'
    <2>1. OthersStay(r) /\ StillCovers(r)
      BY <1>2, UnlinkEffect DEF Became, StillCovers
    <2> QED
      BY <1>2, <2>1, BoundMoves DEF Unlink, tables
  <1>3. ASSUME NEW r \in Requests, LinkStep(r) \/ Rollback(r) PROVE CardsBound'
    <2>1. ASSUME Ended(r), UNCHANGED accounts, UNCHANGED integrations PROVE CardsBound'
      <3>1. OthersStay(r) /\ StillCovers(r)
        BY <2>1 DEF Ended, Idle, StillCovers
      <3> QED
        BY <2>1, <3>1, BoundMoves
    <2>2. ASSUME NEW pc, OthersStay(r), Moved(r, pc), UNCHANGED accounts, UNCHANGED integrations,
                 \/ pc \in {"insert", "delete"}
                 \/ req[r].pc = "webhook"
                 \/ req[r].mode \in {"rotate", "unlink"}
          PROVE  CardsBound'
      <3>1. StillCovers(r)
        <4>1. req[r].own => req[r].mode = "new"
          BY DEF Shape, Controlled, Control
        <4> QED
          BY <2>2, <4>1 DEF Moved, Became, SameAdded, StillCovers
      <3> QED
        BY <2>2, <3>1, BoundMoves
    <2>3. ASSUME CheckConflict(r) PROVE CardsBound'
      BY <2>1, <2>2, <2>3, CheckConflictEffect DEF CheckConflict, tables
    <2>4. ASSUME InsertIntegration(r) PROVE CardsBound'
      <3>1. PICK c \in Clients : req[r].client = {c}
        BY <1>0, <2>4 DEF InsertIntegration, Shape, Controlled, Control
      <3>2. OthersStay(r) /\ StillCovers(r)
        BY <2>4, <3>1, InsertEffect DEF Became, StillCovers
      <3> QED
        BY <2>4, <3>2, BoundMoves DEF InsertIntegration
    <2>5. ASSUME Reselect(r) PROVE CardsBound'
      <3>1. PICK c \in Clients : req[r].client = {c}
        BY <1>0, <2>5 DEF Reselect, Shape, Controlled, Control
      <3>2. OthersStay(r) /\ StillCovers(r)
        BY <2>5, <3>1, ReselectEffect DEF Moved, Became, StillCovers
      <3> QED
        BY <2>5, <3>2, BoundMoves DEF Reselect
    <2>6. ASSUME Rotate(r) \/ SetWebhook(r) \/ Deregister(r) \/ DeleteIntegration(r)
                 \/ LinkFails(r) \/ Rollback(r)
          PROVE  CardsBound'
      <3>1. UNCHANGED accounts /\ UNCHANGED integrations
        BY <2>6 DEF Rotate, SetWebhook, Deregister, DeleteIntegration, LinkFails, Rollback, tables
      <3>2. /\ Rotate(r) => req[r].mode = "rotate"
            /\ Deregister(r) \/ DeleteIntegration(r) => req[r].mode = "unlink"
            /\ SetWebhook(r) => req[r].pc = "webhook"
        BY DEF Rotate, Deregister, DeleteIntegration, SetWebhook, Shape, Controlled, Control, TypeOK, Request
      <3>3. Ended(r) \/ \E pc : /\ OthersStay(r) /\ Moved(r, pc)
                                /\ req[r].pc = "webhook" \/ req[r].mode \in {"rotate", "unlink"}
        BY <2>6, <3>2, PlainEffect
      <3> QED
        BY <2>1, <2>2, <3>1, <3>3
    <2>7. ASSUME CommitRotation(r) \/ CommitUnlink(r) PROVE CardsBound'
      <3>1. Ended(r)
        BY <2>7, PlainEffect
      <3>2. \A p \in Requests : StillCovers(p)
        BY <3>1 DEF Ended, OthersStay, Idle, StillCovers, SameAdded
      <3>3. CASE CommitRotation(r)
        <4>1. UNCHANGED accounts /\ integrations' = WithToken(req[r].integ, req[r].token)
          BY <3>3 DEF CommitRotation
        <4>2. integrations \in [Ids -> Row(fresh)]
          BY OthersKeep
        <4>3. Ids' = Ids /\ \A i \in Ids : integrations'[i].client = integrations[i].client
          BY <4>1, <4>2 DEF WithToken, Ids, Row
        <4> QED
          BY <3>2, <4>1, <4>3, BoundKept
      <3>4. CASE CommitUnlink(r)
        <4> DEFINE i == req[r].integ
        <4>1. /\ integrations' = [j \in Ids \ {i} |-> integrations[j]]
              /\ accounts' = [a \in DOMAIN accounts |->
                                IF accounts[a].integration = i
                                THEN [accounts[a] EXCEPT !.integration = None] ELSE accounts[a]]
          BY <3>4 DEF CommitUnlink
        <4>2. \A a \in DOMAIN accounts :
                 accounts[a] \in [card : Cards, client : Clients, integration : Ids \cup {None}]
          <5>1. accounts \in Seq([card : Cards, client : Clients, integration : Ids \cup {None}])
            BY DEF Shape, TypeOK
          <5> QED
            BY <5>1, LenProperties, ElementOfSeq
        <4>3. /\ DOMAIN accounts' = DOMAIN accounts
              /\ \A a \in DOMAIN accounts :
                    /\ accounts'[a].card = accounts[a].card
                    /\ accounts[a].integration # i => accounts'[a] = accounts[a]
          BY <4>1, <4>2
        <4>4. \A j \in Ids' : j \in Ids /\ j # i /\ integrations'[j] = integrations[j]
          BY <4>1 DEF Ids
        <4> HIDE DEF i
        <4> QED
          BY <3>2, <4>3, <4>4, BoundKept
      <3> QED
        BY <2>7, <3>3, <3>4
    <2> QED
      BY <1>3, <2>3, <2>4, <2>5, <2>6, <2>7, BoundWritten, BoundCommitted DEF LinkStep
  <1>4. ASSUME \/ StartReregistration \/ UpdateConfig \/ PushConfig \/ JobDies
               \/ \E c \in Clients : NewToken(c)
               \/ \E a \in DOMAIN accounts : TriggerBackfill(a)
               \/ \E j \in DOMAIN jobs : PodStep(j) \/ PodDies(j) \/ Deadline(j)
               \/ UNCHANGED vars
        PROVE  CardsBound'
    <2>1. /\ UNCHANGED req /\ UNCHANGED <<accounts, slipped>> /\ Ids' = Ids
          /\ \A i \in Ids : integrations'[i].client = integrations[i].client
      BY <1>4, OthersEffect
    <2>2. \A p \in Requests : StillCovers(p)
      BY <2>1 DEF StillCovers, SameAdded
    <2> QED
      BY <2>1, <2>2, BoundKept
  <1> QED
    BY <1>1, <1>2, <1>3, <1>4 DEF Next, LinkNext

-----------------------------------------------------------------------------
(* Requests that come one at a time.                                       *)

\* The bank holds the secret that the row does, or nothing.
Matches(i) == bank[integrations[i].client].hook \in {None, integrations[i].secret}

\* The job has yet to tell the bank.
Unsettled(i) == \E config \in job.row : config.client = integrations[i].client

Alone ==
    \A r \in Requests : req[r].pc # "idle" =>
        job = NoJob /\ \A p \in Requests \ {r} : req[p].pc = "idle"

\* A fresh link has found nothing active; a rotation or an unlink has the row it found.
RequestInOrder(r) ==
    /\ req[r].mode = "new" /\ req[r].pc # "conflict" => ActiveIds = {}
    /\ req[r].own /\ req[r].pc = "commit" => \A c \in req[r].client : bank[c].hook = req[r].secret
    /\ req[r].mode = "rotate" =>
          /\ req[r].integ \in Ids /\ req[r].client = {integrations[req[r].integ].client}
          /\ req[r].secret = integrations[req[r].integ].secret
    /\ req[r].mode = "unlink" =>
          req[r].integ \in Ids /\ req[r].client = {integrations[req[r].integ].client}

JobInOrder ==
    /\ \A x \in job.left : x[1] \in Ids
    /\ \A config, other \in job.row : config = other
    /\ \A config \in job.row : \A i \in Ids :
          integrations[i].client = config.client => integrations[i].secret = config.secret

RowsInOrder == \A i \in ActiveIds : Matches(i) \/ Unsettled(i)

InOrder ==
    /\ Alone
    /\ \A r \in Requests : RequestInOrder(r)
    /\ JobInOrder
    /\ RowsInOrder

WebhookInv == orderly => InOrder

\* No request and no job: every active row matches.
LEMMA QuietMatches ==
    ASSUME Shape, RowsInOrder, Quiet PROVE \A i \in ActiveIds : Matches(i)
  <1>1. job.row = {}
    BY DEF Quiet, NoJob
  <1> QED
    BY <1>1 DEF RowsInOrder, Unsettled

\* Of a request that is idle there is nothing to say.
LEMMA IdleInOrder ==
    ASSUME Shape, NEW p \in Requests, req[p].pc = "idle", req'[p] = req[p]
    PROVE  RequestInOrder(p)'
  <1>1. req[p].mode = "none" /\ ~req[p].own
    BY DEF Shape, Controlled, Control
  <1> QED
    BY <1>1 DEF RequestInOrder

\* Request r is the only actor, before and after the step.
LEMMA OnlyActor ==
    ASSUME Shape, NEW r \in Requests, OthersStay(r), UNCHANGED job,
           job = NoJob, \A p \in Requests \ {r} : req[p].pc = "idle",
           RequestInOrder(r)', RowsInOrder'
    PROVE  InOrder'
  <1>1. Alone'
    BY DEF Alone, OthersStay
  <1>2. \A p \in Requests : RequestInOrder(p)'
    BY IdleInOrder DEF OthersStay
  <1>3. JobInOrder'
    BY DEF JobInOrder, NoJob
  <1> QED
    BY <1>1, <1>2, <1>3 DEF InOrder

\* The active rows match, and remain as they are.
LEMMA RowsStayMatched ==
    ASSUME \A i \in ActiveIds : Matches(i),
           \A i \in ActiveIds' : /\ i \in ActiveIds
                                 /\ integrations'[i].client = integrations[i].client
                                 /\ integrations'[i].secret = integrations[i].secret
                                 /\ bank'[integrations[i].client].hook
                                       = bank[integrations[i].client].hook
    PROVE  RowsInOrder'
  BY DEF RowsInOrder, Matches

\* A link or an unlink begins.
LEMMA StartInOrder ==
    ASSUME Shape, InOrder, Quiet, NEW r \in Requests,
           \/ \E c \in Clients : Link(r, c)
           \/ \E i \in Ids : Unlink(r, i)
    PROVE  InOrder'
  <1>1. job = NoJob /\ \A p \in Requests : req[p].pc = "idle"
    BY DEF Quiet
  <1>2. UNCHANGED <<integrations, job>> /\ UNCHANGED bank
    BY DEF Link, Unlink, tables
  <1>3. RowsInOrder'
    <2>1. \A i \in ActiveIds : Matches(i)
      BY QuietMatches DEF InOrder
    <2> QED
      BY <1>2, <2>1, RowsStayMatched DEF ActiveIds, Ids
  <1>4. ASSUME NEW c \in Clients, Link(r, c) PROVE OthersStay(r) /\ RequestInOrder(r)'
    <2>1. CASE Became(r, "conflict", "new", None, None, FALSE)
      BY <1>4, <2>1, LinkEffect DEF Became, RequestInOrder
    <2>2. ASSUME NEW i \in RowsOf(c) \cap ActiveIds,
                 Became(r, "rotate", "rotate", i, integrations[i].secret, FALSE)
          PROVE  RequestInOrder(r)'
      <3>1. i \in Ids /\ integrations[i].client = c
        BY DEF RowsOf
      <3>2. req'[r].client = {c}
        BY <1>4, LinkEffect
      <3> QED
        BY <1>2, <2>2, <3>1, <3>2 DEF Became, RequestInOrder, Ids
    <2> QED
      BY <1>4, <2>1, <2>2, LinkEffect
  <1>5. ASSUME NEW i \in Ids, Unlink(r, i) PROVE OthersStay(r) /\ RequestInOrder(r)'
    BY <1>2, <1>5, UnlinkEffect DEF Became, RequestInOrder, Ids
  <1> QED
    BY <1>1, <1>2, <1>3, <1>4, <1>5, OnlyActor

\* What an action of request r is taken from.
LEMMA ActorAlone ==
    ASSUME Shape, InOrder, NEW r \in Requests, req[r].pc # "idle"
    PROVE  /\ job = NoJob /\ job.row = {}
           /\ \A p \in Requests \ {r} : req[p].pc = "idle" /\ req[p].mode = "none"
           /\ RequestInOrder(r)
           /\ \E c \in Clients : req[r].client = {c}
           /\ \A i \in ActiveIds : Matches(i)
  <1>1. job = NoJob /\ \A p \in Requests \ {r} : req[p].pc = "idle"
    BY DEF InOrder, Alone
  <1>2. job.row = {}
    BY <1>1 DEF NoJob
  <1>3. \A p \in Requests \ {r} : req[p].mode = "none"
    BY <1>1 DEF Shape, Controlled, Control
  <1>4. RequestInOrder(r) /\ RowsInOrder
    BY DEF InOrder
  <1>5. \E c \in Clients : req[r].client = {c}
    <2>1. req[r].mode # "none"
      BY DEF Shape, Controlled, Control
    <2> QED
      BY <2>1, OneCustomer
  <1>6. \A i \in ActiveIds : Matches(i)
    BY <1>2, <1>4 DEF RowsInOrder, Unsettled
  <1> QED
    BY <1>1, <1>2, <1>3, <1>4, <1>5, <1>6

\* The steps of a request that touch neither the rows nor the bank.
LEMMA StatementInOrder ==
    ASSUME Shape, InOrder, NEW r \in Requests,
           \/ CheckConflict(r) \/ InsertIntegration(r) \/ Reselect(r) \/ WriteAccounts(r)
           \/ Rotate(r) \/ LinkFails(r) \/ DeleteIntegration(r) \/ Rollback(r)
    PROVE  InOrder'
  <1>1. UNCHANGED <<integrations, job>> /\ UNCHANGED bank
    BY DEF CheckConflict, InsertIntegration, Reselect, WriteAccounts, Rotate, LinkFails,
           DeleteIntegration, Rollback, tables
  <1>2. /\ req[r].pc # "idle"
        /\ WriteAccounts(r) \/ InsertIntegration(r) \/ Reselect(r)
              => req[r].mode = "new" /\ req[r].pc # "conflict"
        /\ CheckConflict(r) => req[r].mode = "new"
        /\ InsertIntegration(r) \/ Reselect(r) => req[r].pc # "commit"
        /\ Rotate(r) => req[r].mode = "rotate" /\ req[r].pc = "rotate"
        /\ DeleteIntegration(r) => req[r].mode = "unlink" /\ req[r].pc = "delete"
    BY DEF CheckConflict, InsertIntegration, Reselect, WriteAccounts, Rotate, LinkFails,
           DeleteIntegration, Rollback, Shape, Controlled, Control, TypeOK, Request
  <1>3. PICK c \in Clients : req[r].client = {c}
    BY <1>2, ActorAlone
  <1>4. /\ job = NoJob /\ RequestInOrder(r)
        /\ \A p \in Requests \ {r} : req[p].pc = "idle"
        /\ \A i \in ActiveIds : Matches(i)
    BY <1>2, ActorAlone
  <1>5. ActiveIds' = ActiveIds /\ Ids' = Ids
    BY <1>1 DEF ActiveIds, Ids
  <1>6. RowsInOrder'
    BY <1>1, <1>4, <1>5, RowsStayMatched
  <1>7. ASSUME Ended(r) PROVE InOrder'
    <2>1. OthersStay(r) /\ RequestInOrder(r)'
      BY <1>7 DEF Ended, Idle, RequestInOrder
    <2> QED
      BY <1>1, <1>4, <1>6, <1>7, <2>1, OnlyActor
  <1>8. ASSUME OthersStay(r), req'[r].mode = "new", ActiveIds = {}, req'[r].pc # "commit"
        PROVE  InOrder'
    <2>1. RequestInOrder(r)'
      BY <1>5, <1>8 DEF RequestInOrder
    <2> QED
      BY <1>1, <1>4, <1>6, <1>8, <2>1, OnlyActor
  <1>9. req[r].mode = "new" /\ req[r].pc # "conflict" => ActiveIds = {}
    BY <1>4 DEF RequestInOrder
  <1>10. ASSUME CheckConflict(r) PROVE InOrder'
    <2>1. Ended(r) \/ (ActiveIds = {} /\ OthersStay(r) /\ Moved(r, "insert"))
      BY <1>10, CheckConflictEffect
    <2> QED
      BY <1>2, <1>7, <1>8, <1>10, <2>1 DEF Moved, Became
  <1>11. ASSUME InsertIntegration(r) PROVE InOrder'
    <2>1. OthersStay(r) /\ req'[r].mode = "new" /\ req'[r].pc # "commit"
      BY <1>2, <1>3, <1>11, InsertEffect DEF Became
    <2> QED
      BY <1>2, <1>8, <1>9, <1>11, <2>1
  <1>12. ASSUME Reselect(r) PROVE InOrder'
    <2>1. ActiveIds = {}
      BY <1>2, <1>9, <1>12
    <2>2. OthersStay(r) /\ req'[r].mode = "new" /\ req'[r].pc # "commit"
      BY <1>2, <1>3, <1>12, <2>1, ReselectEffect DEF Moved, Became
    <2> QED
      BY <1>8, <2>1, <2>2
  <1>13. ASSUME WriteAccounts(r) PROVE InOrder'
    <2>1. \/ Ended(r)
          \/ OthersStay(r) /\ req'[r].mode = "new" /\ req'[r].pc # "commit"
      BY <1>2, <1>3, <1>13, WriteAccountsEffect DEF Became
    <2> QED
      BY <1>2, <1>7, <1>8, <1>9, <1>13, <2>1
  <1>14. ASSUME Rotate(r) PROVE InOrder'
    <2>1. OthersStay(r) /\ Moved(r, "webhook")
      BY <1>14, PlainEffect
    <2>2. RequestInOrder(r)'
      BY <1>1, <1>2, <1>4, <1>5, <1>14, <2>1 DEF RequestInOrder, Moved, Became, SameAdded
    <2> QED
      BY <1>1, <1>4, <1>6, <2>1, <2>2, OnlyActor
  <1>15. ASSUME LinkFails(r) \/ Rollback(r) PROVE InOrder'
    BY <1>7, <1>15, PlainEffect
  <1>16. ASSUME DeleteIntegration(r) PROVE InOrder'
    <2>1. CASE OthersStay(r) /\ Moved(r, "commit")
      <3>1. ~req[r].own
        BY <1>2, <1>16 DEF Shape, Controlled, Control
      <3>2. RequestInOrder(r)'
        BY <1>1, <1>2, <1>4, <1>5, <1>16, <2>1, <3>1 DEF RequestInOrder, Moved, Became, SameAdded
      <3> QED
        BY <1>1, <1>4, <1>6, <2>1, <3>2, OnlyActor
    <2>2. CASE Ended(r)
      BY <1>7, <2>2
    <2> QED
      BY <1>16, <2>1, <2>2, PlainEffect
  <1> QED
    BY <1>10, <1>11, <1>12, <1>13, <1>14, <1>15, <1>16

\* The bank has taken the URL.
LEMMA HookTaken ==
    ASSUME Shape, orderly', NEW c \in Clients, NEW token, NEW hook, Register(c, token, hook)
    PROVE  /\ bank'[c].hook = hook
           /\ \A d \in Clients : d # c => bank'[d].hook = bank[d].hook
  <1>1. bank' = [bank EXCEPT ![c].hook = hook]
    BY DEF Register
  <1>2. bank \in [Clients -> [token : Nat, hook : 0..fresh]]
    BY ScalarsTyped
  <1> QED
    BY <1>1, <1>2

\* The calls of a request to the bank.
LEMMA CallInOrder ==
    ASSUME Shape, OneOwner, InOrder, orderly', NEW r \in Requests, SetWebhook(r) \/ Deregister(r)
    PROVE  InOrder'
  <1>1. UNCHANGED <<integrations, job>>
    BY DEF SetWebhook, Deregister, tables
  <1>2. /\ req[r].pc # "idle"
        /\ SetWebhook(r) => req[r].pc = "webhook" /\ req[r].mode \in {"new", "rotate"}
        /\ Deregister(r) => req[r].mode = "unlink" /\ req[r].pc = "deregister"
    BY DEF SetWebhook, Deregister, Shape, Controlled, Control, TypeOK, Request
  <1>3. PICK c \in Clients : req[r].client = {c}
    BY <1>2, ActorAlone
  <1>4. /\ job = NoJob /\ RequestInOrder(r)
        /\ \A p \in Requests \ {r} : req[p].pc = "idle"
        /\ \A i \in ActiveIds : Matches(i)
    BY <1>2, ActorAlone
  <1>5. ActiveIds' = ActiveIds /\ Ids' = Ids /\ ActiveIds \subseteq Ids
    BY <1>1 DEF ActiveIds, Ids
  <1>6. \A i \in Ids : integrations[i].client \in Clients
    BY RowsTyped
  <1>7. ASSUME SetWebhook(r) PROVE InOrder'
    <2>1. Register(c, req[r].token, req[r].secret)
      BY <1>3, <1>7 DEF SetWebhook
    <2>2. /\ bank'[c].hook = req[r].secret
          /\ \A d \in Clients : d # c => bank'[d].hook = bank[d].hook
      BY <2>1, HookTaken
    <2>3. OthersStay(r) /\ Moved(r, "commit")
      BY <1>7, PlainEffect
    <2>4. CASE req[r].mode = "new"
      <3>1. ActiveIds = {}
        BY <1>2, <1>4, <1>7, <2>4 DEF RequestInOrder
      <3>2. RequestInOrder(r)'
        BY <1>3, <1>5, <2>2, <2>3, <2>4, <3>1 DEF RequestInOrder, Moved, Became, SameAdded
      <3>3. RowsInOrder'
        BY <1>5, <3>1 DEF RowsInOrder
      <3> QED
        BY <1>1, <1>4, <2>3, <3>2, <3>3, OnlyActor
    <2>5. CASE req[r].mode = "rotate"
      <3>1. /\ req[r].integ \in Ids /\ integrations[req[r].integ].client = c
            /\ req[r].secret = integrations[req[r].integ].secret
        BY <1>3, <1>4, <2>5 DEF RequestInOrder
      <3>2. ~req[r].own
        BY <2>5 DEF Shape, Controlled, Control
      <3>3. RequestInOrder(r)'
        BY <1>1, <1>4, <1>5, <2>3, <2>5, <3>2 DEF RequestInOrder, Moved, Became, SameAdded
      <3>4. ASSUME NEW i \in ActiveIds PROVE Matches(i)'
        <4>1. CASE integrations[i].client = c
          <5>1. i = req[r].integ
            BY <1>5, <3>1, <4>1 DEF OneOwner
          <5> QED
            BY <1>1, <2>2, <3>1, <4>1, <5>1 DEF Matches
        <4>2. CASE integrations[i].client # c
          <5>1. Matches(i)
            BY <1>4
          <5> QED
            BY <1>1, <1>5, <1>6, <2>2, <4>2, <5>1 DEF Matches
        <4> QED
          BY <4>1, <4>2
      <3>5. RowsInOrder'
        BY <1>5, <3>4 DEF RowsInOrder
      <3> QED
        BY <1>1, <1>4, <2>3, <3>3, <3>5, OnlyActor
    <2> QED
      BY <1>2, <1>7, <2>4, <2>5
  <1>8. ASSUME Deregister(r) PROVE InOrder'
    <2>1. Register(c, req[r].token, None)
      BY <1>3, <1>8 DEF Deregister
    <2>2. /\ bank'[c].hook = None
          /\ \A d \in Clients : d # c => bank'[d].hook = bank[d].hook
      BY <2>1, HookTaken
    <2>3. OthersStay(r) /\ Moved(r, "delete")
      BY <1>8, PlainEffect
    <2>4. RequestInOrder(r)'
      BY <1>1, <1>2, <1>4, <1>5, <1>8, <2>3 DEF RequestInOrder, Moved, Became, SameAdded
    <2>5. ASSUME NEW i \in ActiveIds PROVE Matches(i)'
      <3>1. CASE integrations[i].client = c
        BY <1>1, <2>2, <3>1 DEF Matches
      <3>2. CASE integrations[i].client # c
        <4>1. Matches(i)
          BY <1>4
        <4> QED
          BY <1>1, <1>5, <1>6, <2>2, <3>2, <4>1 DEF Matches
      <3> QED
        BY <3>1, <3>2
    <2>6. RowsInOrder'
      BY <1>5, <2>5 DEF RowsInOrder
    <2> QED
      BY <1>1, <1>4, <2>3, <2>4, <2>6, OnlyActor
  <1> QED
    BY <1>7, <1>8

\* The commits.
LEMMA CommitInOrder ==
    ASSUME Shape, InOrder, NEW r \in Requests,
           CommitLink(r) \/ CommitRotation(r) \/ CommitUnlink(r)
    PROVE  InOrder'
  <1>1. /\ UNCHANGED job /\ UNCHANGED bank
        /\ req[r].pc = "commit"
    BY DEF CommitLink, CommitRotation, CommitUnlink
  <1>2. PICK c \in Clients : req[r].client = {c}
    BY <1>1, ActorAlone
  <1>3. /\ job = NoJob /\ RequestInOrder(r)
        /\ \A p \in Requests \ {r} : req[p].pc = "idle"
        /\ \A i \in ActiveIds : Matches(i)
    BY <1>1, ActorAlone
  <1>4. OthersStay(r) /\ RequestInOrder(r)'
    <2>1. Ended(r)
      BY PlainEffect
    <2> QED
      BY <2>1 DEF Ended, Idle, RequestInOrder
  <1>5. integrations \in [Ids -> Row(fresh)]
    BY OthersKeep
  <1>6. ASSUME CommitLink(r) PROVE RowsInOrder'
    <2>1. req[r].mode = "new"
      BY <1>6 DEF CommitLink
    <2>2. ActiveIds = {}
      BY <1>1, <1>3, <2>1 DEF RequestInOrder
    <2>3. CASE ~req[r].own
      <3>1. UNCHANGED integrations
        BY <1>6, <2>3 DEF CommitLink
      <3> QED
        BY <2>2, <3>1 DEF RowsInOrder, ActiveIds, Ids
    <2>4. CASE req[r].own
      <3> DEFINE i == req[r].integ
                 new == [client |-> c, token |-> req[r].token, secret |-> req[r].secret,
                         status |-> "active"]
      <3>1. integrations' = Put(integrations, i, new)
        <4>1. (CHOOSE d \in Clients : d \in req[r].client) = c
          BY <1>2
        <4> QED
          BY <1>6, <2>4, <4>1 DEF CommitLink
      <3>2. /\ \A j \in Ids' : j = i \/ j \in Ids
            /\ \A j \in Ids' : integrations'[j] = IF j = i THEN new ELSE integrations[j]
        BY <3>1 DEF Put, Ids
      <3>3. new.client = c /\ new.secret = req[r].secret
        OBVIOUS
      <3>4. bank[c].hook = req[r].secret
        BY <1>1, <1>2, <1>3, <2>4 DEF RequestInOrder
      <3> HIDE DEF i, new
      <3>5. \A j \in ActiveIds' : integrations'[j] = new
        BY <2>2, <3>2 DEF ActiveIds
      <3>6. \A j \in ActiveIds' : bank'[integrations'[j].client].hook = integrations'[j].secret
        BY <1>1, <3>3, <3>4, <3>5
      <3> QED
        BY <3>6 DEF RowsInOrder, Matches
    <2> QED
      BY <2>3, <2>4
  <1>7. ASSUME CommitRotation(r) PROVE RowsInOrder'
    <2>1. req[r].mode = "rotate" /\ integrations' = WithToken(req[r].integ, req[r].token)
      BY <1>7 DEF CommitRotation
    <2>2. /\ Ids' = Ids
          /\ \A i \in Ids : /\ integrations'[i].client = integrations[i].client
                            /\ integrations'[i].secret = integrations[i].secret
                            /\ integrations'[i].status = integrations[i].status
      <3>1. req[r].integ \in Ids
        BY <1>3, <2>1 DEF RequestInOrder
      <3>2. integrations' = [integrations EXCEPT ![req[r].integ].token = req[r].token]
        BY <2>1, <3>1 DEF WithToken
      <3> QED
        BY <1>5, <3>1, <3>2 DEF Ids, Row
    <2> QED
      BY <1>1, <1>3, <2>2, RowsStayMatched DEF ActiveIds
  <1>8. ASSUME CommitUnlink(r) PROVE RowsInOrder'
    <2>1. integrations' = [j \in Ids \ {req[r].integ} |-> integrations[j]]
      BY <1>8 DEF CommitUnlink
    <2>2. \A i \in ActiveIds' : i \in ActiveIds /\ integrations'[i] = integrations[i]
      BY <2>1 DEF ActiveIds, Ids
    <2> QED
      BY <1>1, <1>3, <2>2, RowsStayMatched
  <1> QED
    BY <1>1, <1>3, <1>4, <1>6, <1>7, <1>8, OnlyActor

\* The re-registration job.
LEMMA JobStepInOrder ==
    ASSUME Shape, Owned, OneOwner, InOrder, orderly',
           (StartReregistration /\ Quiet) \/ UpdateConfig \/ PushConfig
    PROVE  InOrder'
  <1>1. \A r \in Requests : req[r].pc = "idle"
    <2>1. CASE Quiet
      BY <2>1 DEF Quiet
    <2>2. CASE UpdateConfig \/ PushConfig
      <3>1. ASSUME UpdateConfig PROVE job # NoJob
        <4>1. PICK x \in job.left : TRUE
          BY <3>1 DEF UpdateConfig
        <4> QED
          BY <4>1 DEF NoJob
      <3>2. ASSUME PushConfig PROVE job # NoJob
        <4>1. PICK config \in job.row : TRUE
          BY <3>2 DEF PushConfig
        <4> QED
          BY <4>1 DEF NoJob
      <3> QED
        BY <2>2, <3>1, <3>2 DEF InOrder, Alone
    <2> QED
      BY <2>1, <2>2
  <1>2. UNCHANGED req
    BY DEF StartReregistration, UpdateConfig, PushConfig, tables
  <1>3. Alone' /\ \A r \in Requests : RequestInOrder(r)'
    BY <1>1, <1>2, IdleInOrder DEF Alone
  <1>5. \A i \in ActiveIds : Matches(i) \/ \E config \in job.row : config.client = integrations[i].client
    BY DEF InOrder, RowsInOrder, Unsettled
  <1>6. integrations \in [Ids -> Row(fresh)] /\ \A i \in Ids : integrations[i].client \in Clients
    BY OthersKeep, RowsTyped
  <1>7. ASSUME StartReregistration, Quiet PROVE InOrder'
    <2>1. UNCHANGED integrations /\ UNCHANGED bank /\ job' = [left |-> ListActive, row |-> {}]
      BY <1>7 DEF StartReregistration, tables, NoJob
    <2>2. \A i \in ActiveIds : Matches(i)
      BY <1>7, QuietMatches DEF InOrder
    <2>3. RowsInOrder'
      BY <2>1, <2>2, RowsStayMatched DEF ActiveIds, Ids
    <2>4. JobInOrder'
      <3>1. \A x \in ListActive : x[1] \in Ids
        BY DEF ListActive, ActiveIds
      <3> QED
        BY <2>1, <3>1 DEF JobInOrder, Ids
    <2> QED
      BY <1>3, <2>3, <2>4 DEF InOrder
  <1>8. ASSUME UpdateConfig PROVE InOrder'
    <2> DEFINE n == fresh + 1
    <2>1. PICK x \in job.left :
             LET config == [x[2] EXCEPT !.secret = n]
             IN  /\ integrations' = IF x[1] \in Ids
                                    THEN [integrations EXCEPT ![x[1]].token = config.token,
                                                              ![x[1]].secret = config.secret]
                                    ELSE integrations
                 /\ job' = [left |-> job.left \ {x}, row |-> {config}]
      BY <1>8 DEF UpdateConfig
    <2> DEFINE config == [x[2] EXCEPT !.secret = n]
               i == x[1]
    <2>2. x[2] \in Row(fresh) /\ i \in 1..fresh
      BY OthersKeep
    <2>3. i \in Ids
      BY DEF InOrder, JobInOrder
    <2>4. config.secret = n /\ config.client = x[2].client /\ x[2].client \in Clients
      BY <2>2 DEF Row
    <2>5. integrations[i].client = x[2].client
      BY <2>2, <2>3, <2>4, StandingClaims, RowsTyped DEF Owned, IdsOwned
    <2>6. /\ integrations' = [integrations EXCEPT ![i].token = config.token, ![i].secret = config.secret]
          /\ job'.left \subseteq job.left /\ job'.row = {config}
      BY <2>1, <2>3
    <2> HIDE DEF n, config, i
    <2>7. /\ Ids' = Ids
          /\ \A j \in Ids : /\ integrations'[j].client = integrations[j].client
                            /\ integrations'[j].status = integrations[j].status
                            /\ j # i => integrations'[j].secret = integrations[j].secret
                            /\ j = i => integrations'[j].secret = n
      <3>1. integrations' = [integrations EXCEPT ![i] = [@ EXCEPT !.token = config.token, !.secret = n]]
        BY <1>6, <2>3, <2>4, <2>6
      <3>2. integrations[i] \in Row(fresh)
        BY <1>6, <2>3
      <3>3. /\ [integrations[i] EXCEPT !.token = config.token, !.secret = n].client = integrations[i].client
            /\ [integrations[i] EXCEPT !.token = config.token, !.secret = n].status = integrations[i].status
            /\ [integrations[i] EXCEPT !.token = config.token, !.secret = n].secret = n
        BY <3>2 DEF Row
      <3>4. \A j \in Ids : integrations'[j] =
               IF j = i THEN [integrations[i] EXCEPT !.token = config.token, !.secret = n]
               ELSE integrations[j]
        BY <1>6, <3>1
      <3>5. Ids' = Ids
        BY <3>1 DEF Ids
      <3> QED
        BY <3>3, <3>4, <3>5
    <2>8. JobInOrder'
      <3>1. \A y \in job'.left : y[1] \in Ids'
        BY <2>6, <2>7 DEF InOrder, JobInOrder
      <3>2. \A j \in Ids' : integrations'[j].client = config.client => integrations'[j].secret = config.secret
        BY <2>3, <2>4, <2>5, <2>7 DEF OneOwner
      <3> QED
        BY <2>6, <3>1, <3>2 DEF JobInOrder
    <2>9. RowsInOrder'
      <3> SUFFICES ASSUME NEW j \in ActiveIds' PROVE Matches(j)' \/ Unsettled(j)'
        BY DEF RowsInOrder
      <3>1. j \in ActiveIds /\ j \in Ids
        BY <2>7 DEF ActiveIds
      <3>2. CASE j = i
        BY <2>3, <2>4, <2>5, <2>6, <2>7, <3>2 DEF Unsettled
      <3>3. CASE j # i
        <4>1. job.row = {} /\ UNCHANGED bank
          BY <1>8 DEF UpdateConfig
        <4>2. Matches(j)
          BY <1>5, <3>1, <4>1
        <4> QED
          BY <2>7, <3>1, <3>3, <4>1, <4>2 DEF Matches
      <3> QED
        BY <3>2, <3>3
    <2> QED
      BY <1>3, <2>8, <2>9 DEF InOrder
  <1>9. ASSUME PushConfig PROVE InOrder'
    <2>1. PICK config \in job.row : Register(config.client, config.token, config.secret)
      BY <1>9 DEF PushConfig
    <2>2. UNCHANGED integrations /\ job' = [job EXCEPT !.row = {}]
      BY <1>9 DEF PushConfig, tables
    <2>3. config.client \in Clients
      <3>1. config \in Row(fresh)
        BY OthersKeep
      <3> QED
        BY <3>1 DEF Row
    <2>4. /\ bank'[config.client].hook = config.secret
          /\ \A d \in Clients : d # config.client => bank'[d].hook = bank[d].hook
      BY <2>1, <2>3, HookTaken
    <2>5. job'.left = job.left /\ job'.row = {}
      BY <2>2, OthersKeep
    <2>6. ActiveIds' = ActiveIds /\ Ids' = Ids /\ ActiveIds \subseteq Ids
      BY <2>2 DEF ActiveIds, Ids
    <2>7. JobInOrder'
      BY <2>5, <2>6 DEF InOrder, JobInOrder
    <2>8. ASSUME NEW i \in ActiveIds PROVE Matches(i)'
      <3>1. CASE integrations[i].client = config.client
        <4>1. integrations[i].secret = config.secret
          BY <2>6, <3>1 DEF InOrder, JobInOrder
        <4> QED
          BY <2>2, <2>4, <3>1, <4>1 DEF Matches
      <3>2. CASE integrations[i].client # config.client
        <4>1. \A other \in job.row : other = config
          BY DEF InOrder, JobInOrder
        <4>2. Matches(i)
          BY <1>5, <3>2, <4>1
        <4> QED
          BY <1>6, <2>2, <2>4, <2>6, <3>2, <4>2 DEF Matches
      <3> QED
        BY <3>1, <3>2
    <2>9. RowsInOrder'
      BY <2>6, <2>8 DEF RowsInOrder
    <2> QED
      BY <1>3, <2>7, <2>9 DEF InOrder
  <1> QED
    BY <1>7, <1>8, <1>9

\* A step of nobody that moves a hook or a secret.
LEMMA RestInOrder ==
    ASSUME InOrder, UNCHANGED <<req, job>>, Ids' = Ids,
           \A c \in Clients : bank'[c].hook = bank[c].hook,
           \A i \in Ids : /\ integrations'[i].client = integrations[i].client
                          /\ integrations'[i].secret = integrations[i].secret
                          /\ integrations[i].client \in Clients
                          /\ integrations'[i].status \in {integrations[i].status, "error"},
           \A r \in Requests : req[r].client \subseteq Clients
    PROVE  InOrder'
  <1>1. ActiveIds' \subseteq ActiveIds /\ ActiveIds \subseteq Ids
    BY DEF ActiveIds
  <1>2. Alone'
    BY DEF InOrder, Alone
  <1>3. ASSUME NEW r \in Requests PROVE RequestInOrder(r)'
    BY <1>1 DEF InOrder, RequestInOrder
  <1>4. JobInOrder'
    BY DEF InOrder, JobInOrder
  <1>5. RowsInOrder'
    <2> SUFFICES ASSUME NEW i \in ActiveIds' PROVE Matches(i)' \/ Unsettled(i)'
      BY DEF RowsInOrder
    <2>1. i \in ActiveIds /\ i \in Ids
      BY <1>1
    <2>2. Matches(i) \/ Unsettled(i)
      BY <2>1 DEF InOrder, RowsInOrder
    <2>3. CASE Matches(i)
      BY <2>1, <2>3 DEF Matches
    <2>4. CASE Unsettled(i)
      BY <2>1, <2>4 DEF Unsettled
    <2> QED
      BY <2>2, <2>3, <2>4
  <1> QED
    BY <1>2, <1>3, <1>4, <1>5 DEF InOrder

\* The customer and backfill.
LEMMA OutsideInOrder ==
    ASSUME Shape, InOrder,
           \/ \E c \in Clients : NewToken(c)
           \/ \E a \in DOMAIN accounts : TriggerBackfill(a)
           \/ \E j \in DOMAIN jobs : PodStep(j) \/ PodDies(j) \/ Deadline(j)
           \/ UNCHANGED vars
    PROVE  InOrder'
  <1>1. \A r \in Requests : req[r].client \subseteq Clients
    <2>1. \A r \in Requests : req[r] \in Request(fresh, DOMAIN accounts)
      BY ScalarsTyped
    <2> QED
      BY <2>1 DEF Request
  <1>2. integrations \in [Ids -> Row(fresh)] /\ bank \in [Clients -> [token : Nat, hook : 0..fresh]]
        /\ \A i \in Ids : integrations[i].client \in Clients
    BY OthersKeep, RowsTyped
  <1>3. ASSUME NEW c \in Clients, NewToken(c) PROVE InOrder'
    <2>1. /\ UNCHANGED <<req, job, integrations>>
          /\ bank' = [bank EXCEPT ![c].token = @ + 1]
      BY <1>3 DEF NewToken, tables
    <2>2. \A e \in Clients : bank'[e].hook = bank[e].hook
      BY <1>2, <2>1
    <2> QED
      BY <1>1, <1>2, <2>1, <2>2, RestInOrder DEF Ids
  <1>4. ASSUME (\E a \in DOMAIN accounts : TriggerBackfill(a)) \/ UNCHANGED vars PROVE InOrder'
    <2>1. UNCHANGED <<req, job, integrations>> /\ UNCHANGED bank
      BY <1>4 DEF TriggerBackfill, vars, linkVars, tables
    <2> QED
      BY <1>1, <1>2, <2>1, RestInOrder DEF Ids
  <1>5. ASSUME NEW j \in DOMAIN jobs, PodStep(j) \/ PodDies(j) \/ Deadline(j) PROVE InOrder'
    <2>1. UNCHANGED <<req, job>> /\ UNCHANGED bank
      BY <1>5 DEF PodStep, StartPod, ReadIntegration, FetchStatements, Flush, TokenRefused,
                  MarkError, Collect, PodDies, Deadline, linkVars, tables
    <2>2. UNCHANGED integrations \/ integrations' = WithError(jobs[j].integ)
      BY <1>5 DEF PodStep, StartPod, ReadIntegration, FetchStatements, Flush, TokenRefused,
                  MarkError, Collect, PodDies, Deadline, linkVars, tables
    <2>3. CASE UNCHANGED integrations
      BY <1>1, <1>2, <2>1, <2>3, RestInOrder DEF Ids
    <2>4. ASSUME NEW k, integrations' = WithError(k) PROVE InOrder'
      <3>1. /\ Ids' = Ids
            /\ \A i \in Ids : /\ integrations'[i].client = integrations[i].client
                              /\ integrations'[i].secret = integrations[i].secret
                              /\ integrations'[i].status \in {integrations[i].status, "error"}
        BY <1>2, <2>4 DEF WithError, Ids, Row
      <3> QED
        BY <1>1, <1>2, <2>1, <3>1, RestInOrder
    <2> QED
      BY <2>2, <2>3, <2>4
  <1> QED
    BY <1>3, <1>4, <1>5

\* What was out of order stays out of order.
LEMMA OrderlyBefore ==
    ASSUME Shape, [Next]_vars, orderly'
    PROVE  /\ orderly
           /\ \A r \in Requests : (\E c \in Clients : Link(r, c)) \/ (\E i \in Ids : Unlink(r, i)) => Quiet
           /\ StartReregistration => Quiet
           /\ ~JobDies
  <1>1. ASSUME Spend PROVE orderly /\ Quiet
    BY <1>1 DEF Spend
  <1>2. \A r \in Requests : (\E c \in Clients : Link(r, c)) \/ (\E i \in Ids : Unlink(r, i)) => Spend
    BY DEF Link, Unlink
  <1>3. StartReregistration => Spend
    BY DEF StartReregistration
  <1>4. ~JobDies
    BY DEF JobDies
  <1>5. ASSUME NEW r \in Requests, LinkStep(r) \/ Rollback(r) PROVE orderly
    <2>1. \A c, token, hook : Register(c, token, hook) => orderly
      BY DEF Register
    <2> QED
      BY <1>5, <2>1 DEF LinkStep, CheckConflict, InsertIntegration, Reselect, WriteAccounts, Rotate,
                        SetWebhook, CommitLink, LinkFails, CommitRotation, Deregister,
                        DeleteIntegration, CommitUnlink, Rollback
  <1>6. ASSUME UpdateConfig \/ PushConfig PROVE orderly
    BY <1>6 DEF UpdateConfig, PushConfig, Register
  <1>7. ASSUME NEW c \in Clients, NewToken(c) PROVE orderly
    BY <1>1, <1>7 DEF NewToken
  <1>8. ASSUME NEW a \in DOMAIN accounts, TriggerBackfill(a) PROVE orderly
    BY <1>1, <1>8 DEF TriggerBackfill
  <1>9. ASSUME NEW j \in DOMAIN jobs, PodStep(j) \/ PodDies(j) \/ Deadline(j) PROVE orderly
    BY <1>9 DEF PodStep, StartPod, ReadIntegration, FetchStatements, Flush, TokenRefused,
                MarkError, Collect, PodDies, Deadline, linkVars
  <1>10. ASSUME UNCHANGED vars PROVE orderly
    BY <1>10 DEF vars, linkVars
  <1>11. orderly
    BY <1>1, <1>2, <1>3, <1>4, <1>5, <1>6, <1>7, <1>8, <1>9, <1>10 DEF Next, LinkNext
  <1> QED
    BY <1>1, <1>2, <1>3, <1>4, <1>11

\* One case per action of Next.
LEMMA NextInOrder == Shape /\ Owned /\ OneOwner /\ WebhookInv /\ [Next]_vars => WebhookInv'
  <1> SUFFICES ASSUME Shape, Owned, OneOwner, WebhookInv, [Next]_vars, orderly'
               PROVE  InOrder'
    BY DEF WebhookInv
  <1>1. InOrder
    BY OrderlyBefore DEF WebhookInv
  <1>2. ASSUME NEW r \in Requests,
               (\E c \in Clients : Link(r, c)) \/ (\E i \in Ids : Unlink(r, i)) \/ LinkStep(r) \/ Rollback(r)
        PROVE  InOrder'
    <2>1. CASE (\E c \in Clients : Link(r, c)) \/ (\E i \in Ids : Unlink(r, i))
      BY <1>1, <2>1, OrderlyBefore, StartInOrder
    <2>2. CASE LinkStep(r) \/ Rollback(r)
      BY <1>1, <2>2, StatementInOrder, CallInOrder, CommitInOrder DEF LinkStep
    <2> QED
      BY <1>2, <2>1, <2>2
  <1>3. CASE StartReregistration \/ UpdateConfig \/ PushConfig \/ JobDies
    BY <1>1, <1>3, OrderlyBefore, JobStepInOrder
  <1>4. CASE \/ \E c \in Clients : NewToken(c)
             \/ \E a \in DOMAIN accounts : TriggerBackfill(a)
             \/ \E j \in DOMAIN jobs : PodStep(j) \/ PodDies(j) \/ Deadline(j)
             \/ UNCHANGED vars
    BY <1>1, <1>4, OutsideInOrder
  <1> QED
    BY <1>2, <1>3, <1>4 DEF Next, LinkNext

\* Whatever the role of the service may delete, and also when transactions are lost after
\* the bank was told: requests that come one at a time, with a bank that takes the URLs,
\* leave every active integration with a webhook under which each card of the customer
\* finds its account, or with none.
THEOREM OrderlyReportsArrive == Spec => []ReportsArrive
  <1> DEFINE Inv == Shape /\ Owned /\ OneOwner /\ CardsBound /\ WebhookInv
  <1>1. MonobankInit => Inv
    <2>1. MonobankInit => OneOwner /\ CardsBound
      BY DEF MonobankInit, Init, OneOwner, CardsBound, Idle, Ids
    <2>2. MonobankInit => InOrder
      BY DEF MonobankInit, Init, InOrder, Alone, RequestInOrder, JobInOrder, RowsInOrder,
             ActiveIds, Ids, Idle, NoJob
    <2> QED
      BY <2>1, <2>2, InitShape, InitOwned DEF WebhookInv
  <1>2. Inv /\ [Next]_vars => Inv'
    BY NextShape, NextOwned, NextOwner, NextBound, NextInOrder
  <1>3. Inv => ReportsArrive
    <2> SUFFICES ASSUME Shape, CardsBound, InOrder, Quiet, NEW i \in ActiveIds,
                        bank[integrations[i].client].hook # None,
                        NEW card \in CardsOf[integrations[i].client]
                 PROVE  Publishes(integrations[i].client, card)
      BY DEF WebhookInv, ReportsArrive
    <2>1. integrations[i].secret = bank[integrations[i].client].hook
      BY QuietMatches DEF InOrder, Matches
    <2>2. i \in WithSecret(bank[integrations[i].client].hook)
      BY <2>1 DEF WithSecret
    <2>3. AccountsOf(card, i) # {}
      BY DEF CardsBound, ActiveIds
    <2> QED
      BY <2>2, <2>3 DEF Publishes
  <1> QED
    BY <1>1, <1>2, <1>3, PTL DEF Spec
=============================================================================
