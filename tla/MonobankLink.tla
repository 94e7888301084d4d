---------------------------- MODULE MonobankLink ----------------------------
(***************************************************************************)
(* Linking a user to Monobank: one integration row per customer of the      *)
(* bank, account rows that outlive it, and the webhook URL that is stored   *)
(* on both sides.  A request is one READ COMMITTED transaction that calls   *)
(* the bank before it commits; the re-registration job autocommits.  Row    *)
(* level security keeps users apart, so there is one user.                  *)
(***************************************************************************)
EXTENDS Integers, SequencesExt

CONSTANTS
    Clients,      \* customers of the bank whose tokens the user holds
    CardsOf,      \* the cards of each customer
    Requests,     \* connections of the pool that serve a request
    Roles,        \* the database roles the service may be given
    MaxOps,       \* bound: requests, jobs and new tokens
    MaxFaults     \* bound: lost transactions and jobs

ASSUME MonobankAssumption ==
    /\ DOMAIN CardsOf = Clients /\ \A c \in Clients : IsFiniteSet(CardsOf[c])
    /\ \A c, d \in Clients : c # d => CardsOf[c] \cap CardsOf[d] = {}
    /\ Roles \subseteq {"owner", "grosh_ingestion"}
    /\ MaxOps \in Nat /\ MaxFaults \in Nat

VARIABLES
    bank,          \* of each customer: the valid token and the registered webhook
    integrations,  \* bank_integrations by id
    accounts,      \* sequence of the rows of accounts; the index is the id
    req,           \* the request of each connection
    job,           \* reregister_webhooks: what is left of the snapshot
    role,          \* the role the service connects as; never changes
    fresh,         \* ids and secrets given out
    ops, faults,
    orderly,       \* ghost: nothing overlapped, the bank took every URL and no job broke
    slipped        \* ghost: a row was active for one SELECT and not for the next

linkVars == <<bank, integrations, accounts, req, job, role, fresh, ops, faults, orderly,
              slipped>>

None == 0
Ids == DOMAIN integrations
ActiveIds == {i \in Ids : integrations[i].status = "active"}
RowsOf(c) == {i \in Ids : integrations[i].client = c}

Idle == [pc |-> "idle", mode |-> "none", client |-> {}, token |-> None, integ |-> None,
         secret |-> None, own |-> FALSE, rebound |-> {}, added |-> {}]
NoJob == [left |-> {}, row |-> {}]

Init ==
    /\ bank = [c \in Clients |-> [token |-> 1, hook |-> None]]
    /\ integrations = [i \in {} |-> {}]
    /\ accounts = <<>>
    /\ req = [r \in Requests |-> Idle]
    /\ job = NoJob
    /\ role \in Roles
    /\ fresh = 0 /\ ops = 0 /\ faults = 0
    /\ orderly = TRUE /\ slipped = FALSE

Put(f, i, row) == [j \in DOMAIN f \cup {i} |-> IF j = i THEN row ELSE f[j]]

Quiet == job = NoJob /\ \A r \in Requests : req[r].pc = "idle"

Spend ==
    /\ ops < MaxOps
    /\ ops' = ops + 1
    /\ orderly' = (orderly /\ Quiet)

tables == <<integrations, accounts, role, fresh, slipped>>

\* decrypt_token: of an active row, if there is one.
DecryptToken(i) == {integrations[j].token : j \in {i} \cap ActiveIds}

-----------------------------------------------------------------------------
(* Row locks, held until the commit. *)

\* q has updated or deleted row i.
Holds(q, i) ==
    req[q].pc \in {"webhook", "commit"} /\ req[q].integ = i /\ req[q].mode # "new"

Locked(i, r) == \E q \in Requests \ {r} : Holds(q, i)

\* Another request has inserted an account that refers to row i.
Referenced(i, r) ==
    \E q \in Requests \ {r} :
        req[q].pc \in {"webhook", "commit"} /\ req[q].integ = i /\ req[q].mode = "new"

\* Another request has inserted, deleted or updated the integration of the customer.
Contended(r) ==
    \E q \in Requests \ {r} :
        /\ req[q].client = req[r].client
        /\ \/ req[q].own
           \/ req[q].mode = "unlink" /\ req[q].pc = "commit"
           \/ req[q].mode = "rotate" /\ req[q].integ \in Ids /\ Holds(q, req[q].integ)

-----------------------------------------------------------------------------
(* POST /monobank/link. *)

Goto(r, pc) == req' = [req EXCEPT ![r].pc = pc]

\* get_client_info has accepted the token; get_integration_by_client_id.
Link(r, c) ==
    /\ req[r].pc = "idle"
    /\ Spend
    /\ req' = [req EXCEPT ![r] =
                 LET asked == [Idle EXCEPT !.client = {c}, !.token = bank[c].token,
                                           !.pc = "conflict", !.mode = "new"]
                     found == RowsOf(c) \cap ActiveIds
                 IN  IF found = {} THEN asked
                     ELSE LET i == CHOOSE i \in found : TRUE
                          IN  [asked EXCEPT !.pc = "rotate", !.mode = "rotate", !.integ = i,
                                            !.secret = integrations[i].secret]]
    /\ UNCHANGED <<tables, bank, job, faults>>

\* get_any_active_integration: 409 for another customer.
CheckConflict(r) ==
    /\ req[r].pc = "conflict"
    /\ req' = [req EXCEPT ![r] = IF ActiveIds = {} THEN [@ EXCEPT !.pc = "insert"] ELSE Idle]
    /\ UNCHANGED <<tables, bank, job, ops, faults, orderly>>

\* create_integration_idempotent.  The unique index knows nothing of the status.
InsertIntegration(r) ==
    LET rows == UNION {RowsOf(c) : c \in req[r].client}
    IN  /\ req[r].pc = "insert"
        /\ ~Contended(r)
        /\ IF rows = {}
           THEN /\ fresh' = fresh + 1
                /\ req' = [req EXCEPT ![r].pc = "accounts", ![r].own = TRUE,
                                      ![r].integ = fresh', ![r].secret = fresh']
           ELSE /\ req' = [req EXCEPT ![r].pc = "reselect",
                             ![r].integ = IF rows \subseteq ActiveIds
                                          THEN CHOOSE i \in rows : TRUE ELSE None,
                             ![r].secret = fresh + 1]
                /\ fresh' = fresh + 1
        /\ UNCHANGED <<integrations, accounts, role, bank, job, ops, faults,
                       orderly, slipped>>

\* Another request won the insert: rotate its row if it is (still) active.
Reselect(r) ==
    LET found == (UNION {RowsOf(c) : c \in req[r].client}) \cap ActiveIds
    IN  /\ req[r].pc = "reselect"
        /\ IF found = {}
           THEN Goto(r, "accounts")
           ELSE LET i == CHOOSE i \in found : TRUE
                IN  req' = [req EXCEPT ![r].pc = "rotate", ![r].mode = "rotate",
                                       ![r].integ = i, ![r].secret = integrations[i].secret]
        /\ slipped' = (slipped \/ (found = {} /\ req[r].integ # None))
        /\ UNCHANGED <<integrations, accounts, role, fresh, bank, job, ops, faults,
                       orderly>>

\* Mutant: every card gets a new row.
NoOrphans(c) == {}

\* Mutant: orphans are matched by the integration alone.
AnybodysOrphans(c) == {a \in DOMAIN accounts : accounts[a].integration = None}

\* find_orphan_accounts_for_rebind: accounts of the customer without an integration.
Orphans(c) == {a \in DOMAIN accounts :
                  /\ accounts[a].integration = None
                  /\ accounts[a].client = c /\ accounts[a].card \in CardsOf[c]}

\* Orphans are rebound, the other cards get a row; a foreign key fails if the
\* integration has been deleted.
WriteAccounts(r) ==
    LET c == CHOOSE c \in Clients : c \in req[r].client
    IN  /\ req[r].pc = "accounts"
        /\ \A q \in Requests \ {r} : ~(req[q].mode = "unlink" /\ req[q].pc = "commit"
                                       /\ req[q].integ = req[r].integ)
        /\ IF req[r].own \/ req[r].integ \in Ids \cup {None}
           THEN req' = [req EXCEPT ![r].pc = "webhook", ![r].rebound = Orphans(c),
                           ![r].added = CardsOf[c] \ {accounts[a].card : a \in Orphans(c)}]
           ELSE req' = [req EXCEPT ![r] = Idle]
        /\ UNCHANGED <<tables, bank, job, ops, faults, orderly>>

\* _rotate_existing_integration: the UPDATE, which may find the row gone.
Rotate(r) ==
    /\ req[r].pc = "rotate"
    /\ ~Locked(req[r].integ, r)
    /\ Goto(r, "webhook")
    /\ UNCHANGED <<tables, bank, job, ops, faults, orderly>>

\* The bank takes the URL if the token is valid and the call arrives.
Register(c, token, hook) ==
    \/ /\ token = bank[c].token
       /\ bank' = [bank EXCEPT ![c].hook = hook]
       /\ UNCHANGED orderly
    \/ /\ orderly' = FALSE
       /\ UNCHANGED bank

\* Mutant: a rotation registers a secret of its own.
RegisterFresh(r) ==
    /\ req[r].pc = "webhook"
    /\ \E c \in req[r].client :
          Register(c, req[r].token,
                   IF req[r].mode = "rotate" THEN fresh + 1 ELSE req[r].secret)
    /\ Goto(r, "commit")
    /\ UNCHANGED <<tables, job, ops, faults>>

\* set_webhook, best effort.  A rotation registers the URL it has read.
SetWebhook(r) ==
    /\ req[r].pc = "webhook"
    /\ \E c \in req[r].client : Register(c, req[r].token, req[r].secret)
    /\ Goto(r, "commit")
    /\ UNCHANGED <<tables, job, ops, faults>>

\* Mutant: orphans are found and left.
NotRebound(r) == accounts

\* rebind_account; the customer of an orphan is the same.
Rebound(r) ==
    [a \in DOMAIN accounts |->
        IF a \in req[r].rebound
        THEN [accounts[a] EXCEPT !.integration = req[r].integ] ELSE accounts[a]]

\* create_account.
AccountRow(r, card) ==
    [card |-> card, client |-> CHOOSE c \in Clients : c \in req[r].client,
     integration |-> req[r].integ]

\* The exit of get_db_conn after a fresh link.
CommitLink(r) ==
    LET c == CHOOSE c \in Clients : c \in req[r].client
        added == SetToSeq(req[r].added)
    IN  /\ req[r].pc = "commit" /\ req[r].mode = "new" /\ req[r].integ # None
        /\ accounts' = Rebound(r) \o [n \in DOMAIN added |-> AccountRow(r, added[n])]
        /\ integrations' = IF req[r].own
                           THEN Put(integrations, req[r].integ,
                                    [client |-> c, token |-> req[r].token,
                                     secret |-> req[r].secret, status |-> "active"])
                           ELSE integrations
        /\ req' = [req EXCEPT ![r] = Idle]
        /\ UNCHANGED <<bank, job, role, fresh, ops, faults, orderly, slipped>>

\* MonobankLinkResponse refuses a missing integration_id: 500, and nothing is kept but
\* what the bank was told.
LinkFails(r) ==
    /\ req[r].pc = "commit" /\ req[r].mode = "new" /\ req[r].integ = None
    /\ req' = [req EXCEPT ![r] = Idle]
    /\ UNCHANGED <<tables, bank, job, ops, faults, orderly>>

\* update_integration_token merges the token into the row, if there is one.
WithToken(i, token) ==
    IF i \in Ids THEN [integrations EXCEPT ![i].token = token] ELSE integrations

CommitRotation(r) ==
    /\ req[r].pc = "commit" /\ req[r].mode = "rotate"
    /\ integrations' = WithToken(req[r].integ, req[r].token)
    /\ req' = [req EXCEPT ![r] = Idle]
    /\ UNCHANGED <<bank, accounts, job, role, fresh, ops, faults, orderly, slipped>>

-----------------------------------------------------------------------------
(* DELETE /monobank/integrations/{id}. *)

\* 404 unless the row is active.
Unlink(r, i) ==
    /\ req[r].pc = "idle"
    /\ Spend
    /\ \E token \in DecryptToken(i) :
          req' = [req EXCEPT ![r] =
                    [Idle EXCEPT !.pc = "deregister", !.mode = "unlink", !.integ = i,
                                 !.client = {integrations[i].client}, !.token = token]]
    /\ UNCHANGED <<tables, bank, job, faults>>

Deregister(r) ==
    /\ req[r].pc = "deregister"
    /\ \E c \in req[r].client : Register(c, req[r].token, None)
    /\ Goto(r, "delete")
    /\ UNCHANGED <<tables, job, ops, faults>>

\* delete_integration.  The role of the service has no DELETE on the table: 500.  The
\* row may have gone: 404.
DeleteIntegration(r) ==
    /\ req[r].pc = "delete"
    /\ ~Locked(req[r].integ, r) /\ ~Referenced(req[r].integ, r)
    /\ IF role = "owner" /\ req[r].integ \in Ids
       THEN Goto(r, "commit")
       ELSE req' = [req EXCEPT ![r] = Idle]
    /\ UNCHANGED <<tables, bank, job, ops, faults, orderly>>

\* Mutant: the accounts are left alone.
KeepBinding(r) ==
    /\ req[r].pc = "commit" /\ req[r].mode = "unlink"
    /\ integrations' = [j \in Ids \ {req[r].integ} |-> integrations[j]]
    /\ req' = [req EXCEPT ![r] = Idle]
    /\ UNCHANGED <<bank, accounts, job, role, fresh, ops, faults, orderly, slipped>>

\* ON DELETE SET NULL.
CommitUnlink(r) ==
    LET i == req[r].integ
    IN  /\ req[r].pc = "commit" /\ req[r].mode = "unlink"
        /\ integrations' = [j \in Ids \ {i} |-> integrations[j]]
        /\ accounts' = [a \in DOMAIN accounts |->
                          IF accounts[a].integration = i
                          THEN [accounts[a] EXCEPT !.integration = None] ELSE accounts[a]]
        /\ req' = [req EXCEPT ![r] = Idle]
        /\ UNCHANGED <<bank, job, role, fresh, ops, faults, orderly, slipped>>

\* The process or the connection breaks after the bank was told.
Rollback(r) ==
    /\ req[r].pc \in {"delete", "commit"}
    /\ faults < MaxFaults
    /\ faults' = faults + 1
    /\ req' = [req EXCEPT ![r] = Idle]
    /\ UNCHANGED <<tables, bank, job, ops, orderly>>

-----------------------------------------------------------------------------
(* python -m grosh_ingestion.jobs.reregister_webhooks. *)

\* list_active, which row level security empties for grosh_ingestion.
ListActive == {<<i, integrations[i]>> : i \in {i \in ActiveIds : role = "owner"}}

StartReregistration ==
    /\ job = NoJob /\ ListActive # {}
    /\ Spend
    /\ job' = [NoJob EXCEPT !.left = ListActive]
    /\ UNCHANGED <<tables, bank, req, faults>>

\* update_config writes back the whole config that was read, with a new secret.
UpdateConfig ==
    /\ job.row = {}
    /\ \E x \in job.left :
          LET i == x[1]
              config == [x[2] EXCEPT !.secret = fresh + 1]
          IN  /\ \A q \in Requests : ~Holds(q, i)
              /\ integrations' = IF i \in Ids
                                 THEN [integrations EXCEPT ![i].token = config.token,
                                                           ![i].secret = config.secret]
                                 ELSE integrations
              /\ job' = [left |-> job.left \ {x}, row |-> {config}]
    /\ fresh' = fresh + 1
    /\ UNCHANGED <<bank, accounts, req, role, ops, faults, orderly, slipped>>

PushConfig ==
    /\ \E config \in job.row : Register(config.client, config.token, config.secret)
    /\ job' = [job EXCEPT !.row = {}]
    /\ UNCHANGED <<tables, req, ops, faults>>

JobDies ==
    /\ job # NoJob
    /\ faults < MaxFaults
    /\ faults' = faults + 1
    /\ orderly' = FALSE
    /\ job' = NoJob
    /\ UNCHANGED <<tables, bank, req, ops>>

-----------------------------------------------------------------------------
(* The customer and the bank. *)

\* A new token, which invalidates the one before.
NewToken(c) ==
    /\ Spend
    /\ bank' = [bank EXCEPT ![c].token = @ + 1]
    /\ UNCHANGED <<tables, req, job, faults>>

\* get_active_integration_by_webhook_secret.
WithSecret(secret) == {i \in ActiveIds : integrations[i].secret = secret}

\* get_account_by_external_id.
AccountsOf(card, i) ==
    {a \in DOMAIN accounts : accounts[a].card = card /\ accounts[a].integration = i}

\* receive_webhook of what the customer's bank sends of a card: role under an
\* account, or 404.  It changes nothing here.
Publishes(c, card) == \E i \in WithSecret(bank[c].hook) : AccountsOf(card, i) # {}

LinkStep(r) ==
    \/ CheckConflict(r) \/ InsertIntegration(r) \/ Reselect(r) \/ WriteAccounts(r)
    \/ Rotate(r) \/ SetWebhook(r) \/ CommitLink(r) \/ LinkFails(r) \/ CommitRotation(r)
    \/ Deregister(r) \/ DeleteIntegration(r) \/ CommitUnlink(r)

LinkNext ==
    \/ \E r \in Requests :
          \/ \E c \in Clients : Link(r, c)
          \/ \E i \in Ids : Unlink(r, i)
          \/ LinkStep(r)
          \/ Rollback(r)
    \/ StartReregistration \/ UpdateConfig \/ PushConfig \/ JobDies
    \/ \E c \in Clients : NewToken(c)
=============================================================================
