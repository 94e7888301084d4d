------------------------- MODULE MonobankProperties -------------------------
(* What a user who links and unlinks a bank may rely on. *)
EXTENDS MonobankBackfill

Cards == UNION {CardsOf[c] : c \in Clients}

\* A row of bank_integrations and a request, when n ids and secrets have been given out.
Row(n) == [client : Clients, token : Nat, secret : 1..n, status : {"active", "error"}]

Request(n, ids) ==
    [pc : {"idle", "conflict", "insert", "reselect", "accounts", "rotate", "webhook",
           "commit", "deregister", "delete"},
     mode : {"none", "new", "rotate", "unlink"},
     client : SUBSET Clients, token : Nat, integ : 0..n, secret : 0..n,
     own : BOOLEAN, rebound : SUBSET ids, added : SUBSET Cards]

Backfill(n, ids) ==
    [account : ids, integ : 1..n, token : Nat, attempts : 0..(BackoffLimit + 1),
     pod : Pod, status : {"open", "complete", "failed", "gone"}]

\* Types of the tables, the bank and the requests; accounts refer to rows that exist.
TypeOK ==
    /\ fresh \in Nat /\ ops \in Nat /\ faults \in Nat
    /\ orderly \in BOOLEAN /\ slipped \in BOOLEAN
    /\ bank \in [Clients -> [token : Nat, hook : 0..fresh]]
    /\ Ids \subseteq 1..fresh /\ integrations \in [Ids -> Row(fresh)]
    /\ accounts \in Seq([card : Cards, client : Clients, integration : Ids \cup {None}])
    /\ \A a \in DOMAIN accounts : accounts[a].card \in CardsOf[accounts[a].client]
    /\ req \in [Requests -> Request(fresh, DOMAIN accounts)]
    /\ job \in [left : SUBSET ((1..fresh) \X Row(fresh)), row : SUBSET Row(fresh)]
    /\ role \in Roles
    /\ jobs \in Seq(Backfill(fresh, DOMAIN accounts))

\* The history of a card stays in one place: no card gets a second account row, across
\* links that race, break, are undone and repeated - unless an integration ceases to be
\* active between the two SELECTs of a link that has lost the race for its insert.
OneAccountPerCard ==
    ~slipped => \A a, b \in DOMAIN accounts : accounts[a].card = accounts[b].card => a = b

\* An account is bound to an integration of its own customer and a customer's webhook
\* never leads to another customer's integration, whatever is rebound, rotated or
\* re-registered from a stale copy.
OwnCustomerOnly ==
    /\ \A a \in DOMAIN accounts : accounts[a].integration # None =>
          integrations[accounts[a].integration].client = accounts[a].client
    /\ \A c \in Clients, i \in Ids :
          bank[c].hook # None /\ integrations[i].secret = bank[c].hook
          => integrations[i].client = c

\* What the bank sends of a customer whose integration is active reaches an account row,
\* unless the bank was told to send nothing: after any sequence of links, rotations and
\* unlinks that do not overlap, also when transactions are lost after the bank was told and
\* when the role may not delete, as long as the bank takes the URLs.
ReportsArrive ==
    orderly /\ Quiet =>
        \A i \in ActiveIds :
            LET c == integrations[i].client
            IN  bank[c].hook # None => \A card \in CardsOf[c] : Publishes(c, card)

\* Two backfills of one account publish at the same time only when the older Job is
\* at its last attempt, which _has_active_job takes for exhausted.
OverlapAtLastAttempt ==
    \A j, k \in DOMAIN jobs :
        /\ j < k /\ jobs[j].account = jobs[k].account
        /\ jobs[j].pod # "none" /\ jobs[k].pod # "none"
        => jobs[j].attempts = BackoffLimit

-----------------------------------------------------------------------------
\* repo.py:274 "Webhooks and backfill stop targeting this integration until the user
\* re-links": a link whose token the bank accepts does not end in an error.
RelinkSucceeds ==
    \A r \in Requests :
        req[r].pc = "commit" /\ req[r].mode = "new" => req[r].integ # None

\* linking_service.py:249 "Hard-delete a Monobank integration." and :275 "integration will be
\* deleted anyway": when nothing overlaps or breaks, no unlink leaves an active integration
\* whose webhook the bank has forgotten.
UnlinkLeavesNothing ==
    orderly /\ Quiet /\ faults = 0 =>
        \A i \in ActiveIds : bank[integrations[i].client].hook # None
=============================================================================
