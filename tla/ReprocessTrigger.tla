-------------------------- MODULE ReprocessTrigger --------------------------
(***************************************************************************)
(* The trigger endpoints of the ingestion API: POST .../reprocess for one  *)
(* user and POST /admin/reprocess for many.  A request is one database     *)
(* transaction (READ COMMITTED) that claims the hourly slot and inserts    *)
(* the lock row of every target, creates one K8s Job for all of them, and  *)
(* commits after the handler has returned.  Several requests run at once.  *)
(***************************************************************************)
EXTENDS Naturals, Sequences, Functions

CONSTANTS
    Users,
    Requests,
    Nobody,
    Bodies,         \* the user_ids lists a bulk request may carry
    MaxGhosts,      \* bound: submissions that time out although the Job exists
    MaxDeaths       \* bound: job pods that die

ASSUME ConstantsAssumption ==
    /\ Nobody \notin Requests
    /\ Bodies \subseteq Seq(Users)
    /\ {MaxGhosts, MaxDeaths} \subseteq Nat

VARIABLES
    pc,         \* where each request is in its handler
    todo,       \* target users the handler has not looked at yet
    bulk,       \* the request came through the admin endpoint
    force,      \* body.force
    targets,    \* successful_targets, in order
    slot,       \* users whose last_reprocess_started_at is less than an hour old
    claimed,    \* who holds each users row: updated, not yet committed
    locks,      \* users with a committed reprocessing_locks row
    pending,    \* who has inserted each user's lock row, not yet committed
    job,        \* USER_IDS_JSON of each request's Job, without the users it is done with
    used        \* how much of each bound has been spent

requestVars == <<pc, todo, bulk, force, targets>>
dbVars      == <<slot, claimed, locks, pending>>
vars        == <<requestVars, dbVars, job, used>>

Working == {"claim", "insert", "submit", "commit"}

\* Types; a request works on users that exist.
TypeOK ==
    /\ pc \in [Requests -> {"new", "answered"} \cup Working]
    /\ todo \in [Requests -> Seq(Users)] /\ targets \in [Requests -> Seq(Users)]
    /\ job \in [Requests -> Seq(Users)]
    /\ bulk \in [Requests -> BOOLEAN] /\ force \in [Requests -> BOOLEAN]
    /\ slot \subseteq Users /\ locks \subseteq Users
    /\ claimed \in [Users -> Requests \cup {Nobody}]
    /\ pending \in [Users -> Requests \cup {Nobody}]
    /\ used \in [{"ghosts", "deaths"} -> Nat]

Bound == [ghosts |-> MaxGhosts, deaths |-> MaxDeaths]

Spend(kind) ==
    /\ used[kind] < Bound[kind]
    /\ used' = [used EXCEPT ![kind] = @ + 1]

Init ==
    /\ pc = [r \in Requests |-> "new"]
    /\ todo = [r \in Requests |-> <<>>]
    /\ bulk = [r \in Requests |-> FALSE]
    /\ force = [r \in Requests |-> FALSE]
    /\ targets = [r \in Requests |-> <<>>]
    /\ slot = {}
    /\ claimed = [u \in Users |-> Nobody]
    /\ locks = {}
    /\ pending = [u \in Users |-> Nobody]
    /\ job = [r \in Requests |-> <<>>]
    /\ used = [kind \in {"ghosts", "deaths"} |-> 0]

-----------------------------------------------------------------------------
ReceiveUserTrigger(r) ==
    /\ pc[r] = "new"
    /\ \E u \in Users : todo' = [todo EXCEPT ![r] = <<u>>]
    /\ pc' = [pc EXCEPT ![r] = "claim"]
    /\ UNCHANGED <<bulk, force, targets, dbVars, job, used>>

ReceiveBulkTrigger(r) ==
    /\ pc[r] = "new"
    /\ \E body \in Bodies : todo' = [todo EXCEPT ![r] = body]
    /\ \E f \in BOOLEAN : force' = [force EXCEPT ![r] = f]
    /\ bulk' = [bulk EXCEPT ![r] = TRUE]
    /\ pc' = [pc EXCEPT ![r] = "claim"]
    /\ UNCHANGED <<targets, dbVars, job, used>>

\* The transaction ends: its row locks go, its writes become visible or vanish.
Release(owner, r) == [u \in Users |-> IF owner[u] = r THEN Nobody ELSE owner[u]]

Held(owner, r) == {u \in Users : owner[u] = r}

\* Mutant: a failed request reports a phase nobody else knows.
RollbackUnknown(r) ==
    /\ pc' = [pc EXCEPT ![r] = "failed"]
    /\ claimed' = Release(claimed, r)
    /\ pending' = Release(pending, r)
    /\ UNCHANGED <<todo, bulk, force, targets, slot, locks>>

Rollback(r) ==
    /\ pc' = [pc EXCEPT ![r] = "answered"]
    /\ claimed' = Release(claimed, r)
    /\ pending' = Release(pending, r)
    /\ UNCHANGED <<todo, bulk, force, targets, slot, locks>>

Commit(r) ==
    /\ pc[r] = "commit"
    /\ pc' = [pc EXCEPT ![r] = "answered"]
    /\ slot' = slot \cup Held(claimed, r)
    /\ locks' = locks \cup Held(pending, r)
    /\ claimed' = Release(claimed, r)
    /\ pending' = Release(pending, r)
    /\ UNCHANGED <<todo, bulk, force, targets, job, used>>

-----------------------------------------------------------------------------
(* claim_reprocess_slot and force_claim_reprocess_slot: an UPDATE waits    *)
(* for a transaction that has updated the row and then looks at it again.  *)

RowFree(r) == claimed[Head(todo[r])] \in {r, Nobody}

\* Mutant: the admin endpoint never looks at the quota.
AdminEligible(r) ==
    LET u == Head(todo[r])
    IN  force[r] \/ bulk[r] \/ (u \notin slot /\ claimed[u] # r)

\* now() is fixed within a transaction, so a row it updated is not eligible.
Eligible(r) ==
    LET u == Head(todo[r])
    IN  force[r] \/ (u \notin slot /\ claimed[u] # r)

ClaimSlot(r) ==
    /\ pc[r] = "claim"
    /\ todo[r] # <<>>
    /\ RowFree(r)
    /\ Eligible(r)
    /\ claimed' = [claimed EXCEPT ![Head(todo[r])] = r]
    /\ pc' = [pc EXCEPT ![r] = "insert"]
    /\ UNCHANGED <<todo, bulk, force, targets, slot, locks, pending, job, used>>

\* Mutant: the bulk loop goes round without advancing.
SkipNobody(r) ==
    IF bulk[r]
    THEN /\ pc' = [pc EXCEPT ![r] = "claim"]
         /\ UNCHANGED <<todo, bulk, force, targets, dbVars>>
    ELSE Rollback(r)

\* skipped.append(...) in the bulk loop; a 4xx, which rolls back, otherwise.
SkipOrReject(r) ==
    IF bulk[r]
    THEN /\ todo' = [todo EXCEPT ![r] = Tail(@)]
         /\ pc' = [pc EXCEPT ![r] = "claim"]
         /\ UNCHANGED <<bulk, force, targets, dbVars>>
    ELSE Rollback(r)

RateLimited(r) ==
    /\ pc[r] = "claim"
    /\ todo[r] # <<>>
    /\ RowFree(r)
    /\ ~Eligible(r)
    /\ SkipOrReject(r)
    /\ UNCHANGED <<job, used>>

\* Mutant: ON CONFLICT DO UPDATE.
UpsertLock(r) ==
    LET u == Head(todo[r])
    IN  /\ pc[r] = "insert"
        /\ pending[u] \in {r, Nobody}
        /\ pending' = [pending EXCEPT ![u] = r]
        /\ targets' = [targets EXCEPT ![r] = Append(@, u)]
        /\ todo' = [todo EXCEPT ![r] = Tail(@)]
        /\ pc' = [pc EXCEPT ![r] = "claim"]
        /\ UNCHANGED <<bulk, force, slot, claimed, locks, job, used>>

\* INSERT ... ON CONFLICT DO NOTHING waits for an uncommitted row of another.
InsertLock(r) ==
    LET u == Head(todo[r])
    IN  /\ pc[r] = "insert"
        /\ pending[u] = Nobody
        /\ u \notin locks
        /\ pending' = [pending EXCEPT ![u] = r]
        /\ targets' = [targets EXCEPT ![r] = Append(@, u)]
        /\ todo' = [todo EXCEPT ![r] = Tail(@)]
        /\ pc' = [pc EXCEPT ![r] = "claim"]
        /\ UNCHANGED <<bulk, force, slot, claimed, locks, job, used>>

\* Mutant: the user becomes a target although somebody else has the lock row.
ConflictIgnored(r) ==
    LET u == Head(todo[r])
    IN  /\ pc[r] = "insert"
        /\ u \in locks
        /\ targets' = [targets EXCEPT ![r] = Append(@, u)]
        /\ todo' = [todo EXCEPT ![r] = Tail(@)]
        /\ pc' = [pc EXCEPT ![r] = "claim"]
        /\ UNCHANGED <<bulk, force, dbVars, job, used>>

LockConflict(r) ==
    LET u == Head(todo[r])
    IN  /\ pc[r] = "insert"
        /\ pending[u] \in {r, Nobody}
        /\ u \in locks \/ pending[u] = r
        /\ SkipOrReject(r)
        /\ UNCHANGED <<job, used>>

\* Without a target the bulk handler returns, and the transaction commits.
TargetsDecided(r) ==
    /\ pc[r] = "claim"
    /\ todo[r] = <<>>
    /\ pc' = [pc EXCEPT ![r] = IF targets[r] = <<>> THEN "commit" ELSE "submit"]
    /\ UNCHANGED <<todo, bulk, force, targets, dbVars, job, used>>

Submit(r) ==
    /\ pc[r] = "submit"
    /\ job' = [job EXCEPT ![r] = targets[r]]
    /\ pc' = [pc EXCEPT ![r] = "commit"]
    /\ UNCHANGED <<todo, bulk, force, targets, dbVars, used>>

\* K8sDispatchError: the API refused, or did not answer in ten seconds.
SubmitFails(r) ==
    /\ pc[r] = "submit"
    /\ Rollback(r)
    /\ \/ UNCHANGED <<job, used>>
       \/ /\ job' = [job EXCEPT ![r] = targets[r]]
          /\ Spend("ghosts")

\* Requests that wait for each other's users rows: Postgres aborts one of them.
WaitsFor(r) == claimed[Head(todo[r])]

Blocked(r) == pc[r] = "claim" /\ todo[r] # <<>> /\ ~RowFree(r)

DeadlockDetected(r) ==
    /\ \E S \in SUBSET Requests :
          r \in S /\ \A s \in S : Blocked(s) /\ WaitsFor(s) \in S
    /\ Rollback(r)
    /\ UNCHANGED <<job, used>>

-----------------------------------------------------------------------------
(* The Job: a pod that takes its users one by one and skips those without  *)
(* a lock row; ReprocessJob has the detail.                                *)

PodFinishesUser(r) ==
    /\ job[r] # <<>>
    /\ locks' = locks \ {Head(job[r])}
    /\ job' = [job EXCEPT ![r] = Tail(@)]
    /\ UNCHANGED <<requestVars, slot, claimed, pending, used>>

PodDies(r) ==
    /\ job[r] # <<>>
    /\ job' = [job EXCEPT ![r] = <<>>]
    /\ Spend("deaths")
    /\ UNCHANGED <<requestVars, dbVars>>

\* The operator removes a lock row that no job is going to release.
OperatorClearsLock(u) ==
    /\ u \in locks
    /\ \A r \in Requests : u \notin Range(job[r])
    /\ locks' = locks \ {u}
    /\ UNCHANGED <<requestVars, slot, claimed, pending, job, used>>

\* An hour is much longer than a request.
HourPasses(u) ==
    /\ u \in slot
    /\ claimed[u] = Nobody
    /\ slot' = slot \ {u}
    /\ UNCHANGED <<requestVars, claimed, locks, pending, job, used>>

-----------------------------------------------------------------------------
Handler(r) ==
    \/ ClaimSlot(r) \/ RateLimited(r)
    \/ InsertLock(r) \/ LockConflict(r)
    \/ TargetsDecided(r)
    \/ Submit(r) \/ SubmitFails(r)
    \/ Commit(r)
    \/ DeadlockDetected(r)

Next ==
    \/ \E r \in Requests :
          \/ ReceiveUserTrigger(r) \/ ReceiveBulkTrigger(r)
          \/ Handler(r)
          \/ PodFinishesUser(r) \/ PodDies(r)
    \/ \E u \in Users : OperatorClearsLock(u) \/ HourPasses(u)

Spec == Init /\ [][Next]_vars

\* A handler that can go on does; a deadlock is detected.
FairSpec == Spec /\ \A r \in Requests : WF_vars(Handler(r))
=============================================================================
