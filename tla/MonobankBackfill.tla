-------------------------- MODULE MonobankBackfill --------------------------
(***************************************************************************)
(* Backfill of a Monobank account: a Kubernetes Job whose pods read the     *)
(* token of the integration once, ask the bank for statements, and mark     *)
(* the integration when the bank refuses the token.  Composed with linking. *)
(***************************************************************************)
EXTENDS MonobankLink

CONSTANT BackoffLimit

ASSUME BackoffAssumption == BackoffLimit \in Nat \ {0}

VARIABLE jobs   \* sequence of the Jobs created

vars == <<linkVars, jobs>>

Pod == {"none", "starting", "fetching", "flushing", "marking"}

-----------------------------------------------------------------------------
(* POST /monobank/accounts/{id}/backfill. *)

\* Mutant: only a Job with a running pod counts.
PodRuns(j) == jobs[j].status = "open" /\ jobs[j].pod # "none"

\* _has_active_job.  A Job that Kubernetes has given up for its deadline counts.
LooksActive(j) ==
    jobs[j].status \in {"open", "failed"} /\ jobs[j].attempts < BackoffLimit

\* get_external_ref finds no account that is not bound.
IsBound(a) == accounts[a].integration # None

\* trigger_transactions_backfill.
NewJob(a) == [account |-> a, integ |-> accounts[a].integration, token |-> None,
              attempts |-> 0, pod |-> "none", status |-> "open"]

\* The calls of Kubernetes are synchronous: nothing of the process runs between the
\* check and the creation.
TriggerBackfill(a) ==
    /\ IsBound(a)
    /\ \A j \in DOMAIN jobs : jobs[j].account = a => ~LooksActive(j)
    /\ Spend
    /\ jobs' = Append(jobs, NewJob(a))
    /\ UNCHANGED <<tables, bank, req, job, faults>>

-----------------------------------------------------------------------------
(* A pod: run_backfill. *)

\* The Job controller starts a pod while no more than BackoffLimit have failed.
StartPod(j) ==
    /\ jobs[j].status = "open" /\ jobs[j].pod = "none"
    /\ jobs' = [jobs EXCEPT ![j].pod = "starting"]
    /\ UNCHANGED linkVars

PodFails(j) ==
    LET n == jobs[j].attempts + 1
    IN  jobs' = [jobs EXCEPT ![j].attempts = n, ![j].pod = "none", ![j].token = None,
                             ![j].status = IF n > BackoffLimit THEN "failed" ELSE "open"]

\* get_bank_source, decrypt_token, and get_account_by_external_id with the external id of
\* the account and the integration.
ReadIntegration(j) ==
    LET i == jobs[j].integ
        tokens == {token \in DecryptToken(i) : AccountsOf(accounts[jobs[j].account].card, i) # {}}
    IN  /\ jobs[j].pod = "starting"
        /\ \/ \E token \in tokens :
                jobs' = [jobs EXCEPT ![j].pod = "fetching", ![j].token = token]
           \/ tokens = {} /\ PodFails(j)
        /\ UNCHANGED linkVars

\* The router allows no window of more than one chunk: one call and one batch of
\* envelopes.  The account is the row that was read at the start.
FetchStatements(j) ==
    /\ jobs[j].pod = "fetching"
    /\ jobs[j].token = bank[accounts[jobs[j].account].client].token
    /\ jobs' = [jobs EXCEPT ![j].pod = "flushing"]
    /\ UNCHANGED linkVars

\* The broker takes the envelopes, or 30 seconds pass; the pod succeeds.
Flush(j) ==
    /\ jobs[j].pod = "flushing"
    /\ jobs' = [jobs EXCEPT ![j].pod = "none", ![j].status = "complete"]
    /\ UNCHANGED linkVars

\* 401 or 403.
TokenRefused(j) ==
    /\ jobs[j].pod = "fetching"
    /\ jobs[j].token # bank[accounts[jobs[j].account].client].token
    /\ jobs' = [jobs EXCEPT ![j].pod = "marking"]
    /\ UNCHANGED linkVars

\* mark_integration_error.
WithError(i) ==
    IF i \in Ids THEN [integrations EXCEPT ![i].status = "error"] ELSE integrations

\* In a transaction of its own; the pod then raises.
MarkError(j) ==
    /\ jobs[j].pod = "marking"
    /\ \A q \in Requests : ~Holds(q, jobs[j].integ)
    /\ integrations' = WithError(jobs[j].integ)
    /\ PodFails(j)
    /\ UNCHANGED <<bank, accounts, req, job, role, fresh, ops, faults, orderly, slipped>>

\* Any other error of the bank, or the node.
PodDies(j) ==
    /\ jobs[j].pod # "none"
    /\ faults < MaxFaults
    /\ faults' = faults + 1
    /\ PodFails(j)
    /\ UNCHANGED <<tables, bank, req, job, ops, orderly>>

\* active_deadline_seconds: the pod is killed, without a completion time.
Deadline(j) ==
    /\ jobs[j].status = "open"
    /\ faults < MaxFaults
    /\ faults' = faults + 1
    /\ jobs' = [jobs EXCEPT ![j].status = "failed", ![j].pod = "none"]
    /\ UNCHANGED <<tables, bank, req, job, ops, orderly>>

\* ttl_seconds_after_finished.
Collect(j) ==
    /\ jobs[j].status \in {"complete", "failed"}
    /\ jobs' = [jobs EXCEPT ![j].status = "gone"]
    /\ UNCHANGED linkVars

PodStep(j) ==
    \/ StartPod(j) \/ ReadIntegration(j) \/ FetchStatements(j) \/ Flush(j)
    \/ TokenRefused(j) \/ MarkError(j) \/ Collect(j)

MonobankInit == Init /\ jobs = <<>>

Next ==
    \/ LinkNext /\ UNCHANGED jobs
    \/ \E a \in DOMAIN accounts : TriggerBackfill(a)
    \/ \E j \in DOMAIN jobs : PodStep(j) \/ PodDies(j) \/ Deadline(j)

Spec == MonobankInit /\ [][Next]_vars
=============================================================================
