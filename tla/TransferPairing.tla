--------------------------- MODULE TransferPairing ---------------------------
(***************************************************************************)
(* Enrichment of one user's transactions with transfer detection: members  *)
(* of the consumer group take messages of the user's partition, each in    *)
(* one database transaction (READ COMMITTED) under the user's advisory     *)
(* lock, and pair the two legs of a transfer.  A reprocess job, which does *)
(* not take that lock, deletes, replays and restores rows meanwhile.       *)
(***************************************************************************)
EXTENDS TransferDecision, Sequences

CONSTANTS
    Txs,            \* transaction ids, numbers: the replay is ordered by (time, id)
    Statements,     \* what the bank and the user may report: functions from Txs to Legs
    Replayed,       \* bound: those beside which a reprocess job runs
    Workers,        \* members of the consumer group
    NoTx,
    MaxFaults,      \* bound: duplicates, crashes, moves of the partition
    MaxJobs,        \* bound: reprocess jobs
    MaxRestores     \* bound: jobs that fail after the DELETE

ASSUME PairingAssumption ==
    /\ Txs \subseteq Nat
    /\ IsFiniteSet(Txs)
    /\ NoTx \notin Txs
    /\ Workers # {}
    /\ Statements \subseteq [Txs -> Legs] /\ Replayed \subseteq Statements
    /\ {MaxFaults, MaxJobs, MaxRestores} \subseteq Nat

VARIABLES
    event,      \* the leg behind each transaction id; never changes
    linked,     \* accounts in the accounts table
    stored,     \* rows of the transactions table
    related,    \* related_transaction_id
    pair,       \* special_category and the pair block, which are written together
    anomaly,    \* reason_code in transfer_match_anomalies
    published,  \* events that reached the topic
    queue,      \* the partition behind the committed offset
    owner,      \* member the partition is assigned to
    pc,         \* where each worker is with its message
    at,         \* the message
    unlinked,   \* the worker takes the short-circuit of an unlinked counterparty
    found,      \* rows its candidate query returned, locked until its commit
    detecting,  \* detection applies to its message
    job,        \* phase of the reprocess job
    backup,     \* the snapshot: ids, related, pair
    doomed,     \* rows the running DELETE has in its snapshot
    used        \* how much of each bound has been spent

tableVars  == <<stored, related, pair, anomaly>>
topicVars  == <<published, queue, owner>>
workerVars == <<pc, at, unlinked, found, detecting>>
jobVars    == <<job, backup, doomed>>
vars       == <<event, linked, tableVars, topicVars, workerVars, jobVars, used>>

InTransaction == {"gated", "fetched"}
Bounds == {"faults", "jobs", "restores"}
Pairs == [evidence : {"bilateral", "unilateral", "none"}, decisive : BOOLEAN, claimed : BOOLEAN]
Reasons == Unpaired \cup Terminal \cup {"none"}

\* Types; a worker that commits has a message.
TypeOK ==
    /\ event \in [Txs -> Legs]
    /\ linked \subseteq Accounts
    /\ stored \subseteq Txs /\ published \subseteq Txs /\ doomed \subseteq Txs
    /\ related \in [Txs -> Txs \cup {NoTx}]
    /\ pair \in [Txs -> Pairs]
    /\ anomaly \in [Txs -> Reasons]
    /\ queue \in Seq(Txs)
    /\ owner \in Workers
    /\ pc \in [Workers -> {"idle", "polled", "stored"} \cup InTransaction]
    /\ at \in [Workers -> Txs \cup {NoTx}]
    /\ {unlinked, detecting} \subseteq [Workers -> BOOLEAN]
    /\ found \in [Workers -> SUBSET Txs]
    /\ job \in {"none", "saved", "deleting", "deleted", "replayed", "over"}
    /\ backup \in [ids : SUBSET Txs, related : [Txs -> Txs \cup {NoTx}], pair : [Txs -> Pairs]]
    /\ used \in [Bounds -> Nat]

Bound == [faults |-> MaxFaults, jobs |-> MaxJobs, restores |-> MaxRestores]

Spend(kind) ==
    /\ used[kind] < Bound[kind]
    /\ used' = [used EXCEPT ![kind] = @ + 1]

Init ==
    /\ event \in Statements
    /\ linked \in SUBSET Accounts
    /\ stored = {}
    /\ related = [t \in Txs |-> NoTx]
    /\ pair = [t \in Txs |-> NoPair]
    /\ anomaly = [t \in Txs |-> "none"]
    /\ published = {}
    /\ queue = <<>>
    /\ owner = CHOOSE w \in Workers : TRUE
    /\ pc = [w \in Workers |-> "idle"]
    /\ at = [w \in Workers |-> NoTx]
    /\ unlinked = [w \in Workers |-> FALSE]
    /\ found = [w \in Workers |-> {}]
    /\ detecting = [w \in Workers |-> FALSE]
    /\ job = "none"
    /\ backup = [ids |-> {}, related |-> related, pair |-> pair]
    /\ doomed = {}
    /\ used = [kind \in Bounds |-> 0]

-----------------------------------------------------------------------------
(* The surroundings: ingestion and the consumer group. *)

LinkAccount(a) ==
    /\ a \notin linked
    /\ linked' = linked \cup {a}
    /\ UNCHANGED <<event, tableVars, topicVars, workerVars, jobVars, used>>

\* Only linked accounts report anything.  A drain that is retried publishes twice.
Publish(t) ==
    /\ event[t].account \in linked
    /\ IF t \in published THEN Spend("faults") ELSE UNCHANGED used
    /\ published' = published \cup {t}
    /\ queue' = Append(queue, t)
    /\ UNCHANGED <<event, linked, tableVars, owner, workerVars, jobVars>>

\* A member joins by polling; the former owner may still be busy with its message.
Rebalance(w) ==
    /\ w # owner /\ pc[w] = "idle"
    /\ Spend("faults")
    /\ owner' = w
    /\ UNCHANGED <<event, linked, tableVars, published, queue, workerVars, jobVars>>

-----------------------------------------------------------------------------
(* run_enrichment_consumer, one message of worker w. *)

Poll(w) ==
    /\ w = owner /\ pc[w] = "idle" /\ queue # <<>>
    /\ at' = [at EXCEPT ![w] = Head(queue)]
    /\ pc' = [pc EXCEPT ![w] = "polled"]
    /\ UNCHANGED <<event, linked, tableVars, topicVars, unlinked, found, detecting, jobVars, used>>

\* Mutant: no pg_advisory_xact_lock.
LockIgnored(w) == pc[w] = "polled"

LockFree(w) ==
    pc[w] = "polled" /\ \A v \in Workers : pc[v] \notin InTransaction

\* acquire_user_lock, then the strategy's gate and transaction_exists.
Gate(w) ==
    /\ LockFree(w)
    /\ detecting' = [detecting EXCEPT ![w] = Detects(event[at[w]]) /\ at[w] \notin stored]
    /\ pc' = [pc EXCEPT ![w] = IF detecting'[w] THEN "gated" ELSE "fetched"]
    /\ UNCHANGED <<event, linked, tableVars, topicVars, at, unlinked, found, jobVars, used>>

LockedRows(w) == UNION {found[v] : v \in Workers \ {w}}

FindUniversalCandidates(w) ==
    {c \in stored \ LockedRows(w) : related[c] = NoTx /\ IsCandidate(event[at[w]], event[c])}

\* Flags of the row, then SELECT ... FOR UPDATE SKIP LOCKED.  The DELETE of a job that
\* is waiting for a row holds locks on some of the others, which are skipped.
Fetch(w) ==
    /\ pc[w] = "gated"
    /\ IF CpIbanStatus(event[at[w]], linked) = "unlinked"
       THEN /\ unlinked' = [unlinked EXCEPT ![w] = TRUE]
            /\ UNCHANGED found
       ELSE /\ \E skipped \in SUBSET doomed :
                   found' = [found EXCEPT ![w] = FindUniversalCandidates(w) \ skipped]
            /\ UNCHANGED unlinked
    /\ pc' = [pc EXCEPT ![w] = "fetched"]
    /\ UNCHANGED <<event, linked, tableVars, topicVars, at, detecting, jobVars, used>>

Consistent(w) == {c \in found[w] : IsConsistent(event[at[w]], event[c], linked)}

Verdict(w) ==
    IF ~detecting[w] THEN Plain("none")
    ELSE IF unlinked[w] THEN HandleUnlinked(event[at[w]])
    ELSE Decide(event, at[w], Consistent(w), linked)

\* Mutant: unpaired anomalies stay where they are.
KeepAnomalies(claimed, t) == anomaly

\* delete_unpaired_anomalies_for_transactions
ResolveAnomalies(claimed, t) ==
    [x \in Txs |-> IF claimed # {} /\ x \in claimed \cup {t} /\ anomaly[x] \in Unpaired
                   THEN "none" ELSE anomaly[x]]

\* Forget the message: the transaction has ended.
EndTransaction(w, phase) ==
    /\ pc' = [pc EXCEPT ![w] = phase]
    /\ unlinked' = [unlinked EXCEPT ![w] = FALSE]
    /\ found' = [found EXCEPT ![w] = {}]
    /\ detecting' = [detecting EXCEPT ![w] = FALSE]

\* claim_pair and the resolution of anomalies, the INSERT ... ON CONFLICT DO NOTHING,
\* the new anomaly, and the commit, which makes all of it visible at once.
Persist(w) ==
    LET t       == at[w]
        verdict == Verdict(w)
        cleaned == ResolveAnomalies(verdict.partner, t)
    IN  /\ pc[w] = "fetched"
        /\ stored' = stored \cup {t}
        /\ related' = [x \in Txs |->
                         CASE x \in verdict.partner -> t
                           [] x = t /\ t \notin stored /\ verdict.partner # {} ->
                                 CHOOSE c \in verdict.partner : TRUE
                           [] OTHER -> related[x]]
        /\ pair' = [x \in Txs |-> IF x \in verdict.partner \/ (x = t /\ t \notin stored)
                                  THEN verdict.pair ELSE pair[x]]
        /\ anomaly' = IF verdict.anomaly # "none" /\ cleaned[t] = "none"
                      THEN [cleaned EXCEPT ![t] = verdict.anomaly] ELSE cleaned
        /\ EndTransaction(w, "stored")
        /\ UNCHANGED <<event, linked, topicVars, at, jobVars, used>>

\* consumer.commit: rejected by the broker when the partition has moved on.
CommitOffset(w) ==
    /\ pc[w] = "stored"
    /\ queue' = IF w = owner THEN Tail(queue) ELSE queue
    /\ pc' = [pc EXCEPT ![w] = "idle"]
    /\ at' = [at EXCEPT ![w] = NoTx]
    /\ UNCHANGED <<event, linked, tableVars, published, owner, unlinked, found, detecting, jobVars, used>>

\* Mutant: the offset was committed on delivery, as with enable.auto.commit.
CrashSkips(w) ==
    /\ pc[w] # "idle"
    /\ Spend("faults")
    /\ EndTransaction(w, "idle")
    /\ at' = [at EXCEPT ![w] = NoTx]
    /\ queue' = IF w = owner THEN Tail(queue) ELSE queue
    /\ UNCHANGED <<event, linked, tableVars, published, owner, jobVars>>

\* The process dies, or the transaction fails and the exception ends the process; the
\* message is delivered again.
Crash(w) ==
    /\ pc[w] # "idle"
    /\ Spend("faults")
    /\ EndTransaction(w, "idle")
    /\ at' = [at EXCEPT ![w] = NoTx]
    /\ UNCHANGED <<event, linked, tableVars, topicVars, jobVars>>

-----------------------------------------------------------------------------
(* What a reprocess job does to the table and the topic. *)

SnapshotTransactions ==
    /\ event \in Replayed
    /\ job \in {"none", "over"}
    /\ Spend("jobs")
    /\ backup' = [ids |-> stored, related |-> related, pair |-> pair]
    /\ job' = "saved"
    /\ UNCHANGED <<event, linked, tableVars, topicVars, workerVars, doomed>>

\* The DELETE takes its snapshot, and waits for rows a worker has locked.
DeleteStarts ==
    /\ job = "saved"
    /\ doomed' = stored
    /\ job' = "deleting"
    /\ UNCHANGED <<event, linked, tableVars, topicVars, workerVars, backup, used>>

\* Mutant: the foreign key leaves related_transaction_id as it is.
NoSetNull == [t \in Txs |-> IF t \in doomed THEN NoTx ELSE related[t]]

\* ON DELETE SET NULL
RelatedAfterDelete ==
    [t \in Txs |-> IF t \in doomed \/ related[t] \in doomed THEN NoTx ELSE related[t]]

DeleteEnds ==
    /\ job = "deleting"
    /\ \A w \in Workers : found[w] \cap doomed = {}
    /\ stored' = stored \ doomed
    /\ related' = RelatedAfterDelete
    /\ pair' = [t \in Txs |-> IF t \in doomed THEN NoPair ELSE pair[t]]
    /\ anomaly' = [t \in Txs |-> IF t \in doomed THEN "none" ELSE anomaly[t]]
    /\ doomed' = {}
    /\ job' = "deleted"
    /\ UNCHANGED <<event, linked, topicVars, workerVars, backup, used>>

Earlier(s, t) ==
    \/ event[s].time < event[t].time
    \/ event[s].time = event[t].time /\ s < t

\* The one enumeration of the rows that is increasing.
InReplayOrder(rows) ==
    {s \in [1 .. Cardinality(rows) -> rows] :
        \A i, j \in DOMAIN s : i < j => Earlier(s[i], s[j])}

\* Replayed messages may be lost: on_delivery only logs.
Replay ==
    /\ job = "deleted"
    /\ \E delivered \in SUBSET backup.ids :
          /\ delivered = backup.ids \/ used.restores < MaxRestores
          /\ \E replay \in InReplayOrder(delivered) : queue' = queue \o replay
    /\ job' = "replayed"
    /\ UNCHANGED <<event, linked, tableVars, published, owner, workerVars, backup, doomed, used>>

VerifySnapshot ==
    /\ job = "replayed"
    /\ backup.ids \subseteq stored
    /\ job' = "over"
    /\ UNCHANGED <<event, linked, tableVars, topicVars, workerVars, backup, doomed, used>>

\* Publishing raises, the wait times out or rows are missing: the rows that are not in
\* the table come back as they were, the others stay as they are.
RestoreFromBackup ==
    /\ job \in {"deleted", "replayed"}
    /\ Spend("restores")
    /\ stored' = stored \cup backup.ids
    /\ related' = [t \in Txs |-> IF t \in backup.ids \ stored THEN backup.related[t] ELSE related[t]]
    /\ pair' = [t \in Txs |-> IF t \in backup.ids \ stored THEN backup.pair[t] ELSE pair[t]]
    /\ job' = "over"
    /\ UNCHANGED <<event, linked, anomaly, topicVars, workerVars, backup, doomed>>

-----------------------------------------------------------------------------
WorkerStep(w) == Poll(w) \/ Gate(w) \/ Fetch(w) \/ Persist(w) \/ CommitOffset(w)

JobStep ==
    \/ SnapshotTransactions \/ DeleteStarts \/ DeleteEnds \/ Replay \/ VerifySnapshot
    \/ RestoreFromBackup

Next ==
    \/ \E a \in Accounts : LinkAccount(a)
    \/ \E t \in Txs : Publish(t)
    \/ \E w \in Workers : WorkerStep(w) \/ Crash(w) \/ Rebalance(w)
    \/ JobStep

Spec == Init /\ [][Next]_vars

\* Members of the group keep polling; nothing obliges the bank, a job, a crash, a
\* rebalance or an operator to act.
Fairness == \A w \in Workers : WF_vars(WorkerStep(w))

FairSpec == Spec /\ Fairness
=============================================================================
